----------------------------- MODULE Supervisor -----------------------------
(***************************************************************************)
(* Supervisor.EnsureRunning and restartOnce (internal/daemon/              *)
(* supervisor.go) as the goroutines of one client process run them: a      *)
(* caller that finds the daemon unhealthy runs the restart, the others     *)
(* wait on a channel that is closed when it is over, and look again.       *)
(*                                                                         *)
(* The daemon is modelled by what these checks can tell of it.  While it   *)
(* starts, it makes its socket before it writes its pid (daemon.go:359-    *)
(* 373), so there is a moment when waitForSocket is content and healthy is *)
(* not.  DaemonFiles models the files and the processes themselves.        *)
(***************************************************************************)
EXTENDS Integers, FiniteSets

CONSTANTS
  Callers,    \* calls of EnsureRunning
  MaxFaults,  \* deaths of the daemon, failed spawns and waits that time out
  None

ASSUME SupervisorAssumption == MaxFaults \in Nat /\ None \notin Callers

VARIABLES
  pc,         \* where each call is
  attempted,  \* its local variable
  waitOn,     \* the channel it waits on
  err,        \* what its restartOnce returned
  result,     \* what it returned
  inFlight, done, lastErr,  \* fields of the Supervisor, under s.mu
  closed,     \* channels that have been closed
  daemon,     \* "down", "booting", "listening", "up" or "hung"
  spawns,     \* children spawned
  faults

localVars == <<pc, attempted, waitOn, err, result>>
sharedVars == <<inFlight, done, lastErr, closed>>
vars == <<pc, attempted, waitOn, err, result, inFlight, done, lastErr, closed,
          daemon, spawns, faults>>

\* Channels are numbered as they are made.
Channels == 0 .. Cardinality(Callers)

Restarting == {"restart", "spawn", "socket", "publish"}

Init ==
  /\ pc = [c \in Callers |-> "check"]
  /\ attempted = [c \in Callers |-> FALSE]
  /\ waitOn = [c \in Callers |-> 0]
  /\ err = [c \in Callers |-> "nil"]
  /\ result = [c \in Callers |-> None]
  /\ inFlight = FALSE /\ done = 0 /\ lastErr = "nil" /\ closed = {}
  /\ daemon \in {"down", "booting", "up", "hung"}
  /\ spawns = 0 /\ faults = 0

Goto(c, label) == pc' = [pc EXCEPT ![c] = label]

Return(c, value) ==
  /\ Goto(c, "returned")
  /\ result' = [result EXCEPT ![c] = value]

Fault == faults < MaxFaults /\ faults' = faults + 1

\* healthy: the pid file names a live process and the socket answers.
Healthy == daemon = "up"
-----------------------------------------------------------------------------
CheckHealth(c) ==
  /\ pc[c] = "check"
  /\ IF Healthy
     THEN Return(c, "nil")
     ELSE Goto(c, "lock") /\ UNCHANGED result
  /\ UNCHANGED <<attempted, waitOn, err, sharedVars, daemon, spawns, faults>>

\* The critical section of EnsureRunning.
JoinWaiters(c) ==
  /\ inFlight
  /\ waitOn' = [waitOn EXCEPT ![c] = done]
  /\ Goto(c, "wait")
  /\ UNCHANGED <<attempted, err, result, sharedVars>>

GiveUp(c) ==
  /\ ~inFlight /\ attempted[c]
  /\ Goto(c, "giveUp")
  /\ UNCHANGED <<attempted, waitOn, err, result, sharedVars>>

\* Mutant: a caller does not mind another's restart.
Win_Uncoordinated(c) ==
  /\ ~attempted[c]
  /\ attempted' = [attempted EXCEPT ![c] = TRUE]
  /\ inFlight' = TRUE /\ done' = done + 1
  /\ Goto(c, "restart")
  /\ UNCHANGED <<waitOn, err, result, lastErr, closed>>

Win(c) ==
  /\ ~inFlight /\ ~attempted[c]
  /\ attempted' = [attempted EXCEPT ![c] = TRUE]
  /\ inFlight' = TRUE /\ done' = done + 1
  /\ Goto(c, "restart")
  /\ UNCHANGED <<waitOn, err, result, lastErr, closed>>

Enter(c) ==
  /\ pc[c] = "lock"
  /\ JoinWaiters(c) \/ GiveUp(c) \/ Win(c)
  /\ UNCHANGED <<daemon, spawns, faults>>

\* <-done
Wake(c) ==
  /\ pc[c] = "wait" /\ waitOn[c] \in closed
  /\ Goto(c, "check")
  /\ UNCHANGED <<attempted, waitOn, err, result, sharedVars, daemon, spawns,
                 faults>>

\* return s.lastErr, read after the mutex has been dropped.
ReturnLastErr(c) ==
  /\ pc[c] = "giveUp"
  /\ Return(c, lastErr)
  /\ UNCHANGED <<attempted, waitOn, err, sharedVars, daemon, spawns, faults>>
-----------------------------------------------------------------------------
(* restartOnce, run by the winner alone. *)

RestartFrame == UNCHANGED <<attempted, waitOn, result, sharedVars>>

\* A healthy daemon is left alone.  An unresponsive one is killed; one that
\* has not written its pid yet goes unseen, and loses its files like a dead
\* one: either way nothing is left of it for a client.
CheckAndClean(c) ==
  /\ pc[c] = "restart"
  /\ IF Healthy
     THEN Goto(c, "publish") /\ UNCHANGED daemon
     ELSE Goto(c, "spawn") /\ daemon' = "down"
  /\ err' = [err EXCEPT ![c] = "nil"]
  /\ RestartFrame /\ UNCHANGED <<spawns, faults>>

SpawnWorker(c) ==
  /\ pc[c] = "spawn"
  /\ \/ /\ Goto(c, "socket")
        /\ daemon' = "booting" /\ spawns' = spawns + 1
        /\ UNCHANGED <<err, faults>>
     \/ /\ Fault
        /\ Goto(c, "publish") /\ err' = [err EXCEPT ![c] = "err"]
        /\ UNCHANGED <<daemon, spawns>>
  /\ RestartFrame

\* waitForSocket looks at the socket only.  It gives up when the child has
\* died, or has been too slow (a fault).
WaitForSocket(c) ==
  /\ pc[c] = "socket"
  /\ \/ /\ daemon \in {"listening", "up", "hung"}
        /\ UNCHANGED <<err, faults>>
     \/ /\ daemon = "down"
        /\ err' = [err EXCEPT ![c] = "err"] /\ UNCHANGED faults
     \/ /\ daemon = "booting" /\ Fault
        /\ err' = [err EXCEPT ![c] = "err"]
  /\ Goto(c, "publish")
  /\ RestartFrame /\ UNCHANGED <<daemon, spawns>>

\* Mutant: the winner forgets to close the channel.
Publish_NotClosed(c) ==
  /\ pc[c] = "publish"
  /\ inFlight' = FALSE /\ lastErr' = err[c]
  /\ IF err[c] = "err"
     THEN Return(c, "err")
     ELSE Goto(c, "check") /\ UNCHANGED result
  /\ UNCHANGED <<attempted, waitOn, err, done, closed, daemon, spawns, faults>>

\* Under s.mu: publish the outcome and release the waiters.
Publish(c) ==
  /\ pc[c] = "publish"
  /\ inFlight' = FALSE /\ lastErr' = err[c] /\ closed' = closed \union {done}
  /\ IF err[c] = "err"
     THEN Return(c, "err")
     ELSE Goto(c, "check") /\ UNCHANGED result
  /\ UNCHANGED <<attempted, waitOn, err, done, daemon, spawns, faults>>
-----------------------------------------------------------------------------
(* The daemon: it makes its socket, then writes its pid; it may die, or stop *)
(* answering.                                                                *)
Boot ==
  /\ \/ daemon = "booting" /\ daemon' = "listening"
     \/ daemon = "listening" /\ daemon' = "up"
  /\ UNCHANGED <<localVars, sharedVars, spawns, faults>>

Fail ==
  /\ Fault
  /\ \/ daemon \in {"booting", "listening", "up", "hung"} /\ daemon' = "down"
     \/ daemon = "up" /\ daemon' = "hung"
  /\ UNCHANGED <<localVars, sharedVars, spawns>>

Returned == (\A c \in Callers : pc[c] = "returned") /\ UNCHANGED vars

Step(c) == CheckHealth(c) \/ Enter(c) \/ Wake(c) \/ ReturnLastErr(c)
             \/ CheckAndClean(c) \/ SpawnWorker(c) \/ WaitForSocket(c)
             \/ Publish(c)

Next == (\E c \in Callers : Step(c)) \/ Boot \/ Fail \/ Returned

Spec == Init /\ [][Next]_vars

\* Goroutines are scheduled, and a child that is alive makes progress.
Fairness == (\A c \in Callers : WF_vars(Step(c))) /\ WF_vars(Boot)

FairSpec == Spec /\ Fairness
-----------------------------------------------------------------------------
TypeOK ==
  /\ pc \in [Callers -> Restarting \union {"check", "lock", "wait", "giveUp",
                                           "returned"}]
  /\ attempted \in [Callers -> BOOLEAN]
  /\ waitOn \in [Callers -> Channels]
  /\ err \in [Callers -> {"nil", "err"}]
  /\ result \in [Callers -> {"nil", "err", None}]
  /\ inFlight \in BOOLEAN /\ done \in Channels /\ lastErr \in {"nil", "err"}
  /\ closed \subseteq Channels
  /\ daemon \in {"down", "booting", "listening", "up", "hung"}
  /\ spawns \in Nat
  /\ faults \in 0 .. MaxFaults

\* The caller that runs a restart.
Winner ==
  IF \E c \in Callers : pc[c] \in Restarting
  THEN CHOOSE c \in Callers : pc[c] \in Restarting
  ELSE None

Abstract == INSTANCE SingleFlight WITH
  running  <- Winner,
  tried    <- {c \in Callers : attempted[c]},
  returned <- {c \in Callers : pc[c] = "returned"}

(***************************************************************************)
(* EnsureRunning implements its promise: one restart at a time, at most    *)
(* one attempt per call (supervisor.go:135-141).                           *)
(***************************************************************************)
ImplementsSingleFlight == Abstract!Spec

(***************************************************************************)
(* Every call returns, whatever dies under it (supervisor.go:142-176).     *)
(***************************************************************************)
EveryCallReturns == Abstract!Fulfilled

(***************************************************************************)
(* A waiter cannot miss its wake-up: the channel it holds has been closed, *)
(* or is the one that the restart in flight will close, although s.done is *)
(* replaced for every restart (supervisor.go:149-170).                     *)
(***************************************************************************)
NoLostWakeup ==
  \A c \in Callers :
    pc[c] = "wait" => waitOn[c] \in closed \/ (inFlight /\ waitOn[c] = done)

(***************************************************************************)
(* supervisor.go:136-137: "Concurrent calls collapse into ONE restart      *)
(* attempt": as long as nothing fails, one child is spawned.  The code     *)
(* does not keep this (README.md, "Divergences").                          *)
(***************************************************************************)
OneSpawnWithoutFaults == faults = 0 => spawns <= 1

(***************************************************************************)
(* supervisor.go:141: "Returns nil once the daemon is up": the step that   *)
(* returns nil finds the daemon healthy.  The code does not keep this      *)
(* (README.md, "Divergences").                                             *)
(***************************************************************************)
NilMeansUp ==
  [][\A c \in Callers :
       result[c] = None /\ result'[c] = "nil" => Healthy]_vars
=============================================================================
