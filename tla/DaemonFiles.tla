----------------------------- MODULE DaemonFiles -----------------------------
(***************************************************************************)
(* The pid file and the socket of the daemon, as the processes that share  *)
(* them see them: daemons that start, serve, stop and crash (Daemon.Start  *)
(* and cleanup, internal/daemon/daemon.go; acquireLock, daemon_unix.go),   *)
(* and command-line processes that restart or stop them (restartOnce,      *)
(* forceStop and Stop, supervisor.go; killDaemon, supervisor_unix.go).     *)
(*                                                                         *)
(* Both are names in a file system: what a name stands for can be removed  *)
(* under a process that has it open.  The pid file is a file that daemons  *)
(* lock (flock) and that holds a pid; the lock belongs to the file, not to *)
(* the name, and the kernel drops it when its owner exits.                 *)
(***************************************************************************)
EXTENDS Integers, FiniteSets

CONSTANTS
  Daemons,      \* daemon processes, each of which runs at most once
  Supervisors,  \* command-line processes, each of which runs one command
  Ops,          \* what may be asked: "restart", "stop", "signal"
  MaxFaults,    \* crashes, failed writes and daemons that do not answer
  None

ASSUME FilesAssumption ==
  /\ MaxFaults \in Nat
  /\ None \notin Daemons
  /\ Ops \subseteq {"restart", "stop", "signal"}

VARIABLES
  pc,       \* where each daemon is
  term,     \* daemons sent SIGTERM
  fd,       \* the file a daemon opened as its pid file
  pidFile,  \* the file that name stands for, or None
  text,     \* the pid a file holds, or None
  locked,   \* the daemon that holds a file's lock, or None
  sock,     \* the daemon whose listener the socket's name stands for, or None
  sup,      \* where each command-line process is
  seen,     \* the pid it read
  child,    \* the daemon it spawned
  faults

daemonVars == <<pc, term, fd>>
fileVars == <<pidFile, text, locked, sock>>
supVars == <<sup, seen, child>>
vars == <<pc, term, fd, pidFile, text, locked, sock, sup, seen, child, faults>>

\* A file is named after the daemon whose open created it: each opens once.
Files == Daemons

\* Daemons past acquireLock that have not released the lock.
HolderStates == {"unlink", "listen", "writePid", "serve", "drain"}
DaemonStates ==
  HolderStates \union {"idle", "open", "lock", "removeSocket", "removePid",
                       "removeSocketAgain", "removePidAgain", "dead"}

Holders == {d \in Daemons : pc[d] \in HolderStates}

Running(d) == pc[d] \notin {"idle", "dead"}

\* IsProcessAlive.  A daemon that has exited is a zombie for as long as the
\* process that spawned it lives and does not wait for it: nothing calls
\* Wait on the child, and signal 0 to a zombie succeeds.
IsProcessAlive(d) ==
  Running(d) \/ \E s \in Supervisors : child[s] = d /\ sup[s] # "exited"

Init ==
  /\ pc \in [Daemons -> {"idle", "open"}]
  /\ term = {}
  /\ fd = [d \in Daemons |-> None]
  /\ pidFile = None /\ sock = None
  /\ text = [f \in Files |-> None]
  /\ locked = [f \in Files |-> None]
  /\ sup \in [Supervisors -> Ops \cap {"restart", "stop"}]
  /\ seen = [s \in Supervisors |-> None]
  /\ child = [s \in Supervisors |-> None]
  /\ faults = 0

Fault == faults < MaxFaults /\ faults' = faults + 1

Goto(d, label) == pc' = [pc EXCEPT ![d] = label]

\* A process that exits loses its lock, and its listener is gone.
Unlocked(d) == [f \in Files |-> IF locked[f] = d THEN None ELSE locked[f]]
-----------------------------------------------------------------------------
(* Daemon.Start *)

\* os.OpenFile(O_CREATE|O_RDWR) in acquireLock.
OpenPidFile(d) ==
  /\ pc[d] = "open"
  /\ pidFile' = IF pidFile = None THEN d ELSE pidFile
  /\ fd' = [fd EXCEPT ![d] = pidFile']
  /\ Goto(d, "lock")
  /\ UNCHANGED <<term, text, locked, sock, supVars, faults>>

\* Mutant: the daemon goes on without the lock.
AcquireLock_Ignored(d) ==
  /\ pc[d] = "lock"
  /\ Goto(d, "unlink")
  /\ locked' = [locked EXCEPT ![fd[d]] = d]
  /\ UNCHANGED <<term, fd, pidFile, text, sock, supVars, faults>>

\* flock(LOCK_EX|LOCK_NB): a daemon that does not get it gives up.
AcquireLock(d) ==
  /\ pc[d] = "lock"
  /\ \/ /\ locked[fd[d]] = None
        /\ locked' = [locked EXCEPT ![fd[d]] = d]
        /\ Goto(d, "unlink")
     \/ locked[fd[d]] # None /\ Goto(d, "dead") /\ UNCHANGED locked
  /\ UNCHANGED <<term, fd, pidFile, text, sock, supVars, faults>>

RemoveStaleSocket(d) ==
  /\ pc[d] = "unlink"
  /\ sock' = None
  /\ Goto(d, "listen")
  /\ UNCHANGED <<term, fd, pidFile, text, locked, supVars, faults>>

\* net.Listen: the name must be free; else teardownActor releases the lock.
Listen(d) ==
  /\ pc[d] = "listen"
  /\ \/ sock = None /\ sock' = d /\ Goto(d, "writePid") /\ UNCHANGED locked
     \/ sock # None /\ locked' = Unlocked(d) /\ Goto(d, "dead") /\ UNCHANGED sock
  /\ UNCHANGED <<term, fd, pidFile, text, supVars, faults>>

\* Mutant: the pid is not written.
WritePidLocked_Skipped(d) ==
  /\ pc[d] = "writePid"
  /\ Goto(d, "serve")
  /\ UNCHANGED <<term, fd, pidFile, text, locked, sock, supVars, faults>>

\* writePIDLocked: truncate and write.  When it fails, closing the listener
\* unlinks the socket's name and teardownActor releases the lock.
WritePidLocked(d) ==
  /\ pc[d] = "writePid"
  /\ \/ /\ text' = [text EXCEPT ![fd[d]] = d]
        /\ Goto(d, "serve")
        /\ UNCHANGED <<sock, locked, faults>>
     \/ /\ Fault
        /\ sock' = None /\ locked' = Unlocked(d)
        /\ Goto(d, "dead")
        /\ UNCHANGED text
  /\ UNCHANGED <<term, fd, pidFile, supVars>>
-----------------------------------------------------------------------------
(* Daemon.cleanup *)

\* The context is cancelled; Go's UnixListener.Close unlinks the socket's
\* name, whatever it stands for by then.
CloseListener(d) ==
  /\ pc[d] = "serve"
  /\ d \in term \/ "signal" \in Ops
  /\ sock' = None
  /\ Goto(d, "drain")
  /\ UNCHANGED <<term, fd, pidFile, text, locked, supVars, faults>>

\* Requests and actors are done with; the lock goes before the names do.
ReleaseLock(d) ==
  /\ pc[d] = "drain"
  /\ locked' = Unlocked(d)
  /\ Goto(d, "removeSocket")
  /\ UNCHANGED <<term, fd, pidFile, text, sock, supVars, faults>>

\* The socket and the pid file are each removed twice, under the current
\* and under the legacy name, which are the same.
RemoveSocket(d) ==
  /\ pc[d] \in {"removeSocket", "removeSocketAgain"}
  /\ sock' = None
  /\ Goto(d, IF pc[d] = "removeSocket" THEN "removePid" ELSE "removePidAgain")
  /\ UNCHANGED <<term, fd, pidFile, text, locked, supVars, faults>>

RemovePid(d) ==
  /\ pc[d] \in {"removePid", "removePidAgain"}
  /\ pidFile' = None
  /\ Goto(d, IF pc[d] = "removePid" THEN "removeSocketAgain" ELSE "dead")
  /\ UNCHANGED <<term, fd, text, locked, sock, supVars, faults>>

\* A crash, or a SIGKILL: names stay, the lock does not.
Die(d) ==
  /\ Running(d)
  /\ Goto(d, "dead")
  /\ locked' = Unlocked(d)

Crash(d) ==
  /\ Fault /\ Die(d)
  /\ UNCHANGED <<term, fd, pidFile, text, sock, supVars>>
-----------------------------------------------------------------------------
(* A command-line process.  "restart" is restartOnce, "stop" is Stop.       *)

SupGoto(s, label) == sup' = [sup EXCEPT ![s] = label]

\* ReadPID: 0 when there is no file, an error when it is empty.
ReadPID == IF pidFile = None THEN None ELSE text[pidFile]

PidIsLive == ReadPID \in {d \in Daemons : IsProcessAlive(d)}

ReadLive(s) == PidIsLive /\ seen' = [seen EXCEPT ![s] = ReadPID]

CheckPid(s) ==
  /\ \/ sup[s] = "restart" /\ ReadLive(s) /\ SupGoto(s, "ping")
     \/ sup[s] = "restart" /\ ~PidIsLive /\ SupGoto(s, "cleanPid") /\ UNCHANGED seen
     \/ sup[s] = "stop" /\ ReadLive(s) /\ SupGoto(s, "stopKill")
     \/ sup[s] = "stop" /\ ~PidIsLive /\ UNCHANGED seen
        /\ SupGoto(s, IF ReadPID = None THEN "returned" ELSE "stopPid")
  /\ UNCHANGED <<daemonVars, fileVars, child, faults>>

\* The probe dials the socket.  Between listen and accept it waits.
Ping(s) ==
  /\ sup[s] = "ping"
  /\ \/ /\ sock \in {d \in Daemons : pc[d] = "serve"}
        /\ \/ SupGoto(s, "returned") /\ UNCHANGED faults
           \/ Fault /\ SupGoto(s, "kill")
     \/ /\ sock \notin {d \in Daemons : pc[d] \in {"writePid", "serve"}}
        /\ SupGoto(s, "kill") /\ UNCHANGED faults
  /\ UNCHANGED <<daemonVars, fileVars, seen, child>>

Killing == {"kill", "stopKill", "stopKillAgain"}

\* killDaemon: SIGTERM, up to 3s, SIGKILL.
Terminate(s) ==
  /\ sup[s] \in Killing
  /\ seen[s] \notin term
  /\ term' = term \union {seen[s]}
  /\ UNCHANGED <<pc, fd, fileVars, supVars, faults>>

AfterKill(s) ==
  CASE sup[s] = "kill"          -> "forcePid"
    [] sup[s] = "stopKill"      -> "stopWait"
    [] sup[s] = "stopKillAgain" -> "stopPid"

KillDaemon(s) ==
  /\ sup[s] \in Killing
  /\ seen[s] \in term
  /\ \/ Die(seen[s])
     \/ ~Running(seen[s]) /\ UNCHANGED <<pc, locked>>
  /\ SupGoto(s, AfterKill(s))
  /\ UNCHANGED <<term, fd, pidFile, text, sock, seen, child, faults>>

\* Stop polls for 5s.
StopWait(s) ==
  /\ sup[s] = "stopWait"
  /\ SupGoto(s, IF IsProcessAlive(seen[s]) THEN "stopKillAgain" ELSE "returned")
  /\ UNCHANGED <<daemonVars, fileVars, seen, child, faults>>

\* RemovePID and os.Remove(socket) of forceStop, restartOnce and Stop.
UnlinkPid(s) ==
  /\ sup[s] \in {"forcePid", "cleanPid", "stopPid"}
  /\ pidFile' = None
  /\ SupGoto(s, CASE sup[s] = "forcePid" -> "forceSocket"
                  [] sup[s] = "cleanPid" -> "cleanSocket"
                  [] sup[s] = "stopPid"  -> "stopSocket")
  /\ UNCHANGED <<daemonVars, text, locked, sock, seen, child, faults>>

UnlinkSocket(s) ==
  /\ sup[s] \in {"forceSocket", "cleanSocket", "stopSocket"}
  /\ sock' = None
  /\ SupGoto(s, CASE sup[s] = "forceSocket" -> "cleanPid"
                  [] sup[s] = "cleanSocket" -> "spawn"
                  [] sup[s] = "stopSocket"  -> "returned")
  /\ UNCHANGED <<daemonVars, pidFile, text, locked, seen, child, faults>>

SpawnWorker(s) ==
  /\ sup[s] = "spawn"
  /\ \/ /\ \E d \in Daemons :
             /\ pc[d] = "idle"
             /\ Goto(d, "open")
             /\ child' = [child EXCEPT ![s] = d]
        /\ SupGoto(s, "wait") /\ UNCHANGED faults
     \/ Fault /\ SupGoto(s, "returned") /\ UNCHANGED <<pc, child>>
  /\ UNCHANGED <<term, fd, fileVars, seen>>

\* Mutant: only the socket ends the wait.
WaitForSocket_Forever(s) ==
  /\ sup[s] = "wait"
  /\ sock # None
  /\ SupGoto(s, "returned")
  /\ UNCHANGED <<daemonVars, fileVars, seen, child, faults>>

\* waitForSocket: the socket appears, or the time is up.  A child that has
\* not come as far as its socket is given the time it needs.
WaitForSocket(s) ==
  /\ sup[s] = "wait"
  /\ sock # None \/ pc[child[s]] \notin {"open", "lock", "unlink", "listen"}
  /\ SupGoto(s, "returned")
  /\ UNCHANGED <<daemonVars, fileVars, seen, child, faults>>

\* A one-shot command exits when it is done; an MCP server goes on.
Exit(s) ==
  /\ sup[s] = "returned"
  /\ SupGoto(s, "exited")
  /\ UNCHANGED <<daemonVars, fileVars, seen, child, faults>>
-----------------------------------------------------------------------------
DaemonStep(d) ==
  OpenPidFile(d) \/ AcquireLock(d) \/ RemoveStaleSocket(d) \/ Listen(d)
    \/ WritePidLocked(d) \/ CloseListener(d) \/ ReleaseLock(d)
    \/ RemoveSocket(d) \/ RemovePid(d)

SupStep(s) ==
  CheckPid(s) \/ Ping(s) \/ Terminate(s) \/ KillDaemon(s) \/ StopWait(s)
    \/ UnlinkPid(s) \/ UnlinkSocket(s) \/ SpawnWorker(s) \/ WaitForSocket(s)

Next ==
  \/ \E d \in Daemons : DaemonStep(d) \/ Crash(d)
  \/ \E s \in Supervisors : SupStep(s) \/ Exit(s)

Spec == Init /\ [][Next]_vars

\* Processes are scheduled.  A crash is not owed to anyone, nor is the end of
\* a command's process.
Fairness ==
  /\ \A d \in Daemons : WF_vars(DaemonStep(d))
  /\ \A s \in Supervisors : WF_vars(SupStep(s))

FairSpec == Spec /\ Fairness
-----------------------------------------------------------------------------
TypeOK ==
  /\ pc \in [Daemons -> DaemonStates]
  /\ term \subseteq Daemons
  /\ fd \in [Daemons -> Files \union {None}]
  /\ pidFile \in Files \union {None}
  /\ text \in [Files -> Daemons \union {None}]
  /\ locked \in [Files -> Daemons \union {None}]
  /\ sock \in Daemons \union {None}
  /\ sup \in [Supervisors -> Killing \union
       {"restart", "ping", "forcePid", "forceSocket", "cleanPid",
        "cleanSocket", "spawn", "wait", "stop", "stopWait", "stopPid",
        "stopSocket", "returned", "exited"}]
  /\ seen \in [Supervisors -> Daemons \union {None}]
  /\ child \in [Supervisors -> Daemons \union {None}]
  /\ faults \in 0 .. MaxFaults

(***************************************************************************)
(* The lock keeps daemons apart: at most one is between taking the lock    *)
(* and giving it back (daemon.go:344-347).                                 *)
(***************************************************************************)
OneDaemon == \A c, d \in Holders : c = d

(***************************************************************************)
(* What is left of that when names are removed under their owners: daemons *)
(* that run side by side have locked different files, and no lock outlives *)
(* its owner, however it ended (daemon_unix.go:18-38).                     *)
(***************************************************************************)
LocksAreExclusive ==
  /\ \A c, d \in Holders : c # d => fd[c] # fd[d]
  /\ \A f \in Files : locked[f] # None => locked[f] \in Holders

(***************************************************************************)
(* What healthy, Stop and every client rely on: the names lead to the      *)
(* daemon that serves, its socket to its listener and its pid file to its  *)
(* pid (supervisor.go:199-242, client.go:103-108).                         *)
(***************************************************************************)
Findable(d) ==
  /\ pc[d] = "serve"
  /\ sock = d
  /\ pidFile # None /\ text[pidFile] = d

ServingIsFindable == \A d \in Daemons : pc[d] = "serve" => Findable(d)

\* Nobody has yet been told to stop, and no command has unlinked a name.
Undisturbed ==
  /\ term = {} /\ "signal" \notin Ops
  /\ \A s \in Supervisors : sup[s] \in {"restart", "ping", "kill", "stop", "stopKill"}

(***************************************************************************)
(* As long as daemons only start and crash, whatever commands are looking  *)
(* on, the lock gives what it is there for: one daemon at most is past it, *)
(* and the names lead to the one that serves (daemon.go:344-373).          *)
(***************************************************************************)
UndisturbedIsFindable == Undisturbed => OneDaemon /\ ServingIsFindable

(***************************************************************************)
(* Whatever a crash left behind, a pid file with a dead pid or none, a     *)
(* socket nobody listens at, does not keep a restart from bringing up a    *)
(* daemon that clients find (supervisor.go:254-297).                       *)
(***************************************************************************)
RestartHeals ==
  \A s \in Supervisors :
    (/\ sup[s] = "restart" /\ faults = MaxFaults
     /\ \A d \in Daemons : pc[d] \in {"idle", "dead"}
     /\ \E d \in Daemons : pc[d] = "idle")
      ~> \E d \in Daemons : Findable(d)

(***************************************************************************)
(* A command ends, whatever the daemon it deals with is doing and wherever *)
(* its child dies (supervisor.go:199-230, 254-297, 367-384).               *)
(***************************************************************************)
CommandsReturn ==
  \A s \in Supervisors :
    (sup[s] \in Ops /\ \E d \in Daemons : pc[d] = "idle")
      ~> sup[s] \in {"returned", "exited"}

(***************************************************************************)
(* supervisor.go:359-366: "on child death the deadline shrinks to          *)
(* deathGrace": the waiting supervisor notices that its child has died.    *)
(* The code does not keep this (README.md, "Divergences").                 *)
(***************************************************************************)
DeadChildNoticed ==
  \A s \in Supervisors :
    sup[s] = "wait" /\ ~Running(child[s]) => ~IsProcessAlive(child[s])
=============================================================================
