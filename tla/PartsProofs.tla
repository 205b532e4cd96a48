---------------------------- MODULE PartsProofs ----------------------------
(***************************************************************************)
(* Proofs about the parts that stand alone and share no state: Supervisor  *)
(* implements SingleFlight, for any number of callers and faults; a call   *)
(* of DaemonClient is sent once at the most, for any three limits;        *)
(* TextInput, for any number of incidents; and UiSocket, for any limits on *)
(* its steps.                                                              *)
(***************************************************************************)
EXTENDS Supervisor, DaemonClient, TextInput, UiSocket, TLAPS

(* EnsureRunning.                                                           *)

\* What the step-by-step argument needs to know of the types.
LocalsOK ==
  /\ pc \in [Callers -> Restarting \union {"check", "lock", "wait", "giveUp",
                                           "returned"}]
  /\ attempted \in [Callers -> BOOLEAN]
  /\ waitOn \in [Callers -> Int] /\ done \in Int

\* One caller at a time runs a restart; inFlight says so, and its attempt is
\* noted.
OneRestart ==
  /\ \A c \in Callers : pc[c] \in Restarting => inFlight /\ attempted[c]
  /\ \A c, d \in Callers : pc[c] \in Restarting /\ pc[d] \in Restarting => c = d

SupInv == LocalsOK /\ OneRestart

LEMMA SupInvInit == Init => SupInv
BY DEF Init, SupInv, LocalsOK, OneRestart, Restarting

\* A step that moves one caller, which neither enters a restart nor leaves one.
LEMMA MoveKeepsInv ==
  ASSUME SupInv, NEW c \in Callers,
         NEW to \in Restarting \union {"check", "lock", "wait", "giveUp", "returned"},
         Goto(c, to), UNCHANGED <<attempted, done>>, waitOn' \in [Callers -> Int],
         to \in Restarting => pc[c] \in Restarting,
         UNCHANGED inFlight
  PROVE  SupInv'
<1>1. pc' = [pc EXCEPT ![c] = to]
  BY DEF Goto
<1>2. LocalsOK'
  BY <1>1 DEF SupInv, LocalsOK
<1>3. \A d \in Callers : pc'[d] \in Restarting => pc[d] \in Restarting
  BY <1>1 DEF SupInv, LocalsOK
<1>4. OneRestart'
  BY <1>3 DEF SupInv, OneRestart
<1>5. QED
  BY <1>2, <1>4 DEF SupInv

LEMMA WinKeepsInv ==
  ASSUME SupInv, NEW c \in Callers, Win(c)
  PROVE  SupInv'
<1>1. /\ ~inFlight /\ inFlight' = TRUE /\ done' = done + 1 /\ UNCHANGED waitOn
      /\ attempted' = [attempted EXCEPT ![c] = TRUE]
      /\ pc' = [pc EXCEPT ![c] = "restart"]
  BY DEF Win, Goto
<1>2. LocalsOK'
  BY <1>1 DEF SupInv, LocalsOK, Restarting
<1>3. \A d \in Callers : pc[d] \notin Restarting
  BY <1>1 DEF SupInv, OneRestart
<1>4. \A d \in Callers : pc'[d] \in Restarting => d = c
  BY <1>1, <1>3 DEF SupInv, LocalsOK
<1>5. attempted'[c]
  BY <1>1 DEF SupInv, LocalsOK
<1>6. OneRestart'
  BY <1>1, <1>4, <1>5 DEF OneRestart
<1>7. QED
  BY <1>2, <1>6 DEF SupInv

LEMMA PublishKeepsInv ==
  ASSUME SupInv, NEW c \in Callers, Publish(c)
  PROVE  SupInv'
<1>1. PICK to \in {"check", "returned"} : pc' = [pc EXCEPT ![c] = to]
  BY DEF Publish, Return, Goto
<1>2. pc[c] \in Restarting /\ UNCHANGED <<attempted, waitOn, done>>
  BY DEF Publish, Restarting
<1>3. LocalsOK'
  BY <1>1, <1>2 DEF SupInv, LocalsOK
<1>4. \A d \in Callers : pc'[d] \notin Restarting
  BY <1>1, <1>2 DEF SupInv, LocalsOK, OneRestart, Restarting
<1>5. QED
  BY <1>3, <1>4 DEF SupInv, OneRestart

LEMMA SupInvStep == SupInv /\ [Next]_vars => SupInv'
<1> SUFFICES ASSUME SupInv, [Next]_vars PROVE SupInv'
  OBVIOUS
<1>1. ASSUME NEW c \in Callers, Step(c) PROVE SupInv'
  <2>1. CASE CheckHealth(c)
    BY <2>1, MoveKeepsInv
       DEF CheckHealth, Return, sharedVars, Restarting, SupInv, LocalsOK
  <2>2. CASE Enter(c)
    <3>1. CASE JoinWaiters(c)
      <4>1. waitOn' \in [Callers -> Int]
        BY <3>1 DEF JoinWaiters, SupInv, LocalsOK
      <4>2. QED
        BY <2>2, <3>1, <4>1, MoveKeepsInv DEF Enter, JoinWaiters, sharedVars, Restarting
    <3>2. CASE GiveUp(c)
      BY <2>2, <3>2, MoveKeepsInv
         DEF Enter, GiveUp, sharedVars, Restarting, SupInv, LocalsOK
    <3>3. QED
      BY <2>2, <3>1, <3>2, WinKeepsInv DEF Enter
  <2>3. CASE Wake(c)
    BY <2>3, MoveKeepsInv DEF Wake, sharedVars, Restarting, SupInv, LocalsOK
  <2>4. CASE ReturnLastErr(c)
    BY <2>4, MoveKeepsInv
       DEF ReturnLastErr, Return, sharedVars, Restarting, SupInv, LocalsOK
  <2>5. CASE CheckAndClean(c) \/ SpawnWorker(c) \/ WaitForSocket(c)
    <3>1. PICK to \in Restarting : Goto(c, to)
      BY <2>5 DEF CheckAndClean, SpawnWorker, WaitForSocket, Restarting
    <3>2. pc[c] \in Restarting /\ UNCHANGED <<attempted, waitOn, done, inFlight>>
      BY <2>5 DEF CheckAndClean, SpawnWorker, WaitForSocket, RestartFrame, sharedVars,
                  Restarting
    <3>3. inFlight
      BY <3>2 DEF SupInv, OneRestart
    <3>4. QED
      BY <3>1, <3>2, <3>3, MoveKeepsInv DEF SupInv, LocalsOK
  <2>6. QED
    BY <1>1, <2>1, <2>2, <2>3, <2>4, <2>5, PublishKeepsInv DEF Step
<1>2. CASE UNCHANGED <<localVars, sharedVars>>
  BY <1>2 DEF localVars, sharedVars, SupInv, LocalsOK, OneRestart
<1>3. QED
  BY <1>1, <1>2
     DEF Next, Boot, Fail, Returned, vars, localVars, sharedVars
-----------------------------------------------------------------------------
(* The refinement.                                                          *)

LEMMA WinnerIs ==
  ASSUME SupInv, NEW c \in Callers, pc[c] \in Restarting
  PROVE  Winner = c
BY DEF Winner, SupInv, OneRestart

LEMMA NoWinner ==
  ASSUME \A c \in Callers : pc[c] \notin Restarting
  PROVE  Winner = None
BY DEF Winner

\* No caller's place in the refinement has changed.
LEMMA SameView ==
  ASSUME \A c \in Callers : pc'[c] \in Restarting <=> pc[c] \in Restarting
  PROVE  Winner' = Winner
BY DEF Winner

Tried == {c \in Callers : attempted[c]}
Over == {c \in Callers : pc[c] = "returned"}

\* A step of one caller outside a restart: its call is over, or nothing is seen.
LEMMA MoveIsAllowed ==
  ASSUME SupInv, NEW c \in Callers, NEW to, Goto(c, to), UNCHANGED attempted,
         pc[c] \notin Restarting \union {"returned"}, to \notin Restarting
  PROVE  Abstract!Return(c) \/ UNCHANGED <<Winner, Tried, Over>>
<1>1. pc' = [pc EXCEPT ![c] = to]
  BY DEF Goto
<1>2. Winner' = Winner
  BY <1>1, SameView DEF SupInv, LocalsOK
<1>3. UNCHANGED Tried
  BY DEF Tried
<1>4. CASE to = "returned"
  <2>1. Over' = Over \union {c}
    BY <1>1, <1>4 DEF Over, SupInv, LocalsOK
  <2>2. c # Winner
    BY SupervisorAssumption DEF Winner
  <2>3. c \notin Over
    BY DEF Over
  <2>4. QED
    BY <1>2, <1>3, <2>1, <2>2, <2>3 DEF Abstract!Return, Tried, Over
<1>5. CASE to # "returned"
  <2>1. UNCHANGED Over
    BY <1>1, <1>5 DEF Over, SupInv, LocalsOK
  <2>2. QED
    BY <1>2, <1>3, <2>1
<1>6. QED
  BY <1>4, <1>5

LEMMA WinIsBegin ==
  ASSUME SupInv, SupInv', NEW c \in Callers, pc[c] = "lock", Win(c)
  PROVE  Abstract!Begin(c)
<1>1. /\ ~inFlight /\ ~attempted[c]
      /\ attempted' = [attempted EXCEPT ![c] = TRUE]
      /\ pc' = [pc EXCEPT ![c] = "restart"]
  BY DEF Win, Goto
<1>2. Winner = None
  BY <1>1, NoWinner DEF SupInv, OneRestart
<1>3. Winner' = c
  <2>1. pc'[c] \in Restarting
    BY <1>1 DEF SupInv, LocalsOK, Restarting
  <2>2. \A d \in Callers : pc'[d] \in Restarting => d = c
    BY <2>1 DEF SupInv, OneRestart
  <2>3. QED
    BY <2>1, <2>2 DEF Winner
<1>4. c \notin Tried \union Over /\ Tried' = Tried \union {c} /\ UNCHANGED Over
  BY <1>1 DEF Tried, Over, SupInv, LocalsOK
<1>5. QED
  BY <1>2, <1>3, <1>4 DEF Abstract!Begin, Tried, Over

LEMMA PublishIsEnd ==
  ASSUME SupInv, NEW c \in Callers, Publish(c)
  PROVE  Abstract!End
<1>1. PICK to \in {"check", "returned"} : pc' = [pc EXCEPT ![c] = to]
  BY DEF Publish, Return, Goto
<1>2. pc[c] = "publish" /\ UNCHANGED attempted
  BY DEF Publish
<1>3. Winner = c
  BY <1>2, WinnerIs DEF Restarting
<1>4. Winner' = None
  <2>1. \A d \in Callers : pc'[d] \notin Restarting
    BY <1>1, <1>2 DEF SupInv, LocalsOK, OneRestart, Restarting
  <2>2. QED
    BY <2>1 DEF Winner
<1>5. Over' \in {Over, Over \union {c}} /\ UNCHANGED Tried
  <2>1. CASE to = "check"
    BY <1>1, <1>2, <2>1 DEF Tried, Over, SupInv, LocalsOK
  <2>2. CASE to = "returned"
    BY <1>1, <1>2, <2>2 DEF Tried, Over, SupInv, LocalsOK
  <2>3. QED
    BY <1>1, <2>1, <2>2
<1>6. QED
  BY <1>3, <1>4, <1>5, SupervisorAssumption DEF Abstract!End, Tried, Over

LEMMA AbstractInit == Init => Abstract!Init
<1> SUFFICES ASSUME Init PROVE Abstract!Init
  OBVIOUS
<1>1. Winner = None
  BY NoWinner DEF Init, Restarting
<1>2. Tried = {} /\ Over = {}
  BY DEF Init, Tried, Over
<1>3. QED
  BY <1>1, <1>2 DEF Abstract!Init, Tried, Over

LEMMA AbstractStep ==
  SupInv /\ SupInv' /\ [Next]_vars => [Abstract!Next]_(Abstract!vars)
<1> SUFFICES ASSUME SupInv, SupInv', [Next]_vars
             PROVE  Abstract!Next \/ UNCHANGED <<Winner, Tried, Over>>
  BY DEF Abstract!vars, Tried, Over
<1>1. ASSUME NEW c \in Callers, Step(c)
      PROVE  Abstract!Next \/ UNCHANGED <<Winner, Tried, Over>>
  <2>1. ASSUME NEW to, Goto(c, to), UNCHANGED attempted,
               pc[c] \notin Restarting \union {"returned"}, to \notin Restarting
        PROVE  Abstract!Next \/ UNCHANGED <<Winner, Tried, Over>>
    BY <2>1, MoveIsAllowed DEF Abstract!Next
  <2>2. CASE CheckHealth(c) \/ Wake(c) \/ ReturnLastErr(c)
    <3>1. PICK to \in {"returned", "lock", "check"} : Goto(c, to)
      BY <2>2 DEF CheckHealth, Wake, ReturnLastErr, Return
    <3>2. pc[c] \in {"check", "wait", "giveUp"} /\ UNCHANGED attempted
      BY <2>2 DEF CheckHealth, Wake, ReturnLastErr
    <3>3. QED
      BY <2>1, <3>1, <3>2 DEF Restarting
  <2>3. CASE Enter(c)
    <3>1. pc[c] = "lock"
      BY <2>3 DEF Enter
    <3>2. CASE JoinWaiters(c) \/ GiveUp(c)
      <4>1. PICK to \in {"wait", "giveUp"} : Goto(c, to)
        BY <3>2 DEF JoinWaiters, GiveUp
      <4>2. UNCHANGED attempted
        BY <3>2 DEF JoinWaiters, GiveUp
      <4>3. QED
        BY <2>1, <3>1, <4>1, <4>2 DEF Restarting
    <3>3. CASE Win(c)
      BY <3>1, <3>3, WinIsBegin DEF Abstract!Next
    <3>4. QED
      BY <2>3, <3>2, <3>3 DEF Enter
  <2>4. CASE CheckAndClean(c) \/ SpawnWorker(c) \/ WaitForSocket(c)
    <3>1. PICK to \in Restarting : pc' = [pc EXCEPT ![c] = to]
      BY <2>4 DEF CheckAndClean, SpawnWorker, WaitForSocket, Restarting, Goto
    <3>2. pc[c] \in Restarting /\ UNCHANGED attempted
      BY <2>4 DEF CheckAndClean, SpawnWorker, WaitForSocket, RestartFrame, Restarting
    <3>3. \A d \in Callers : pc'[d] \in Restarting <=> pc[d] \in Restarting
      BY <3>1, <3>2 DEF SupInv, LocalsOK
    <3>4. UNCHANGED <<Tried, Over>>
      BY <3>1, <3>2 DEF Tried, Over, SupInv, LocalsOK, Restarting
    <3>5. QED
      BY <3>3, <3>4, SameView
  <2>5. CASE Publish(c)
    BY <2>5, PublishIsEnd DEF Abstract!Next
  <2>6. QED
    BY <1>1, <2>2, <2>3, <2>4, <2>5 DEF Step
<1>2. CASE UNCHANGED <<localVars, sharedVars>>
  BY <1>2, SameView DEF localVars, Tried, Over
<1>3. QED
  BY <1>1, <1>2 DEF Next, Boot, Fail, Returned, vars, localVars, sharedVars

\* EnsureRunning keeps its promise (supervisor.go): restarts never overlap, a
\* call begins one at the most, and a call that is over stays over.
THEOREM RestartsAreShared == Spec => ImplementsSingleFlight
<1>1. Spec => []SupInv
  BY SupInvInit, SupInvStep, PTL DEF Spec
<1>2. QED
  BY <1>1, AbstractInit, AbstractStep, PTL
     DEF Spec, ImplementsSingleFlight, Abstract!Spec
-----------------------------------------------------------------------------
\* Nobody waits for a channel that is not closed and will not be: each
\* restart has a channel of its own (supervisor.go, EnsureRunning).
THEOREM WaitersAreWoken == Spec => []NoLostWakeup
<1>1. Init => SupInv /\ NoLostWakeup
  BY SupInvInit DEF Init, NoLostWakeup
<1>2. SupInv /\ NoLostWakeup /\ [Next]_vars => (SupInv /\ NoLostWakeup)'
  <2> SUFFICES ASSUME SupInv, NoLostWakeup, [Next]_vars PROVE NoLostWakeup'
    BY SupInvStep
  <2>1. ASSUME NEW c \in Callers, Step(c) PROVE NoLostWakeup'
    <3>1. CASE Enter(c)
      <4>1. pc[c] = "lock"
        BY <3>1 DEF Enter
      <4>2. CASE JoinWaiters(c)
        BY <4>1, <4>2 DEF JoinWaiters, Goto, sharedVars, NoLostWakeup, SupInv, LocalsOK
      <4>3. CASE GiveUp(c)
        BY <4>1, <4>3 DEF GiveUp, Goto, sharedVars, NoLostWakeup, SupInv, LocalsOK
      <4>4. CASE Win(c)
        BY <4>1, <4>4 DEF Win, Goto, NoLostWakeup, SupInv, LocalsOK
      <4>5. QED
        BY <3>1, <4>2, <4>3, <4>4 DEF Enter
    <3>2. CASE Publish(c)
      <4>1. PICK to \in {"check", "returned"} : pc' = [pc EXCEPT ![c] = to]
        BY <3>2 DEF Publish, Return, Goto
      <4>2. closed' = closed \union {done} /\ UNCHANGED waitOn
        BY <3>2 DEF Publish
      <4>3. QED
        BY <4>1, <4>2 DEF NoLostWakeup, SupInv, LocalsOK
    <3>3. CASE CheckHealth(c) \/ Wake(c) \/ ReturnLastErr(c) \/ CheckAndClean(c)
                 \/ SpawnWorker(c) \/ WaitForSocket(c)
      <4>1. PICK to \in Restarting \union {"check", "lock", "returned"} :
              pc' = [pc EXCEPT ![c] = to]
        BY <3>3 DEF CheckHealth, Wake, ReturnLastErr, CheckAndClean, SpawnWorker,
                    WaitForSocket, Return, Goto, Restarting
      <4>2. UNCHANGED <<waitOn, closed, inFlight, done>>
        BY <3>3 DEF CheckHealth, Wake, ReturnLastErr, CheckAndClean, SpawnWorker,
                    WaitForSocket, RestartFrame, sharedVars
      <4>3. QED
        BY <4>1, <4>2 DEF NoLostWakeup, SupInv, LocalsOK, Restarting
    <3>4. QED
      BY <2>1, <3>1, <3>2, <3>3 DEF Step
  <2>2. CASE UNCHANGED <<localVars, sharedVars>>
    BY <2>2 DEF localVars, sharedVars, NoLostWakeup
  <2>3. QED
    BY <2>1, <2>2 DEF Next, Boot, Fail, Returned, vars, localVars, sharedVars
<1>3. QED
  BY <1>1, <1>2, PTL DEF Spec
-----------------------------------------------------------------------------
(* Call.                                                                    *)

(***************************************************************************)
(* Where a request is: until it is written nobody has it; until it is      *)
(* handed over the handler has it; then the actor has it, and dispatches it *)
(* once, or once more.  A call that ends without a daemon has never got     *)
(* past the first.                                                          *)
(***************************************************************************)
Untouched == handler = "none" /\ actor = "none" /\ sent = 0 /\ performed = 0

RequestInv ==
  /\ sent \in 0 .. 1 /\ performed \in 0 .. 2
  /\ performed = 2 => replayed
  /\ stage \in {"dial", "ensure", "write"} => Untouched
  /\ outcome = "unreachable" => Untouched
  /\ handler \in {"bind", "send"} => actor = "none" /\ performed = 0
  /\ actor \in {"none", "taken", "replay"} => ~replayed
  /\ actor = "taken" => performed = 0
  /\ stage \in {"dial", "ensure", "write", "wait"} => outcome = "none"

LEMMA RequestInit == ClientInit => RequestInv
BY DEF ClientInit, RequestInv, Untouched

LEMMA RequestStep == RequestInv /\ [ClientNext]_clientVars => RequestInv'
<1> SUFFICES ASSUME RequestInv, [ClientNext]_clientVars
             PROVE  RequestInv'
  OBVIOUS
<1> USE DEF RequestInv, Untouched
<1>1. CASE Call
  BY <1>1 DEF Call
<1>2. CASE Dial
  BY <1>2 DEF Dial, Ends, serving, effects
<1>3. CASE Ensured
  BY <1>3 DEF Ensured, Ends, serving, effects
<1>4. CASE WriteRequest
  BY <1>4 DEF WriteRequest, effects
<1>5. CASE ConnectionLost \/ ReadDeadline
  BY <1>5 DEF ConnectionLost, ReadDeadline, Ends, serving, effects
<1>6. CASE ReadResponse
  BY <1>6 DEF ReadResponse, Ends, effects
<1>7. CASE Bind
  BY <1>7 DEF Bind, HandlerFrame, effects
<1>8. CASE HandOver
  BY <1>8 DEF HandOver, HandlerFrame, effects
<1>9. CASE Perform
  BY <1>9 DEF Perform, Dispatched, ActorFrame
<1>10. CASE Answer \/ AnswerLost
  <2>1. UNCHANGED <<stage, outcome, actor, sent, performed, replayed>>
    BY <1>10 DEF Answer, AnswerLost, HandlerFrame, effects
  <2>2. handler \in {"reply", "answered"} /\ handler' \in {"answered", "none"}
    BY <1>10 DEF Answer, AnswerLost
  <2>3. QED
    BY <2>1, <2>2
<1>11. CASE DaemonDies
  BY <1>11 DEF DaemonDies, effects
<1>12. CASE DaemonStarts
  BY <1>12 DEF DaemonStarts, serving, effects
<1>13. CASE Replay
  BY <1>13 DEF Replay, Dispatched, ActorFrame, effects
<1>14. CASE UNCHANGED clientVars
  BY <1>14 DEF clientVars, serving, effects
<1>15. QED
  BY <1>1, <1>2, <1>3, <1>4, <1>5, <1>6, <1>7, <1>8, <1>9, <1>10, <1>11, <1>12,
     <1>13, <1>14 DEF ClientNext

(***************************************************************************)
(* However daemons die and are restarted around a call, its request is sent *)
(* once at the most, nothing but the actor's replay performs it a second    *)
(* time, and a call that says that there is no daemon has reached nothing,   *)
(* whatever the limits (client.go:85-106, actor.go:205-219).                 *)
(***************************************************************************)
THEOREM CallsSendAtMostOnce == ClientSpec => []RequestSentOnce
<1>1. RequestInv => RequestSentOnce
  BY DEF RequestInv, Untouched, RequestSentOnce
<1>2. QED
  BY <1>1, RequestInit, RequestStep, PTL DEF ClientSpec
-----------------------------------------------------------------------------
(* Text input.                                                               *)

Ime == ime \in {"user", "pfime"}

\* The user's keyboard is known or selected; by itself inductive but for the
\* names of the two keyboards.
KeyboardInv == Ime /\ KeyboardGivenBack

LEMMA KeyboardInit == TextInit => KeyboardInv
BY DEF TextInit, KeyboardInv, Ime, KeyboardGivenBack

LEMMA KeyboardStep == KeyboardInv /\ [TextNext]_textVars => KeyboardInv'
<1> SUFFICES ASSUME KeyboardInv, [TextNext]_textVars
             PROVE  KeyboardInv'
  OBVIOUS
<1> USE DEF KeyboardInv, Ime, KeyboardGivenBack
<1>1. CASE ConnectTextInput
  BY <1>1 DEF ConnectTextInput, EnsurePFIME
<1>2. CASE CloseTextInput
  BY <1>2 DEF CloseTextInput, RestoreIME
<1>3. CASE Killed
  BY <1>3 DEF Killed, deviceVars
<1>4. CASE SetPFIME
  BY <1>4 DEF SetPFIME, Selected
<1>5. CASE ProbePidof \/ SeeProcess \/ WaitFails \/ TypeAgain \/ TypeTextB64
  BY <1>5 DEF ProbePidof, SeeProcess, WaitFails, TypeAgain, TypeTextB64, deviceVars
<1>6. CASE ProcessStarts \/ ProcessDies \/ UserSwitches
  BY <1>6 DEF ProcessStarts, ProcessDies, UserSwitches
<1>7. CASE UNCHANGED textVars
  BY <1>7 DEF textVars, deviceVars
<1>8. QED
  BY <1>1, <1>2, <1>3, <1>4, <1>5, <1>6, <1>7 DEF TextNext

(***************************************************************************)
(* Whatever commands fail, whenever the program is killed and the user     *)
(* switches keyboards, a session that knows the user's keyboard and closes *)
(* gives it back (session.go:128-134, 447-451).                            *)
(***************************************************************************)
THEOREM KeyboardIsGivenBack == TextSpec => []KeyboardGivenBack
<1>1. KeyboardInv => KeyboardGivenBack
  BY DEF KeyboardInv
<1>2. QED
  BY <1>1, KeyboardInit, KeyboardStep, PTL DEF TextSpec
-----------------------------------------------------------------------------
\* Whoever may broadcast has seen PFIME's process since the keyboard was
\* selected, or has a device that cannot say.
Ready == process # "no" \/ pidof = "missing"

(***************************************************************************)
(* The gate is active while a text waits or is sent, and once it is, it    *)
(* vouches for the process until the session ends.  A broadcast into the   *)
(* window can only have happened under such a gate, so that SetPFIME, which *)
(* forgets what the probe said, does not run after it.                     *)
(***************************************************************************)
GateInv ==
  /\ active \in BOOLEAN
  /\ typing \in {"wait", "send"} => active
  /\ typing = "send" => Ready
  /\ typing = "idle" /\ active => Ready
  /\ broadcast = "no" => /\ pidof = "missing"
                         /\ typing # "wait"
                         /\ typing = "none" \/ active

LEMMA GateInit == TextInit => GateInv
BY DEF TextInit, GateInv, Ready

LEMMA GateStep == GateInv /\ [TextNext]_textVars => GateInv'
<1> SUFFICES ASSUME GateInv, [TextNext]_textVars
             PROVE  GateInv'
  OBVIOUS
<1> USE DEF GateInv, Ready
<1>1. CASE ConnectTextInput
  BY <1>1 DEF ConnectTextInput
<1>2. CASE CloseTextInput
  BY <1>2 DEF CloseTextInput
<1>3. CASE Killed
  BY <1>3 DEF Killed, deviceVars
<1>4. CASE SetPFIME
  <2>1. typing = "idle" /\ ~active /\ UNCHANGED broadcast
    BY <1>4 DEF SetPFIME
  <2>2. \/ active' = TRUE /\ typing' = "wait"
        \/ typing' = "idle" /\ active' = FALSE
    BY <1>4 DEF SetPFIME
  <2>3. broadcast # "no"
    BY <2>1
  <2>4. QED
    BY <2>1, <2>2, <2>3
<1>5. CASE ProbePidof
  BY <1>5 DEF ProbePidof, deviceVars
<1>6. CASE SeeProcess
  BY <1>6 DEF SeeProcess, deviceVars
<1>7. CASE WaitFails
  BY <1>7 DEF WaitFails, deviceVars
<1>8. CASE TypeAgain \/ TypeTextB64
  BY <1>8 DEF TypeAgain, TypeTextB64, deviceVars
<1>9. CASE ProcessStarts \/ ProcessDies \/ UserSwitches
  BY <1>9 DEF ProcessStarts, ProcessDies, UserSwitches
<1>10. CASE UNCHANGED textVars
  BY <1>10 DEF textVars, deviceVars
<1>11. QED
  BY <1>1, <1>2, <1>3, <1>4, <1>5, <1>6, <1>7, <1>8, <1>9, <1>10 DEF TextNext

(***************************************************************************)
(* However often the wait for PFIME fails and the text is typed again, no  *)
(* text is broadcast before the keyboard's process runs, unless the device *)
(* could not be asked (control.go:286-296).                                *)
(***************************************************************************)
THEOREM NothingTypedIntoDropWindow == TextSpec => []NoBroadcastIntoDropWindow
<1>1. GateInv => NoBroadcastIntoDropWindow
  BY DEF GateInv, NoBroadcastIntoDropWindow
<1>2. QED
  BY <1>1, GateInit, GateStep, PTL DEF TextSpec
-----------------------------------------------------------------------------
(* The UI socket: its types, and the turns of its readers. *)

Places == {"idle", "conn", "write", "read", "adb", "done"}

UiTypes ==
  /\ uiConn \in Conns \union {Nil}
  /\ DOMAIN asked = Conns /\ DOMAIN answers = Conns
  /\ at \in [Readers -> Places] /\ reads \in [Readers -> {"summary", "full"}]
  /\ try \in [Readers -> {1, 2}] /\ uses \in [Readers -> Conns \union {Nil}]
  /\ DOMAIN got = Readers
  /\ spent \in Nat /\ left \subseteq {"summary", "full"}
  /\ \A r \in Readers : at[r] \notin {"conn", "write", "read"} => try[r] = 1

LEMMA UiTypesInit == UiInit => UiTypes
<1> SUFFICES ASSUME UiInit PROVE UiTypes
  OBVIOUS
<1>1. /\ uiConn = Nil /\ spent = 0 /\ left = {}
      /\ asked = [c \in Conns |-> <<>>] /\ answers = [c \in Conns |-> <<>>]
      /\ at = [r \in Readers |-> "idle"] /\ reads = [r \in Readers |-> "summary"]
      /\ try = [r \in Readers |-> 1] /\ uses = [r \in Readers |-> Nil]
      /\ got = [r \in Readers |-> ""]
  BY DEF UiInit
<1>2. QED
  BY <1>1 DEF UiTypes, Places

\* Where a reader is after an attempt that fails.
LEMMA FailsDoes ==
  ASSUME UiTypes, NEW r \in Readers, Fails(r)
  PROVE  /\ uses' = [uses EXCEPT ![r] = Nil]
         /\ UNCHANGED <<reads, got, observing, left>>
         /\ \/ try' = [try EXCEPT ![r] = try[r] + 1] /\ at' = [at EXCEPT ![r] = "conn"]
               /\ try[r] < 2
            \/ /\ try' = [try EXCEPT ![r] = 1]
               /\ \/ at' = [at EXCEPT ![r] = "adb"] /\ reads[r] = "summary"
                  \/ at' = [at EXCEPT ![r] = "done"] /\ reads[r] # "summary"
<1>1. try[r] \in {1, 2} /\ Tries(r) \in {1, 2}
  BY DEF UiTypes, Tries
<1>2. CASE try[r] < Tries(r)
  BY <1>1, <1>2 DEF Fails, Go
<1>3. CASE ~(try[r] < Tries(r)) /\ reads[r] = "summary"
  BY <1>3 DEF Fails, Go
<1>4. CASE ~(try[r] < Tries(r)) /\ reads[r] # "summary"
  BY <1>4 DEF Fails, Go
<1>5. QED
  BY <1>2, <1>3, <1>4

LEMMA TakesNat ==
  ASSUME spent \in Nat, NEW r \in Readers, NEW times \in SUBSET Nat, Takes(r, times)
  PROVE  spent' \in Nat
BY DEF Takes

LEMMA UiTypesStep == UiTypes /\ [UiNext]_uiVars => UiTypes'
<1> SUFFICES ASSUME UiTypes, [UiNext]_uiVars PROVE UiTypes'
  OBVIOUS
<1> USE DEF UiTypes, Places
<1>0. /\ {0, DialLimit} \in SUBSET Nat /\ {ReadLimit} \in SUBSET Nat
      /\ {0, ReadLimit} \in SUBSET Nat /\ {0, FallbackLimit} \in SUBSET Nat
  BY UiSocketAssumption
<1>1. ASSUME NEW r \in Readers, Fails(r), at[r] \in {"conn", "write", "read"}
      PROVE  /\ at' \in [Readers -> Places] /\ try' \in [Readers -> {1, 2}]
             /\ uses' \in [Readers -> Conns \union {Nil}]
             /\ \A q \in Readers : at'[q] \notin {"conn", "write", "read"} => try'[q] = 1
  BY <1>1, FailsDoes
<1>2. ASSUME NEW what \in {"summary", "full"}, GetUI(what) \/ ObserveUI(what)
      PROVE  UiTypes'
  <2>1. PICK r \in Readers : Begins(r, what)
    BY <1>2 DEF GetUI, ObserveUI, Readers
  <2>2. spent' \in Nat
    BY <1>2 DEF GetUI, ObserveUI
  <2>3. QED
    BY <2>1, <2>2 DEF Begins, Go, wire
<1>3. ASSUME NEW r \in Readers, getUIConn(r)
      PROVE  UiTypes'
  <2>1. CASE uiConn # Nil
    BY <1>3, <2>1 DEF getUIConn, Go, wire
  <2>2. CASE /\ uiConn = Nil /\ Takes(r, {0, DialLimit}) /\ Fails(r)
             /\ UNCHANGED <<uiConn, wire>>
    BY <1>0, <1>1, <1>3, <2>2, TakesNat, FailsDoes DEF getUIConn, wire
  <2>3. CASE /\ uiConn = Nil /\ Takes(r, {0, DialLimit})
             /\ \E c \in Conns \ {uses[q] : q \in Readers} :
                  /\ uiConn' = c /\ Go(r, "write") /\ uses' = [uses EXCEPT ![r] = c]
                  /\ asked' = [asked EXCEPT ![c] = <<>>]
                  /\ answers' = [answers EXCEPT ![c] = <<>>]
             /\ UNCHANGED <<reads, try, got, observing, left>>
    BY <1>0, <2>3, TakesNat DEF Go
  <2>4. QED
    BY <1>3, <2>1, <2>2, <2>3 DEF getUIConn
<1>4. ASSUME NEW r \in Readers, WriteUIRequest(r)
      PROVE  UiTypes'
  BY <1>4 DEF WriteUIRequest, Go
<1>5. ASSUME NEW r \in Readers, ConnectionFails(r) \/ ReadTimesOut(r)
      PROVE  UiTypes'
  BY <1>0, <1>1, <1>5, TakesNat, FailsDoes
     DEF ConnectionFails, ReadTimesOut, dropUIConn, GivenUp
<1>6. ASSUME NEW r \in Readers, ReadAnswer(r)
      PROVE  UiTypes'
  BY <1>6 DEF ReadAnswer, TakesAnswer, Go
<1>7. ASSUME NEW r \in Readers, ReadError(r) \/ ReadGarbled(r)
      PROVE  UiTypes'
  BY <1>0, <1>1, <1>7, TakesNat, FailsDoes
     DEF ReadError, ReadGarbled, Readable, TakesAnswer, dropUIConn
<1>8. ASSUME NEW r \in Readers, Fallback(r)
      PROVE  UiTypes'
  BY <1>0, <1>8, TakesNat DEF Fallback, Go, wire
<1>9. ASSUME NEW r \in Readers, Returns(r)
      PROVE  UiTypes'
  <2>1. /\ at[r] = "done" /\ at' = [at EXCEPT ![r] = "idle"]
        /\ reads' = [reads EXCEPT ![r] = "summary"] /\ got' = [got EXCEPT ![r] = ""]
        /\ UNCHANGED <<uiConn, asked, answers, try, uses, left>>
    BY <1>9 DEF Returns, Go, wire
  <2>2. spent' = 0 \/ spent' = spent
    BY <1>9, Zenon DEF Returns
  <2>3. \A q \in Readers : at'[q] \notin {"conn", "write", "read"} => try'[q] = 1
    BY <2>1
  <2>4. /\ at' \in [Readers -> Places] /\ reads' \in [Readers -> {"summary", "full"}]
        /\ DOMAIN got' = Readers
    BY <2>1
  <2>5. spent' \in Nat
    BY <2>2
  <2>6. QED
    BY <2>1, <2>3, <2>4, <2>5
<1>10. ASSUME NEW c \in Conns, AgentAnswers(c) \/ AgentCloses(c)
       PROVE  UiTypes'
  BY <1>10 DEF AgentAnswers, AgentCloses, reader
<1>11. CASE ObserveGivesUp
  BY <1>11 DEF ObserveGivesUp, wire, reader, Readers
<1>12. CASE UNCHANGED uiVars
  BY <1>12 DEF uiVars, wire, reader
<1>13. QED
  BY <1>2, <1>3, <1>4, <1>5, <1>6, <1>7, <1>8, <1>9, <1>10, <1>11, <1>12
     DEF UiNext, Read
-----------------------------------------------------------------------------
(* ObserveFull outlasts its fetcher. *)

Attempt == DialLimit + ReadLimit

(***************************************************************************)
(* How long the fetcher of an ObserveFull has taken, wherever it is: its   *)
(* attempts are two, each a dial and a read, and it has no fallback.       *)
(***************************************************************************)
TimeInv ==
  /\ "full" \notin left
  /\ observing /\ reads["fetcher"] = "full" =>
       /\ at["fetcher"] \in {"conn", "write", "read", "done"}
       /\ at["fetcher"] = "conn" =>
            spent <= (IF try["fetcher"] = 1 THEN 0 ELSE Attempt)
       /\ at["fetcher"] \in {"write", "read"} =>
            spent <= (IF try["fetcher"] = 1 THEN 0 ELSE Attempt) + DialLimit
       /\ at["fetcher"] = "done" => spent <= 2 * Attempt

LEMMA TimeInit == UiInit => TimeInv
BY DEF UiInit, TimeInv

LEMMA TimeStep ==
  ASSUME 2 * Attempt <= FullWindow, UiTypes, TimeInv, [UiNext]_uiVars
  PROVE  TimeInv'
<1> DEFINE f == "fetcher"
<1>0. /\ DialLimit \in Nat /\ ReadLimit \in Nat /\ FullWindow \in Nat
      /\ f \in Readers /\ spent \in Nat /\ try[f] \in {1, 2}
  BY UiSocketAssumption DEF UiTypes, Readers
<1>1. ASSUME UNCHANGED <<left, observing>>,
             observing /\ reads[f] = "full" =>
               at'[f] = at[f] /\ try'[f] = try[f] /\ spent' = spent,
             reads'[f] = reads[f]
      PROVE  TimeInv'
  BY <1>1 DEF TimeInv
<1>2. ASSUME NEW what \in {"summary", "full"}, GetUI(what) \/ ObserveUI(what)
      PROVE  TimeInv'
  <2>1. CASE GetUI(what)
    BY <1>1, <2>1 DEF GetUI, Begins, Go, UiTypes, Readers
  <2>2. CASE ObserveUI(what)
    BY <1>0, <2>2 DEF ObserveUI, Begins, Go, UiTypes, TimeInv
  <2>3. QED
    BY <1>2, <2>1, <2>2
<1>3. ASSUME Read("actor")
      PROVE  TimeInv'
  <2>1. /\ UNCHANGED <<left, observing>>
        /\ at'[f] = at[f] /\ try'[f] = try[f] /\ reads'[f] = reads[f]
        /\ observing => spent' = spent
    BY <1>3, FailsDoes
       DEF Read, getUIConn, WriteUIRequest, ConnectionFails, ReadTimesOut, ReadAnswer,
           ReadError, ReadGarbled, Fallback, Returns, Go, Takes, UiTypes, Readers
  <2>2. QED
    BY <1>1, <2>1
<1>4. ASSUME Read(f)
      PROVE  TimeInv'
  <2>0. "full" \notin left' /\ UNCHANGED left
    BY <1>4, <1>0, FailsDoes
       DEF Read, getUIConn, WriteUIRequest, ConnectionFails, ReadTimesOut, ReadAnswer,
           ReadError, ReadGarbled, Fallback, Returns, TimeInv
  <2>1. CASE ~(observing /\ reads[f] = "full")
    <3>1. ~(observing' /\ reads'[f] = "full")
      BY <1>0, <1>4, <2>1, FailsDoes
         DEF Read, getUIConn, WriteUIRequest, ConnectionFails, ReadTimesOut, ReadAnswer,
             ReadError, ReadGarbled, Fallback, Returns
    <3>2. QED
      BY <2>0, <3>1 DEF TimeInv
  <2>2. CASE observing /\ reads[f] = "full"
    <3>1. ASSUME NEW t \in {0, DialLimit, ReadLimit}, Fails(f), spent' = spent + t,
                 \/ at[f] = "conn" /\ t <= DialLimit
                 \/ at[f] \in {"write", "read"} /\ t <= ReadLimit
          PROVE  TimeInv'
      <4>1. /\ reads'[f] = "full" /\ at[f] \in {"conn", "write", "read"}
            /\ \/ at'[f] = "conn" /\ try'[f] = try[f] + 1 /\ try[f] < 2
               \/ at'[f] = "done"
        <5>1. /\ UNCHANGED reads
              /\ \/ try' = [try EXCEPT ![f] = try[f] + 1] /\ at' = [at EXCEPT ![f] = "conn"]
                    /\ try[f] < 2
                 \/ at' = [at EXCEPT ![f] = "adb"] /\ reads[f] = "summary"
                 \/ at' = [at EXCEPT ![f] = "done"]
          BY <1>0, <3>1, FailsDoes
        <5>2. QED
          BY <1>0, <2>2, <3>1, <5>1 DEF UiTypes
      <4>2. spent' <= (IF try[f] = 1 THEN 0 ELSE Attempt) + Attempt
        BY <1>0, <2>2, <3>1 DEF TimeInv, Attempt
      <4>3. QED
        <5>1. at'[f] = "conn" => try[f] = 1 /\ try'[f] = 2
          BY <1>0, <4>1
        <5>2. spent' <= 2 * Attempt /\ (try[f] = 1 => spent' <= Attempt)
          BY <1>0, <3>1, <4>2 DEF Attempt
        <5>3. QED
          BY <1>0, <2>0, <4>1, <5>1, <5>2 DEF TimeInv
    <3>2. CASE getUIConn(f)
      <4>1. CASE Fails(f)
        <5>1. at[f] = "conn" /\ at'[f] # "write"
          BY <1>0, <3>2, <4>1, FailsDoes DEF getUIConn, UiTypes
        <5>2. \E t \in {0, DialLimit} : spent' = spent + t
          BY <1>0, <2>2, <3>2, <5>1 DEF getUIConn, Takes, Go, UiTypes
        <5>3. QED
          BY <1>0, <3>1, <4>1, <5>1, <5>2
      <4>2. CASE /\ Go(f, "write") /\ UNCHANGED <<reads, try, observing>>
                 /\ UNCHANGED spent \/ Takes(f, {0, DialLimit})
        <5>1. at[f] = "conn" /\ at'[f] = "write" /\ spent' <= spent + DialLimit
          BY <1>0, <2>2, <3>2, <4>2 DEF getUIConn, Takes, Go, UiTypes
        <5>2. QED
          BY <1>0, <2>0, <2>2, <4>2, <5>1 DEF TimeInv, Attempt, Takes
      <4>3. QED
        BY <3>2, <4>1, <4>2 DEF getUIConn
    <3>3. CASE WriteUIRequest(f)
      BY <1>0, <2>0, <2>2, <3>3 DEF WriteUIRequest, Go, TimeInv, UiTypes
    <3>4. CASE ConnectionFails(f) \/ ReadGarbled(f)
      BY <1>0, <2>2, <3>1, <3>4 DEF ConnectionFails, ReadGarbled, Readable
    <3>5. CASE ReadTimesOut(f) \/ ReadError(f)
      BY <1>0, <2>2, <3>1, <3>5 DEF ReadTimesOut, ReadError, Readable, Takes
    <3>6. CASE ReadAnswer(f)
      BY <1>0, <2>0, <2>2, <3>6 DEF ReadAnswer, Readable, Go, TimeInv, UiTypes, Attempt
    <3>7. ~Fallback(f)
      BY <2>2 DEF Fallback, TimeInv
    <3>8. CASE Returns(f)
      BY <2>0, <3>8 DEF Returns, TimeInv
    <3>9. QED
      BY <1>4, <3>2, <3>3, <3>4, <3>5, <3>6, <3>7, <3>8 DEF Read
  <2>3. QED
    BY <2>1, <2>2
<1>5. ASSUME NEW c \in Conns, AgentAnswers(c) \/ AgentCloses(c)
      PROVE  TimeInv'
  BY <1>1, <1>5 DEF AgentAnswers, AgentCloses, reader
<1>6. CASE ObserveGivesUp
  <2>1. reads[f] # "full"
    BY <1>0, <1>6 DEF ObserveGivesUp, TimeInv, Limit, Attempt
  <2>2. QED
    BY <1>6, <2>1 DEF ObserveGivesUp, TimeInv
<1>7. CASE UNCHANGED uiVars
  BY <1>1, <1>7 DEF uiVars, reader
<1>8. QED
  BY <1>2, <1>3, <1>4, <1>5, <1>6, <1>7 DEF UiNext, Readers
-----------------------------------------------------------------------------
(* Every reader gets its own answer. *)

\* One reader at a time: an observe waits for its fetcher, and the actor that
\* waits reads nothing.
OneReader ==
  /\ at["fetcher"] # "idle" => observing
  /\ observing => at["actor"] = "idle"

\* A reader uses the connection that the session keeps, and gives it up with
\* its attempt.
UsesSession ==
  \A r \in Readers :
    IF at[r] \in {"write", "read"} THEN uses[r] = uiConn /\ uiConn # Nil
    ELSE uses[r] = Nil

\* All there is on the session's connection is r's request or its answer.
Pending(r) ==
  \/ asked[uiConn] = <<r>> /\ answers[uiConn] = <<>>
  \/ /\ asked[uiConn] = <<>>
     /\ \E ok \in BOOLEAN : answers[uiConn] = <<[of |-> r, ok |-> ok]>>

WireInStep ==
  uiConn # Nil =>
    /\ \A r \in Readers : at[r] = "read" => Pending(r)
    /\ (\A r \in Readers : at[r] # "read") =>
         asked[uiConn] = <<>> /\ answers[uiConn] = <<>>

OwnAnswers == \A r \in Readers : got[r] \in {"", r}

InStep == OneReader /\ UsesSession /\ WireInStep /\ OwnAnswers

(***************************************************************************)
(* The connection and its reader are in step, as long as no observe has    *)
(* given up on its fetcher: from then on there may be two readers, and an  *)
(* answer that nobody waits for.                                           *)
(***************************************************************************)
MatchInv == left = {} => InStep

LEMMA MatchInit == UiInit => MatchInv
BY DEF UiInit, MatchInv, InStep, OneReader, UsesSession, WireInStep, OwnAnswers, Readers, Nil

LEMMA OthersIdle ==
  ASSUME OneReader, NEW r \in Readers, at[r] # "idle", NEW q \in Readers, q # r
  PROVE  at[q] = "idle"
BY DEF OneReader, Readers

\* A reader that has its turn keeps it.
LEMMA TurnKept ==
  ASSUME OneReader, NEW r \in Readers, at[r] # "idle", UNCHANGED observing,
         \A q \in Readers : q # r => at'[q] = at[q]
  PROVE  OneReader'
BY DEF OneReader, Readers

\* A connection that is dropped takes its answers with it.
LEMMA DroppedInStep ==
  ASSUME UiTypes, InStep, NEW r \in Readers, at[r] \in {"write", "read"}, dropUIConn, Fails(r)
  PROVE  InStep'
<1>1. /\ uses' = [uses EXCEPT ![r] = Nil] /\ UNCHANGED <<got, observing>>
      /\ uiConn' = Nil /\ at'[r] \notin {"write", "read"}
      /\ \A q \in Readers : q # r => at'[q] = at[q]
  BY FailsDoes DEF UiTypes, dropUIConn
<1>2. \A q \in Readers : q # r => at[q] = "idle"
  BY OthersIdle DEF InStep
<1>3. OneReader'
  BY <1>1, TurnKept DEF InStep
<1>4. UsesSession'
  BY <1>1, <1>2 DEF InStep, UsesSession, UiTypes
<1>5. QED
  BY <1>1, <1>3, <1>4 DEF InStep, WireInStep, OwnAnswers

LEMMA MatchStep ==
  ASSUME UiTypes, MatchInv, [UiNext]_uiVars
  PROVE  MatchInv'
<1>1. CASE UNCHANGED uiVars
  BY <1>1 DEF uiVars, wire, reader, MatchInv, InStep, OneReader, UsesSession, WireInStep,
              Pending, OwnAnswers
<1>2. CASE ObserveGivesUp
  BY <1>2 DEF ObserveGivesUp, MatchInv
<1>3. CASE UiNext /\ ~ObserveGivesUp
  <2>1. UNCHANGED left
    BY <1>3, FailsDoes
       DEF UiNext, GetUI, ObserveUI, Begins, Read, getUIConn, WriteUIRequest,
           ConnectionFails, ReadTimesOut, ReadAnswer, ReadError, ReadGarbled, Fallback,
           Returns, AgentAnswers, AgentCloses
  <2> SUFFICES ASSUME InStep
               PROVE  InStep'
    BY <2>1 DEF MatchInv
  <2>2. ASSUME NEW what \in {"summary", "full"}, GetUI(what) \/ ObserveUI(what)
        PROVE  InStep'
    <3>1. PICK r \in Readers : Begins(r, what)
      BY <2>2 DEF GetUI, ObserveUI, Readers
    <3>2. /\ at[r] = "idle" /\ at' = [at EXCEPT ![r] = "conn"]
          /\ UNCHANGED <<uiConn, asked, answers, uses, got>>
      BY <3>1 DEF Begins, Go, wire
    <3>3. OneReader'
      <4>1. CASE GetUI(what)
        BY <4>1 DEF GetUI, Begins, Go, InStep, OneReader, UiTypes, Readers
      <4>2. CASE ObserveUI(what)
        BY <4>2 DEF ObserveUI, Begins, Go, InStep, OneReader, UiTypes, Readers
      <4>3. QED
        BY <2>2, <4>1, <4>2
    <3>4. UsesSession'
      BY <3>2 DEF InStep, UsesSession, UiTypes
    <3>5. WireInStep'
      BY <3>2 DEF InStep, WireInStep, Pending, UiTypes
    <3>6. QED
      BY <3>2, <3>3, <3>4, <3>5 DEF InStep, OwnAnswers
  <2>3. ASSUME NEW r \in Readers, Read(r)
        PROVE  InStep'
    <3>0. /\ at[r] # "idle"
          /\ \A q \in Readers : q # r => at[q] = "idle"
      <4>1. at[r] # "idle"
        BY <2>3 DEF Read, getUIConn, WriteUIRequest, ConnectionFails, ReadTimesOut,
                    ReadAnswer, ReadError, ReadGarbled, Readable, Fallback, Returns
      <4>2. QED
        BY <4>1, OthersIdle DEF InStep
    <3>1. CASE getUIConn(r)
      <4>0. at[r] = "conn" /\ UNCHANGED <<got, observing>>
        BY <3>1, FailsDoes DEF getUIConn
      <4>1. CASE uiConn # Nil
        <5>1. /\ at' = [at EXCEPT ![r] = "write"] /\ uses' = [uses EXCEPT ![r] = uiConn]
              /\ UNCHANGED <<uiConn, asked, answers>>
          BY <3>1, <4>1 DEF getUIConn, Go, wire
        <5>2. UsesSession' /\ WireInStep'
          BY <3>0, <4>0, <4>1, <5>1 DEF InStep, UsesSession, WireInStep, UiTypes
        <5>3. QED
          BY <3>0, <4>0, <5>1, <5>2, TurnKept DEF InStep, OwnAnswers, UiTypes
      <4>2. CASE uiConn = Nil /\ Fails(r) /\ UNCHANGED uiConn
        <5>1. /\ uses' = [uses EXCEPT ![r] = Nil] /\ at'[r] \notin {"write", "read"}
              /\ \A q \in Readers : q # r => at'[q] = at[q]
          BY <4>2, FailsDoes DEF UiTypes
        <5>2. UsesSession' /\ WireInStep'
          BY <3>0, <4>2, <5>1 DEF InStep, UsesSession, WireInStep, UiTypes
        <5>3. QED
          BY <3>0, <4>0, <5>1, <5>2, TurnKept DEF InStep, OwnAnswers
      <4>3. ASSUME NEW c \in Conns, uiConn' = c,
                   at' = [at EXCEPT ![r] = "write"], uses' = [uses EXCEPT ![r] = c],
                   asked' = [asked EXCEPT ![c] = <<>>],
                   answers' = [answers EXCEPT ![c] = <<>>]
            PROVE  InStep'
        <5>1. UsesSession' /\ WireInStep'
          BY <3>0, <4>3 DEF InStep, UsesSession, WireInStep, UiTypes, Conns, Nil
        <5>2. QED
          BY <3>0, <4>0, <4>3, <5>1, TurnKept DEF InStep, OwnAnswers, UiTypes
      <4>4. QED
        BY <3>1, <4>1, <4>2, <4>3 DEF getUIConn, Go
    <3>2. CASE WriteUIRequest(r)
      <4>1. /\ at[r] = "write" /\ at' = [at EXCEPT ![r] = "read"]
            /\ asked' = [asked EXCEPT ![uses[r]] = Append(@, r)]
            /\ UNCHANGED <<uiConn, answers, uses, got, observing>>
        BY <3>2 DEF WriteUIRequest, Go
      <4>2. uses[r] = uiConn /\ uiConn \in Conns
        BY <4>1 DEF InStep, UsesSession, UiTypes, Nil
      <4>3. asked[uiConn] = <<>> /\ answers[uiConn] = <<>>
        BY <3>0, <4>1, <4>2 DEF InStep, UsesSession, WireInStep
      <4>4. asked'[uiConn] = <<r>>
        BY <4>1, <4>2, <4>3 DEF UiTypes
      <4>5. UsesSession'
        BY <3>0, <4>1, <4>2 DEF InStep, UsesSession, UiTypes
      <4>6. WireInStep'
        BY <3>0, <4>1, <4>3, <4>4 DEF WireInStep, Pending, UiTypes
      <4>7. QED
        BY <3>0, <4>1, <4>5, <4>6, TurnKept DEF InStep, OwnAnswers, UiTypes
    <3>3. CASE ConnectionFails(r) \/ ReadTimesOut(r) \/ ReadGarbled(r)
      BY <3>3, DroppedInStep DEF ConnectionFails, ReadTimesOut, ReadGarbled, Readable
    <3>4. ASSUME Readable(r)
          PROVE  /\ uses[r] = uiConn /\ uiConn \in Conns /\ at[r] = "read"
                 /\ asked[uiConn] = <<>>
                 /\ \E ok \in BOOLEAN : answers[uiConn] = <<[of |-> r, ok |-> ok]>>
      <4>1. at[r] = "read" /\ uses[r] = uiConn /\ uiConn # Nil
        BY <3>4 DEF Readable, InStep, UsesSession
      <4>2. answers[uiConn] # <<>>
        BY <3>4, <4>1 DEF Readable
      <4>3. QED
        BY <4>1, <4>2 DEF InStep, WireInStep, Pending, UiTypes
    <3>5. ASSUME Readable(r), TakesAnswer(r)
          PROVE  answers'[uiConn] = <<>>
      <4>1. PICK x : answers[uiConn] = <<x>>
        BY <3>4, <3>5
      <4>2. uses[r] = uiConn /\ uiConn \in Conns
        BY <3>4, <3>5
      <4>3. answers'[uiConn] = Tail(<<x>>)
        BY <3>5, <4>1, <4>2 DEF TakesAnswer, UiTypes
      <4>4. QED
        BY <4>3
    <3>6. CASE ReadAnswer(r)
      <4>1. /\ Readable(r) /\ TakesAnswer(r) /\ at' = [at EXCEPT ![r] = "done"]
            /\ got' = [got EXCEPT ![r] = Head(answers[uses[r]]).of]
            /\ uses' = [uses EXCEPT ![r] = Nil]
            /\ UNCHANGED <<uiConn, asked, observing>>
        BY <3>6 DEF ReadAnswer, Go
      <4>2. Head(answers[uses[r]]).of = r
        <5>1. PICK ok \in BOOLEAN : answers[uses[r]] = <<[of |-> r, ok |-> ok]>>
          BY <3>4, <4>1
        <5>2. QED
          BY <5>1
      <4>3. OwnAnswers'
        BY <4>1, <4>2 DEF InStep, OwnAnswers, UiTypes
      <4>4. UsesSession'
        BY <3>0, <4>1 DEF InStep, UsesSession, UiTypes
      <4>5. WireInStep'
        BY <3>0, <3>4, <3>5, <4>1 DEF WireInStep, UiTypes
      <4>6. QED
        BY <3>0, <4>1, <4>3, <4>4, <4>5, TurnKept DEF InStep, UiTypes
    <3>7. CASE ReadError(r)
      <4>1. Readable(r) /\ TakesAnswer(r) /\ Fails(r) /\ UNCHANGED asked
        BY <3>7 DEF ReadError
      <4>2. CASE reads[r] = "summary"
        BY <3>4, <3>7, <4>1, <4>2, DroppedInStep DEF ReadError
      <4>3. CASE reads[r] # "summary"
        <5>1. /\ UNCHANGED <<uiConn, got, observing>>
              /\ uses' = [uses EXCEPT ![r] = Nil] /\ at'[r] \notin {"write", "read"}
              /\ \A q \in Readers : q # r => at'[q] = at[q]
          BY <3>7, <4>1, <4>3, FailsDoes DEF ReadError, UiTypes
        <5>2. UsesSession'
          BY <3>0, <5>1 DEF InStep, UsesSession, UiTypes
        <5>3. WireInStep'
          BY <3>0, <3>4, <3>5, <4>1, <5>1 DEF WireInStep
        <5>4. QED
          BY <3>0, <5>1, <5>2, <5>3, TurnKept DEF InStep, OwnAnswers
      <4>4. QED
        BY <4>2, <4>3
    <3>8. CASE Fallback(r)
      <4>1. /\ at[r] = "adb" /\ at' = [at EXCEPT ![r] = "done"]
            /\ UNCHANGED <<uiConn, asked, answers, uses, got, observing>>
        BY <3>8 DEF Fallback, Go, wire
      <4>2. UsesSession' /\ WireInStep'
        BY <3>0, <4>1 DEF InStep, UsesSession, WireInStep, UiTypes
      <4>3. QED
        BY <3>0, <4>1, <4>2, TurnKept DEF InStep, OwnAnswers, UiTypes
    <3>9. CASE Returns(r)
      <4>1. /\ at[r] = "done" /\ at' = [at EXCEPT ![r] = "idle"]
            /\ got' = [got EXCEPT ![r] = ""]
            /\ UNCHANGED <<uiConn, asked, answers, uses>>
        BY <3>9 DEF Returns, Go, wire
      <4>2. UsesSession' /\ WireInStep'
        BY <3>0, <4>1 DEF InStep, UsesSession, WireInStep, UiTypes
      <4>3. OneReader'
        BY <3>0, <3>9, <4>1 DEF Returns, InStep, OneReader, UiTypes, Readers
      <4>4. QED
        BY <4>1, <4>2, <4>3 DEF InStep, OwnAnswers, UiTypes
    <3>10. QED
      BY <2>3, <3>1, <3>2, <3>3, <3>6, <3>7, <3>8, <3>9 DEF Read
  <2>4. ASSUME NEW c \in Conns, AgentAnswers(c)
        PROVE  InStep'
    <3>1. /\ UNCHANGED <<uiConn, at, uses, got, observing>>
          /\ asked[c] # <<>> /\ asked' = [asked EXCEPT ![c] = Tail(@)]
      BY <2>4 DEF AgentAnswers, reader
    <3>2. PICK ok \in BOOLEAN :
            answers' = [answers EXCEPT ![c] = Append(@, [of |-> Head(asked[c]), ok |-> ok])]
      BY <2>4 DEF AgentAnswers
    <3>3. OneReader' /\ UsesSession' /\ OwnAnswers'
      BY <3>1 DEF InStep, OneReader, UsesSession, OwnAnswers
    <3>4. WireInStep'
      <4>1. CASE c # uiConn
        BY <3>1, <3>2, <4>1 DEF InStep, WireInStep, Pending, UiTypes
      <4>2. CASE c = uiConn
        <5>1. PICK r \in Readers : at[r] = "read" /\ asked[c] = <<r>> /\ answers[c] = <<>>
          BY <3>1, <4>2 DEF InStep, WireInStep, Pending, Conns, Nil
        <5>2. asked'[c] = <<>> /\ answers'[c] = <<[of |-> r, ok |-> ok]>>
          BY <3>1, <3>2, <5>1 DEF UiTypes
        <5>3. \A q \in Readers : at[q] = "read" => q = r
          BY <5>1, OthersIdle DEF InStep
        <5>4. QED
          BY <3>1, <4>2, <5>1, <5>2, <5>3 DEF WireInStep, Pending
      <4>3. QED
        BY <4>1, <4>2
    <3>5. QED
      BY <3>3, <3>4 DEF InStep
  <2>5. ASSUME NEW c \in Conns, AgentCloses(c)
        PROVE  InStep'
    BY <2>5 DEF AgentCloses, reader, InStep, OneReader, UsesSession, WireInStep, Pending,
                OwnAnswers
  <2>6. QED
    BY <1>3, <2>2, <2>3, <2>4, <2>5 DEF UiNext
<1>4. QED
  BY <1>1, <1>2, <1>3

(***************************************************************************)
(* Nothing but the order on the connection ties an answer to its request,  *)
(* and it is enough: whatever timed out, failed or was cut off before it,  *)
(* a reading returns what the device answered to this reading, until an    *)
(* observe gives up on its fetcher (ui.go:38-140).                         *)
(***************************************************************************)
THEOREM ReadersGetTheirAnswers ==
  UiSpec => [](left = {} => \A r \in Readers : got[r] \in {"", r})
<1>1. MatchInv => (left = {} => \A r \in Readers : got[r] \in {"", r})
  BY DEF MatchInv, InStep, OwnAnswers
<1>2. QED
  BY <1>1, UiTypesInit, UiTypesStep, MatchInit, MatchStep, PTL DEF UiSpec

(***************************************************************************)
(* When two attempts, each a dial and a read, fit in the time ObserveFull  *)
(* gives its fetcher (2 * (2s + 5s) in 35s: ui.go:31-37, observe_full.go:  *)
(* 64-67), it never gives up on it, and only the flat observe can.         *)
(***************************************************************************)
THEOREM ObserveFullKeepsAnswersMatched ==
  ASSUME 2 * (DialLimit + ReadLimit) <= FullWindow
  PROVE  UiSpec => []AnswersMatchRequests
<1>1. UiTypes /\ TimeInv /\ MatchInv => AnswersMatchRequests
  BY DEF UiTypes, TimeInv, MatchInv, InStep, OwnAnswers, AnswersMatchRequests
<1>2. UiTypes /\ TimeInv /\ [UiNext]_uiVars => TimeInv'
  BY TimeStep DEF Attempt
<1>3. QED
  BY <1>1, <1>2, UiTypesInit, UiTypesStep, TimeInit, MatchInit, MatchStep, PTL DEF UiSpec
=============================================================================
