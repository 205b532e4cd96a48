-------------------------- MODULE DeviceActorProofs --------------------------
(* Proofs about DeviceActor, for any requests and any number of faults.     *)
EXTENDS DeviceActor, TLAPS

(* The inductive invariant, in parts.                                       *)

\* The session: none while the actor connects or after it has ended.
SessionInv ==
  /\ sessions = IF dev = "nil" THEN 0 ELSE 1
  /\ Reconnecting \/ loop = "exited" => dev = "nil"

\* The throttle: no attempt but the one that started the cooldown.
ThrottleInv == attempts = IF cooling THEN 1 ELSE 0

\* The actor has a request in hand.
Handling == loop \in {"dispatch", "reply", "reconnectForRequest"}

\* What has not been handed over has left no trace, and what has been handed
\* over is never told busy.
HandOverInv ==
  /\ Handling => /\ cur \in Requests
                 /\ pc[cur] \in {"waiting", "done"}
                 /\ answer[cur] # "busy"
  /\ \A r \in Requests :
       /\ pc[r] \in {"idle", "sending"} =>
            delivered[r] = 0 /\ firstResp[r] = NoResponse /\ answer[r] = "none"
       /\ pc[r] = "waiting" => answer[r] = "none"
       /\ answer[r] = "busy" => delivered[r] = 0

\* Where the request in hand stands between its two dispatches: it comes to
\* the second only if the first has not timed out.
ReplayInv ==
  /\ loop = "dispatch" /\ ~replayed => delivered[cur] = 0 /\ firstResp[cur] = NoResponse
  /\ loop = "dispatch" /\ replayed => delivered[cur] <= 1 /\ firstResp[cur] # "deadline"
  /\ loop = "reconnectForRequest" =>
       ~replayed /\ delivered[cur] <= 1 /\ firstResp[cur] # "deadline"
  /\ \A r \in Requests : firstResp[r] = "deadline" => delivered[r] <= 1

ActorInv == TypeOK /\ SessionInv /\ ThrottleInv /\ HandOverInv /\ ReplayInv

LEMMA ActorInvInit == Init => ActorInv
<1> SUFFICES ASSUME Init PROVE ActorInv
  OBVIOUS
<1>1. TypeOK
  <2>1. /\ pc \in [Requests -> {"idle", "sending", "waiting", "done"}]
        /\ replyCh \in [Requests -> Responses \union {NoResponse}]
        /\ answer \in [Requests -> Answers]
        /\ delivered \in [Requests -> 0 .. 2]
        /\ firstResp \in [Requests -> Responses \union {NoResponse}]
    BY DEF Init, Answers
  <2>2. faults \in 0 .. MaxFaults
    BY ActorAssumption DEF Init
  <2>3. QED
    BY <2>1, <2>2 DEF Init, TypeOK
<1>2. SessionInv /\ ThrottleInv
  BY DEF Init, SessionInv, ThrottleInv, Reconnecting
<1>3. HandOverInv /\ ReplayInv
  BY DEF Init, HandOverInv, ReplayInv, Handling, NoResponse
<1>4. QED
  BY <1>1, <1>2, <1>3 DEF ActorInv
-----------------------------------------------------------------------------
(* The handlers' steps.                                                     *)

LEMMA SubmitKeepsInv ==
  ASSUME ActorInv, NEW r \in Requests, Submit(r)
  PROVE  ActorInv'
BY DEF ActorInv, TypeOK, SessionInv, ThrottleInv, HandOverInv, ReplayInv, Handling,
       Reconnecting, Submit, loopVars, sessionVars, throttleVars, ctxVars, historyVars

\* A handler that stops waiting may say what it has got; "busy" only if the
\* request is still its own.
LEMMA FinishKeepsInv ==
  ASSUME ActorInv, NEW r \in Requests, NEW a \in Answers, Finish(r, a), HandlerFrame,
         pc[r] \in {"sending", "waiting"},
         a = "busy" => pc[r] = "sending"
  PROVE  ActorInv'
<1>1. UNCHANGED <<loopVars, sessionVars, throttleVars, ctxVars, replyCh, delivered,
                  firstResp, faults>>
  BY DEF HandlerFrame, historyVars
<1>2. /\ pc' = [pc EXCEPT ![r] = "done"]
      /\ answer' = [answer EXCEPT ![r] = a]
  BY DEF Finish
<1>3. TypeOK'
  BY <1>1, <1>2
     DEF ActorInv, TypeOK, loopVars, sessionVars, throttleVars, ctxVars
<1>4. SessionInv' /\ ThrottleInv' /\ ReplayInv'
  BY <1>1 DEF ActorInv, SessionInv, ThrottleInv, ReplayInv, Reconnecting, loopVars,
              sessionVars, throttleVars
<1>5. HandOverInv'
  BY <1>1, <1>2 DEF ActorInv, TypeOK, HandOverInv, Handling, loopVars
<1>6. QED
  BY <1>3, <1>4, <1>5 DEF ActorInv

LEMMA HandlerOutKeepsInv ==
  ASSUME ActorInv, NEW r \in Requests, HandlerOut(r)
  PROVE  ActorInv'
<1>1. CASE SendTimeout(r)
  BY <1>1, FinishKeepsInv DEF SendTimeout, Answers
<1>2. CASE ReplyTimeout(r)
  BY <1>2, FinishKeepsInv DEF ReplyTimeout, Answers
<1>3. CASE ShutdownAnswer(r)
  BY <1>3, FinishKeepsInv DEF ShutdownAnswer, Answers
<1>4. CASE TakeReply(r)
  <2>1. replyCh[r] \in Responses
    BY <1>4 DEF TakeReply, ActorInv, TypeOK
  <2>2. QED
    BY <1>4, <2>1, FinishKeepsInv DEF TakeReply, Answers, Responses
<1>5. QED
  BY <1>1, <1>2, <1>3, <1>4 DEF HandlerOut

LEMMA ReceiveKeepsInv ==
  ASSUME ActorInv, NEW r \in Requests, Receive(r)
  PROVE  ActorInv'
<1>1. /\ loop = "select" /\ pc[r] = "sending"
      /\ loop' = "dispatch" /\ cur' = r /\ replayed' = FALSE
      /\ pc' = [pc EXCEPT ![r] = "waiting"]
      /\ UNCHANGED <<resp, sessionVars, throttleVars, ctxVars, replyCh, answer,
                     delivered, firstResp, faults>>
  BY DEF Receive, historyVars
<1>2. TypeOK'
  BY <1>1 DEF ActorInv, TypeOK, sessionVars, throttleVars, ctxVars
<1>3. SessionInv' /\ ThrottleInv'
  BY <1>1 DEF ActorInv, SessionInv, ThrottleInv, Reconnecting, sessionVars, throttleVars
<1>4. HandOverInv' /\ ReplayInv'
  BY <1>1 DEF ActorInv, TypeOK, HandOverInv, ReplayInv, Handling
<1>5. QED
  BY <1>2, <1>3, <1>4 DEF ActorInv
-----------------------------------------------------------------------------
(* The actor's steps.                                                       *)

LEMMA DispatchKeepsInv ==
  ASSUME ActorInv, Dispatch
  PROVE  ActorInv'
<1>1. PICK out \in Responses, acted \in {0, 1}, d \in {"nil", "alive", "dead"} :
        /\ Outcome(out, acted, d)
        /\ IF d # dev THEN Fault ELSE UNCHANGED faults
        /\ resp' = out
        /\ delivered' = [delivered EXCEPT ![cur] = @ + acted]
        /\ firstResp' = IF replayed THEN firstResp
                        ELSE [firstResp EXCEPT ![cur] = out]
        /\ IF Replayable(out, d) /\ ~cooling
           THEN StartReconnect("reconnectForRequest", d)
           ELSE loop' = "reply" /\ dev' = d
                /\ UNCHANGED <<sessions, cooling, attempts>>
  BY DEF Dispatch
<1>2. /\ loop = "dispatch"
      /\ UNCHANGED <<cur, replayed, connected, lastFailed, cancelled, shutdown,
                     pc, replyCh, answer>>
  BY DEF Dispatch, ctxVars, handlerVars
<1>3. cur \in Requests /\ pc[cur] \in {"waiting", "done"} /\ answer[cur] # "busy"
  BY <1>2 DEF ActorInv, HandOverInv, Handling
<1>4. dev = "nil" <=> d = "nil"
  BY <1>1 DEF Outcome
<1>5. /\ loop' \in {"reconnectForRequest", "reply"}
      /\ loop' = "reconnectForRequest" =>
           ~cooling /\ ~replayed /\ out # "deadline" /\ dev' = "nil"
           /\ sessions' = (IF d = "nil" THEN sessions ELSE sessions - 1)
           /\ cooling' = TRUE /\ attempts' = attempts + 1
      /\ loop' = "reply" => dev' = d /\ UNCHANGED <<sessions, cooling, attempts>>
  BY <1>1 DEF StartReconnect, Replayable
<1>6. SessionInv' /\ ThrottleInv'
  BY <1>2, <1>4, <1>5 DEF ActorInv, TypeOK, SessionInv, ThrottleInv, Reconnecting
<1>7. /\ delivered[cur] \in 0 .. 2
      /\ replayed => delivered[cur] <= 1 /\ firstResp[cur] # "deadline"
      /\ ~replayed => delivered[cur] = 0
  BY <1>2, <1>3 DEF ActorInv, TypeOK, ReplayInv
<1>8. TypeOK'
  <2>1. faults' \in 0 .. MaxFaults
    BY <1>1, ActorAssumption DEF ActorInv, TypeOK, Fault
  <2>2. delivered[cur] + acted \in 0 .. 2
    BY <1>1, <1>7
  <2>3. delivered' \in [Requests -> 0 .. 2]
    BY <1>1, <1>3, <2>2 DEF ActorInv, TypeOK
  <2>4. firstResp' \in [Requests -> Responses \union {NoResponse}]
    BY <1>1, <1>3 DEF ActorInv, TypeOK
  <2>5. sessions' \in Nat /\ attempts' \in Nat /\ cooling' \in BOOLEAN
    BY <1>5, <1>6 DEF SessionInv, ThrottleInv, ActorInv, TypeOK
  <2>6. dev' \in {"nil", "alive", "dead"}
    BY <1>5, <1>1
  <2>7. QED
    BY <1>1, <1>2, <1>5, <2>1, <2>3, <2>4, <2>5, <2>6 DEF ActorInv, TypeOK
<1>9. HandOverInv'
  <2>1. \A r \in Requests : r # cur => delivered'[r] = delivered[r]
                                       /\ firstResp'[r] = firstResp[r]
    BY <1>1 DEF ActorInv, TypeOK
  <2>2. QED
    BY <1>2, <1>3, <2>1 DEF ActorInv, HandOverInv, Handling
<1>10. ReplayInv'
  <2>1. /\ delivered'[cur] = delivered[cur] + acted
        /\ firstResp'[cur] = IF replayed THEN firstResp[cur] ELSE out
        /\ \A r \in Requests : r # cur => delivered'[r] = delivered[r]
                                          /\ firstResp'[r] = firstResp[r]
    BY <1>1, <1>3 DEF ActorInv, TypeOK
  <2>2. ~replayed => delivered'[cur] <= 1
    BY <1>1, <1>7, <2>1
  <2>3. firstResp'[cur] = "deadline" => delivered'[cur] <= 1
    BY <1>7, <2>1, <2>2
  <2>4. QED
    BY <1>2, <1>5, <2>1, <2>2, <2>3 DEF ActorInv, ReplayInv
<1>11. QED
  BY <1>6, <1>8, <1>9, <1>10 DEF ActorInv

LEMMA ReplyKeepsInv ==
  ASSUME ActorInv, Reply
  PROVE  ActorInv'
<1>1. /\ loop = "reply" /\ loop' = "select" /\ cur' = NoRequest /\ resp' = NoResponse
      /\ replyCh' = [replyCh EXCEPT ![cur] = resp]
      /\ UNCHANGED <<replayed, dev, sessions, connected, cooling, attempts, lastFailed,
                     cancelled, shutdown, pc, answer, delivered, firstResp, faults>>
  BY DEF Reply, sessionVars, throttleVars, ctxVars, historyVars
<1>2. TypeOK'
  BY <1>1 DEF ActorInv, TypeOK
<1>3. SessionInv' /\ ThrottleInv'
  BY <1>1 DEF ActorInv, SessionInv, ThrottleInv, Reconnecting
<1>4. HandOverInv' /\ ReplayInv'
  BY <1>1 DEF ActorInv, HandOverInv, ReplayInv, Handling
<1>5. QED
  BY <1>2, <1>3, <1>4 DEF ActorInv

\* A step that leaves the requests alone and takes the loop to where it handles
\* none has only the session and the throttle to answer for.
LEMMA QuietStepKeepsInv ==
  ASSUME ActorInv, UNCHANGED <<cur, resp, pc, replyCh, answer, delivered, firstResp>>,
         ~Handling', TypeOK', SessionInv', ThrottleInv'
  PROVE  ActorInv'
BY DEF ActorInv, HandOverInv, ReplayInv, Handling

LEMMA HealthCheckKeepsInv ==
  ASSUME ActorInv, HealthCheck
  PROVE  ActorInv'
<1>1. /\ loop = "select" /\ ~cooling /\ loop' = "reconnectForHealth"
      /\ dev' = "nil" /\ sessions' = (IF dev = "nil" THEN sessions ELSE sessions - 1)
      /\ cooling' = TRUE /\ attempts' = attempts + 1
      /\ UNCHANGED <<cur, resp, replayed, connected, lastFailed, cancelled, shutdown,
                     pc, replyCh, answer, delivered, firstResp, faults>>
  BY DEF HealthCheck, StartReconnect, ctxVars, handlerVars, historyVars
<1>2. SessionInv' /\ ThrottleInv'
  BY <1>1 DEF ActorInv, SessionInv, ThrottleInv, Reconnecting
<1>3. TypeOK'
  BY <1>1, <1>2 DEF ActorInv, TypeOK, SessionInv, ThrottleInv
<1>4. QED
  BY <1>1, <1>2, <1>3, QuietStepKeepsInv DEF Handling

LEMMA ConnectOKKeepsInv ==
  ASSUME ActorInv, ConnectOK
  PROVE  ActorInv'
<1>1. /\ loop \in {"reconnectForRequest", "reconnectForHealth"}
      /\ loop = "reconnectForRequest" => loop' = "dispatch" /\ replayed' = TRUE
      /\ loop = "reconnectForHealth" => loop' = "select" /\ UNCHANGED replayed
      /\ dev' = "alive" /\ sessions' = sessions + 1 /\ connected' = TRUE
      /\ lastFailed' = FALSE
      /\ UNCHANGED <<cur, resp, cooling, attempts, cancelled, shutdown, pc, replyCh,
                     answer, delivered, firstResp, faults>>
  BY DEF ConnectOK, Reconnecting, ctxVars, handlerVars, historyVars
<1>2. SessionInv' /\ ThrottleInv'
  BY <1>1 DEF ActorInv, SessionInv, ThrottleInv, Reconnecting
<1>3. TypeOK'
  <2>1. sessions' \in Nat
    BY <1>2 DEF SessionInv
  <2>2. QED
    BY <1>1, <2>1 DEF ActorInv, TypeOK
<1>4. HandOverInv' /\ ReplayInv'
  BY <1>1 DEF ActorInv, HandOverInv, ReplayInv, Handling
<1>5. QED
  BY <1>2, <1>3, <1>4 DEF ActorInv

LEMMA ConnectFailsKeepsInv ==
  ASSUME ActorInv, ConnectFails
  PROVE  ActorInv'
<1>1. /\ loop \in {"reconnectForRequest", "reconnectForHealth"}
      /\ loop' = IF loop = "reconnectForRequest" THEN "reply" ELSE "select"
      /\ dev' = "nil" /\ UNCHANGED sessions /\ connected' = FALSE /\ lastFailed' = TRUE
      /\ faults < MaxFaults /\ faults' = faults + 1
      /\ UNCHANGED <<cur, resp, replayed, cooling, attempts, cancelled, shutdown, pc,
                     replyCh, answer, delivered, firstResp>>
  BY DEF ConnectFails, Fault, Reconnecting, ctxVars, handlerVars, historyVars
<1>2. SessionInv' /\ ThrottleInv'
  BY <1>1 DEF ActorInv, SessionInv, ThrottleInv, Reconnecting
<1>3. faults' \in 0 .. MaxFaults
  BY <1>1, ActorAssumption DEF ActorInv, TypeOK
<1>4. TypeOK'
  BY <1>1, <1>3 DEF ActorInv, TypeOK
<1>5. HandOverInv' /\ ReplayInv'
  BY <1>1 DEF ActorInv, HandOverInv, ReplayInv, Handling
<1>6. QED
  BY <1>2, <1>4, <1>5 DEF ActorInv

LEMMA PanicKeepsInv ==
  ASSUME ActorInv, Panic
  PROVE  ActorInv'
<1>1. PICK acted \in {0, 1} : delivered' = [delivered EXCEPT ![cur] = @ + acted]
  BY DEF Panic
<1>2. /\ loop = "dispatch" /\ loop' = "backoff" /\ cur' = NoRequest /\ resp' = NoResponse
      /\ faults < MaxFaults /\ faults' = faults + 1
      /\ sessions' = (IF dev = "nil" THEN sessions ELSE sessions - 1)
      /\ dev' = "nil" /\ connected' = FALSE
      /\ UNCHANGED <<replayed, cooling, attempts, lastFailed, cancelled, shutdown, pc,
                     replyCh, answer, firstResp>>
  BY DEF Panic, Fault, CloseDevice, throttleVars, ctxVars, handlerVars
<1>3. /\ cur \in Requests /\ pc[cur] \in {"waiting", "done"} /\ answer[cur] # "busy"
      /\ delivered[cur] \in 0 .. 1 /\ firstResp[cur] # "deadline"
  BY <1>2 DEF ActorInv, TypeOK, HandOverInv, ReplayInv, Handling, NoResponse
<1>4. SessionInv' /\ ThrottleInv'
  BY <1>2 DEF ActorInv, SessionInv, ThrottleInv, Reconnecting
<1>5. TypeOK'
  <2>1. faults' \in 0 .. MaxFaults
    BY <1>2, ActorAssumption DEF ActorInv, TypeOK
  <2>2. delivered[cur] + acted \in 0 .. 2
    BY <1>1, <1>3
  <2>3. delivered' \in [Requests -> 0 .. 2]
    BY <1>1, <1>3, <2>2 DEF ActorInv, TypeOK
  <2>4. sessions' \in Nat
    BY <1>4 DEF SessionInv
  <2>5. QED
    BY <1>2, <2>1, <2>3, <2>4 DEF ActorInv, TypeOK
<1>6. \A r \in Requests : r # cur => delivered'[r] = delivered[r]
  BY <1>1 DEF ActorInv, TypeOK
<1>7. HandOverInv' /\ ReplayInv'
  BY <1>2, <1>3, <1>6 DEF ActorInv, HandOverInv, ReplayInv, Handling
<1>8. QED
  BY <1>4, <1>5, <1>7 DEF ActorInv

LEMMA RestartKeepsInv ==
  ASSUME ActorInv, Restart
  PROVE  ActorInv'
<1>1. /\ loop = "backoff" /\ loop' = "select"
      /\ UNCHANGED <<cur, resp, replayed, dev, sessions, connected, cooling, attempts,
                     lastFailed, cancelled, shutdown, pc, replyCh, answer, delivered,
                     firstResp, faults>>
  BY DEF Restart, sessionVars, throttleVars, ctxVars, handlerVars, historyVars
<1>2. TypeOK'
  BY <1>1 DEF ActorInv, TypeOK
<1>3. SessionInv' /\ ThrottleInv'
  BY <1>1 DEF ActorInv, SessionInv, ThrottleInv, Reconnecting
<1>4. QED
  BY <1>1, <1>2, <1>3, QuietStepKeepsInv DEF Handling

LEMMA ExitKeepsInv ==
  ASSUME ActorInv, Exit
  PROVE  ActorInv'
<1>1. /\ loop' = "exited"
      /\ sessions' = (IF dev = "nil" THEN sessions ELSE sessions - 1)
      /\ dev' = "nil" /\ connected' = FALSE
      /\ UNCHANGED <<cur, resp, replayed, cooling, attempts, lastFailed, cancelled,
                     shutdown, pc, replyCh, answer, delivered, firstResp, faults>>
  BY DEF Exit, CloseDevice, throttleVars, ctxVars, handlerVars, historyVars
<1>2. SessionInv' /\ ThrottleInv'
  BY <1>1 DEF ActorInv, SessionInv, ThrottleInv, Reconnecting
<1>3. TypeOK'
  <2>1. sessions' \in Nat
    BY <1>2 DEF SessionInv
  <2>2. QED
    BY <1>1, <2>1 DEF ActorInv, TypeOK
<1>4. QED
  BY <1>1, <1>2, <1>3, QuietStepKeepsInv DEF Handling
-----------------------------------------------------------------------------
(* The environment's steps.                                                 *)

LEMMA EnvironmentKeepsInv ==
  ASSUME ActorInv, SessionDies \/ CooldownExpires \/ Disconnect \/ Shutdown
  PROVE  ActorInv'
<1>1. UNCHANGED <<loop, cur, resp, replayed, connected, lastFailed, pc, replyCh, answer,
                  delivered, firstResp, sessions>>
  BY DEF SessionDies, CooldownExpires, Disconnect, Shutdown, loopVars, sessionVars,
         throttleVars, handlerVars, historyVars
<1>2. HandOverInv' /\ ReplayInv'
  BY <1>1 DEF ActorInv, HandOverInv, ReplayInv, Handling
<1>3. CASE SessionDies
  <2>1. /\ dev = "alive" /\ dev' = "dead" /\ faults < MaxFaults /\ faults' = faults + 1
        /\ UNCHANGED <<cooling, attempts, cancelled, shutdown>>
    BY <1>3 DEF SessionDies, Fault, throttleVars, ctxVars
  <2>2. faults' \in 0 .. MaxFaults
    BY <2>1, ActorAssumption DEF ActorInv, TypeOK
  <2>3. SessionInv' /\ ThrottleInv'
    BY <1>1, <2>1 DEF ActorInv, SessionInv, ThrottleInv, Reconnecting
  <2>4. TypeOK'
    BY <1>1, <2>1, <2>2 DEF ActorInv, TypeOK
  <2>5. QED
    BY <1>2, <2>3, <2>4 DEF ActorInv
<1>4. CASE CooldownExpires
  <2>1. /\ cooling' = FALSE /\ attempts' = 0
        /\ UNCHANGED <<dev, cancelled, shutdown, faults>>
    BY <1>4 DEF CooldownExpires, sessionVars, ctxVars
  <2>2. SessionInv' /\ ThrottleInv'
    BY <1>1, <2>1 DEF ActorInv, SessionInv, ThrottleInv, Reconnecting
  <2>3. TypeOK'
    <3>1. attempts' \in Nat /\ cooling' \in BOOLEAN
      BY <2>1
    <3>2. UNCHANGED <<dev, cancelled, shutdown, faults>>
      BY <2>1
    <3>3. QED
      BY <1>1, <3>1, <3>2 DEF ActorInv, TypeOK
  <2>4. QED
    BY <1>2, <2>2, <2>3 DEF ActorInv
<1>5. CASE Disconnect \/ Shutdown
  <2>1. /\ cancelled' \in BOOLEAN /\ shutdown' \in BOOLEAN
        /\ UNCHANGED <<dev, cooling, attempts, faults>>
    BY <1>5 DEF Disconnect, Shutdown, sessionVars, throttleVars, ActorInv, TypeOK
  <2>2. SessionInv' /\ ThrottleInv'
    BY <1>1, <2>1 DEF ActorInv, SessionInv, ThrottleInv, Reconnecting
  <2>3. TypeOK'
    BY <1>1, <2>1 DEF ActorInv, TypeOK
  <2>4. QED
    BY <1>2, <2>2, <2>3 DEF ActorInv
<1>6. QED
  BY <1>3, <1>4, <1>5

LEMMA StutterKeepsInv == ActorInv /\ UNCHANGED vars => ActorInv'
BY DEF vars, ActorInv, TypeOK, SessionInv, ThrottleInv, HandOverInv, ReplayInv,
       Handling, Reconnecting

LEMMA ActorInvStep == ActorInv /\ [Next]_vars => ActorInv'
<1> SUFFICES ASSUME ActorInv, [Next]_vars PROVE ActorInv'
  OBVIOUS
<1>1. CASE \E r \in Requests : Submit(r) \/ HandlerOut(r) \/ Receive(r)
  BY <1>1, SubmitKeepsInv, HandlerOutKeepsInv, ReceiveKeepsInv
<1>2. CASE Work
  BY <1>2, DispatchKeepsInv, ReplyKeepsInv, ConnectOKKeepsInv, ConnectFailsKeepsInv,
     PanicKeepsInv DEF Work
<1>3. CASE HealthCheck \/ Restart \/ Exit
  BY <1>3, HealthCheckKeepsInv, RestartKeepsInv, ExitKeepsInv
<1>4. CASE SessionDies \/ CooldownExpires \/ Disconnect \/ Shutdown
  BY <1>4, EnvironmentKeepsInv
<1>5. CASE Terminated
  BY <1>5, StutterKeepsInv DEF Terminated
<1>6. CASE UNCHANGED vars
  BY <1>6, StutterKeepsInv
<1>7. QED
  BY <1>1, <1>2, <1>3, <1>4, <1>5, <1>6 DEF Next
-----------------------------------------------------------------------------
LEMMA ActorInvariant == Spec => []ActorInv
BY ActorInvInit, ActorInvStep, PTL DEF Spec

\* The actor holds the session that is open on the device, and none when it
\* has ended (actor.go, tryReconnect, run and cleanup).
THEOREM SessionsStayWithTheActor == Spec => []SessionsNotLeaked
<1>1. ActorInv => SessionsNotLeaked
  BY DEF ActorInv, SessionInv, SessionsNotLeaked
<1>2. QED
  BY <1>1, ActorInvariant, PTL

\* A request that was answered "busy" has not been performed and never will
\* be (server.go, the hand-over on the unbuffered channel).
THEOREM BusyRequestsLeaveNoTrace == Spec => []BusyMeansUndelivered
<1>1. ActorInv => BusyMeansUndelivered
  BY DEF ActorInv, HandOverInv, BusyMeansUndelivered
<1>2. QED
  BY <1>1, ActorInvariant, PTL

\* The second dispatch of a request is never one after a timeout (actor.go,
\* handleRequest).
THEOREM TimedOutRequestsReachTheDeviceOnce == Spec => []TimedOutCallNotReplayed
<1>1. ActorInv => TimedOutCallNotReplayed
  BY DEF ActorInv, ReplayInv, TimedOutCallNotReplayed
<1>2. QED
  BY <1>1, ActorInvariant, PTL

\* The throttle of tryReconnect, with any number of requests and ticks.
THEOREM ReconnectsAreThrottled == Spec => []OneAttemptPerCooldown
<1>1. ActorInv => OneAttemptPerCooldown
  BY DEF ActorInv, ThrottleInv, OneAttemptPerCooldown
<1>2. QED
  BY <1>1, ActorInvariant, PTL
=============================================================================
