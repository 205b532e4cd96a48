---------------------------- MODULE DeviceActor ----------------------------
(***************************************************************************)
(* One device actor and the handlers that talk to it (internal/daemon/     *)
(* actor.go and the second half of handleConn in server.go): requests      *)
(* handed over on an unbuffered channel with a send timeout, answers on a  *)
(* channel of their own with a reply timeout, the replay of a request      *)
(* after a reconnect, the reconnect throttle, the restart after a panic,   *)
(* and the two contexts that end it (disconnect, shutdown).                *)
(*                                                                         *)
(* Time is abstract: a timer that has been started may fire at any later   *)
(* point.  DeviceRegistry models where actors come from; this module is    *)
(* the life of one of them after newDeviceActor.                           *)
(***************************************************************************)
EXTENDS Integers, FiniteSets

CONSTANTS
  Requests,   \* the requests of a behaviour; each has a handler of its own
  MaxFaults   \* deaths of the session, failed connects and panics

ASSUME ActorAssumption == MaxFaults \in Nat

VARIABLES
  loop,       \* where the actor's goroutine is
  dev,        \* DeviceActor.device: "nil", or a session "alive" or "dead"
  sessions,   \* sessions open on the device and not yet closed
  connected,  \* ActorStatus.Connected, as published for status requests
  cooling,    \* lastReconnect lies within the cooldown
  attempts,   \* reconnect attempts since the cooldown last expired
  lastFailed, \* the latest reconnect attempt failed
  cancelled,  \* the actor's context has ended
  shutdown,   \* the daemon's context has ended (and so has the actor's)
  cur,        \* the request that the goroutine is handling
  resp,       \* the response it has for it
  replayed,   \* it has dispatched it a second time
  pc,         \* of each handler: "idle", "sending", "waiting" or "done"
  replyCh,    \* the content of each request's reply channel (capacity 1)
  answer,     \* what the handler wrote to the client
  delivered,  \* how often the device performed the request
  firstResp,  \* the response of the request's first dispatch
  faults

loopVars    == <<loop, cur, resp, replayed>>
sessionVars == <<dev, sessions, connected>>
throttleVars == <<cooling, attempts, lastFailed>>
ctxVars     == <<cancelled, shutdown>>
handlerVars == <<pc, replyCh, answer>>
historyVars == <<delivered, firstResp>>

vars == <<loop, cur, resp, replayed, dev, sessions, connected, cooling,
          attempts, lastFailed, cancelled, shutdown, pc, replyCh, answer,
          delivered, firstResp, faults>>

NoRequest == "none"
NoResponse == "none"

\* What a handler of the dispatcher can answer: a result, an error that says
\* "context deadline exceeded", or any other error.
Responses == {"ok", "error", "deadline"}

Answers == Responses \union {"none", "busy", "timeout", "shutdown"}

\* run is entered with the session that newDeviceActor has connected.
Init ==
  /\ loop = "select" /\ cur = NoRequest /\ resp = NoResponse
  /\ replayed = FALSE
  /\ dev = "alive" /\ sessions = 1 /\ connected = TRUE
  /\ cooling = FALSE /\ attempts = 0 /\ lastFailed = FALSE
  /\ cancelled = FALSE /\ shutdown = FALSE
  /\ pc = [r \in Requests |-> "idle"]
  /\ replyCh = [r \in Requests |-> NoResponse]
  /\ answer = [r \in Requests |-> "none"]
  /\ delivered = [r \in Requests |-> 0]
  /\ firstResp = [r \in Requests |-> NoResponse]
  /\ faults = 0

Fault == faults < MaxFaults /\ faults' = faults + 1

\* Dead as handleRequest and healthCheck see it.
Dead(d) == d # "alive"
-----------------------------------------------------------------------------
(* The handlers: one per request. *)

Submit(r) ==
  /\ pc[r] = "idle"
  /\ pc' = [pc EXCEPT ![r] = "sending"]
  /\ UNCHANGED <<loopVars, sessionVars, throttleVars, ctxVars, replyCh, answer,
                 historyVars, faults>>

Finish(r, a) ==
  /\ pc' = [pc EXCEPT ![r] = "done"]
  /\ answer' = [answer EXCEPT ![r] = a]

HandlerFrame == UNCHANGED <<loopVars, sessionVars, throttleVars, ctxVars,
                            replyCh, historyVars, faults>>

\* The three ways out of the wait for the actor to take the request, other
\* than its being taken (Receive), and of the wait for the reply.
SendTimeout(r) == pc[r] = "sending" /\ Finish(r, "busy") /\ HandlerFrame

ReplyTimeout(r) == pc[r] = "waiting" /\ Finish(r, "timeout") /\ HandlerFrame

ShutdownAnswer(r) ==
  /\ shutdown /\ pc[r] \in {"sending", "waiting"}
  /\ Finish(r, "shutdown") /\ HandlerFrame

TakeReply(r) ==
  /\ pc[r] = "waiting" /\ replyCh[r] # NoResponse
  /\ Finish(r, replyCh[r]) /\ HandlerFrame
-----------------------------------------------------------------------------
(* The actor's goroutine. *)

\* Mutant: a buffered reqCh, from which the actor takes requests whose
\* handler has gone.
Receive_Buffered(r) ==
  /\ loop = "select" /\ (pc[r] = "sending" \/ answer[r] = "busy")
  /\ delivered[r] = 0
  /\ loop' = "dispatch" /\ cur' = r /\ replayed' = FALSE
  /\ pc' = IF pc[r] = "sending" THEN [pc EXCEPT ![r] = "waiting"] ELSE pc
  /\ UNCHANGED <<resp, sessionVars, throttleVars, ctxVars, replyCh, answer,
                 historyVars, faults>>

\* The rendezvous on the unbuffered reqCh.  The select may take it although
\* ctx.Done is ready too.
Receive(r) ==
  /\ loop = "select" /\ pc[r] = "sending"
  /\ loop' = "dispatch" /\ cur' = r /\ replayed' = FALSE
  /\ pc' = [pc EXCEPT ![r] = "waiting"]
  /\ UNCHANGED <<resp, sessionVars, throttleVars, ctxVars, replyCh, answer,
                 historyVars, faults>>

\* Mutant: a timed-out call is replayed like any other failure.
Replayable_Deadline(out, d) == out # "ok" /\ Dead(d) /\ ~replayed

\* What makes handleRequest try to reconnect and dispatch again.
Replayable(out, d) ==
  out \notin {"ok", "deadline"} /\ Dead(d) /\ ~replayed

\* Mutant: the throttle remembers only the attempts that succeeded (which
\* are noted elsewhere, if at all).
StartReconnect_Unnoted(from, d) ==
  /\ loop' = from
  /\ dev' = "nil" /\ sessions' = IF d = "nil" THEN sessions ELSE sessions - 1
  /\ UNCHANGED cooling /\ attempts' = attempts + 1

\* Mutant: the old session is not closed before the new one is made.
StartReconnect_KeepOld(from, d) ==
  /\ loop' = from
  /\ dev' = "nil" /\ UNCHANGED sessions
  /\ cooling' = TRUE /\ attempts' = attempts + 1

\* tryReconnect past its throttle, having found the session d: note the time
\* and close d.  Its second half, connectFn, is ConnectOK or ConnectFails.
StartReconnect(from, d) ==
  /\ loop' = from
  /\ dev' = "nil" /\ sessions' = IF d = "nil" THEN sessions ELSE sessions - 1
  /\ cooling' = TRUE /\ attempts' = attempts + 1

\* Dispatch: without a session every device method is an error; with one,
\* a method answers "ok" after acting on the device, and fails before or
\* after having acted on it, the session surviving or not.
Outcome(out, acted, d) ==
  IF dev = "nil"
  THEN out = "error" /\ acted = 0 /\ d = "nil"
  ELSE /\ out = "ok" => acted = 1
       /\ d \in {dev, "dead"}

Dispatch ==
  /\ loop = "dispatch"
  /\ \E out \in Responses, acted \in {0, 1}, d \in {"nil", "alive", "dead"} :
       /\ Outcome(out, acted, d)
       /\ IF d # dev THEN Fault ELSE UNCHANGED faults
       /\ resp' = out
       /\ delivered' = [delivered EXCEPT ![cur] = @ + acted]
       /\ firstResp' = IF replayed THEN firstResp
                       ELSE [firstResp EXCEPT ![cur] = out]
       /\ IF Replayable(out, d) /\ ~cooling
          THEN StartReconnect("reconnectForRequest", d)
          ELSE loop' = "reply" /\ dev' = d
               /\ UNCHANGED <<sessions, cooling, attempts>>
  /\ UNCHANGED <<cur, replayed, connected, lastFailed, ctxVars, handlerVars>>

\* Mutant: an unbuffered replyCh, on which the actor waits for the handler.
Reply_Unbuffered ==
  /\ loop = "reply" /\ pc[cur] = "waiting"
  /\ replyCh' = [replyCh EXCEPT ![cur] = resp]
  /\ loop' = "select" /\ cur' = NoRequest /\ resp' = NoResponse
  /\ UNCHANGED <<replayed, sessionVars, throttleVars, ctxVars, pc, answer,
                 historyVars, faults>>

\* req.replyCh <- resp: the channel has room, whether or not the handler is
\* still there to read it.
Reply ==
  /\ loop = "reply"
  /\ replyCh' = [replyCh EXCEPT ![cur] = resp]
  /\ loop' = "select" /\ cur' = NoRequest /\ resp' = NoResponse
  /\ UNCHANGED <<replayed, sessionVars, throttleVars, ctxVars, pc, answer,
                 historyVars, faults>>

\* Mutant: only a missing session is replaced, never a dead one.
HealthCheck_NilOnly ==
  /\ loop = "select" /\ dev = "nil" /\ ~cooling
  /\ StartReconnect("reconnectForHealth", dev)
  /\ UNCHANGED <<cur, resp, replayed, connected, lastFailed, ctxVars,
                 handlerVars, historyVars, faults>>

\* The 10s tick, where it does something.
HealthCheck ==
  /\ loop = "select" /\ Dead(dev) /\ ~cooling
  /\ StartReconnect("reconnectForHealth", dev)
  /\ UNCHANGED <<cur, resp, replayed, connected, lastFailed, ctxVars,
                 handlerVars, historyVars, faults>>

Reconnecting == loop \in {"reconnectForRequest", "reconnectForHealth"}

\* connectFn succeeds: a request is dispatched again, a health check is over.
ConnectOK ==
  /\ Reconnecting
  /\ dev' = "alive" /\ sessions' = sessions + 1 /\ connected' = TRUE
  /\ lastFailed' = FALSE
  /\ IF loop = "reconnectForRequest"
     THEN loop' = "dispatch" /\ replayed' = TRUE
     ELSE loop' = "select" /\ UNCHANGED replayed
  /\ UNCHANGED <<cur, resp, cooling, attempts, ctxVars, handlerVars,
                 historyVars, faults>>

\* connectFn fails: the request keeps the error of its first dispatch.
ConnectFails ==
  /\ Reconnecting /\ Fault
  /\ dev' = "nil" /\ UNCHANGED sessions /\ connected' = FALSE
  /\ lastFailed' = TRUE
  /\ loop' = IF loop = "reconnectForRequest" THEN "reply" ELSE "select"
  /\ UNCHANGED <<cur, resp, replayed, cooling, attempts, ctxVars, handlerVars,
                 historyVars>>

CloseDevice ==
  /\ sessions' = IF dev = "nil" THEN sessions ELSE sessions - 1
  /\ dev' = "nil" /\ connected' = FALSE

\* A handler panics in Dispatch, after acting on the device or before: run
\* closes the session and sleeps; nobody will answer the request.
Panic ==
  /\ loop = "dispatch" /\ Fault
  /\ \E acted \in {0, 1} :
       /\ dev = "nil" => acted = 0
       /\ delivered' = [delivered EXCEPT ![cur] = @ + acted]
  /\ CloseDevice
  /\ loop' = "backoff" /\ cur' = NoRequest /\ resp' = NoResponse
  /\ UNCHANGED <<replayed, throttleVars, ctxVars, handlerVars, firstResp>>

\* The back-off timer fires and the loop starts again.
Restart ==
  /\ loop = "backoff" /\ loop' = "select"
  /\ UNCHANGED <<cur, resp, replayed, sessionVars, throttleVars, ctxVars,
                 handlerVars, historyVars, faults>>

\* ctx.Done, in the loop or in the back-off; the deferred clean-up.
Exit ==
  /\ loop \in {"select", "backoff"} /\ cancelled
  /\ CloseDevice
  /\ loop' = "exited"
  /\ UNCHANGED <<cur, resp, replayed, throttleVars, ctxVars, handlerVars,
                 historyVars, faults>>
-----------------------------------------------------------------------------
(* The environment. *)

SessionDies ==
  /\ dev = "alive" /\ dev' = "dead" /\ Fault
  /\ UNCHANGED <<loopVars, sessions, connected, throttleVars, ctxVars,
                 handlerVars, historyVars>>

CooldownExpires ==
  /\ cooling /\ cooling' = FALSE /\ attempts' = 0
  /\ UNCHANGED <<loopVars, sessionVars, lastFailed, ctxVars, handlerVars,
                 historyVars, faults>>

\* removeDevice cancels the actor alone; a signal cancels the daemon's
\* context, from which the actor's is derived.
Disconnect ==
  /\ ~cancelled /\ cancelled' = TRUE
  /\ UNCHANGED <<loopVars, sessionVars, throttleVars, shutdown, handlerVars,
                 historyVars, faults>>

Shutdown ==
  /\ ~shutdown /\ shutdown' = TRUE /\ cancelled' = TRUE
  /\ UNCHANGED <<loopVars, sessionVars, throttleVars, handlerVars,
                 historyVars, faults>>

\* Everything has been answered and the actor has ended.
Terminated ==
  /\ loop = "exited" /\ \A r \in Requests : pc[r] = "done"
  /\ UNCHANGED vars

HandlerOut(r) == SendTimeout(r) \/ ReplyTimeout(r) \/ ShutdownAnswer(r)
                   \/ TakeReply(r)

Work == Dispatch \/ Reply \/ ConnectOK \/ ConnectFails \/ Panic

Next ==
  \/ \E r \in Requests : Submit(r) \/ HandlerOut(r) \/ Receive(r)
  \/ Work \/ HealthCheck \/ Restart \/ Exit
  \/ SessionDies \/ CooldownExpires \/ Disconnect \/ Shutdown
  \/ Terminated

Spec == Init /\ [][Next]_vars

\* Timers fire, device methods return or panic (they are bounded by timeouts
\* of their own), the health ticker ticks, and select takes ctx.Done once the
\* requests that race it are over.
Fairness ==
  /\ \A r \in Requests : WF_vars(HandlerOut(r))
  /\ WF_vars(Work) /\ WF_vars(Restart) /\ WF_vars(CooldownExpires)
  /\ WF_vars(HealthCheck) /\ WF_vars(Exit)

FairSpec == Spec /\ Fairness
-----------------------------------------------------------------------------
TypeOK ==
  /\ loop \in {"select", "dispatch", "reply", "reconnectForRequest",
               "reconnectForHealth", "backoff", "exited"}
  /\ dev \in {"nil", "alive", "dead"}
  /\ sessions \in Nat /\ attempts \in Nat
  /\ cooling \in BOOLEAN /\ connected \in BOOLEAN /\ lastFailed \in BOOLEAN
  /\ cancelled \in BOOLEAN /\ shutdown \in BOOLEAN
  /\ cur \in Requests \union {NoRequest}
  /\ resp \in Responses \union {NoResponse}
  /\ replayed \in BOOLEAN
  /\ pc \in [Requests -> {"idle", "sending", "waiting", "done"}]
  /\ replyCh \in [Requests -> Responses \union {NoResponse}]
  /\ answer \in [Requests -> Answers]
  /\ delivered \in [Requests -> 0 .. 2]
  /\ firstResp \in [Requests -> Responses \union {NoResponse}]
  /\ faults \in 0 .. MaxFaults

(***************************************************************************)
(* The actor has exactly the session it holds: reconnects, panics and the  *)
(* end of the actor close what they replace, so that no session keeps its  *)
(* sockets and its server on the device (actor.go:132-168, 270-287).       *)
(***************************************************************************)
SessionsNotLeaked ==
  /\ sessions = IF dev = "nil" THEN 0 ELSE 1
  /\ loop = "exited" => sessions = 0

(***************************************************************************)
(* A client that is told "device actor busy" may safely send its request   *)
(* again: the actor will never perform it (server.go:250-267).             *)
(***************************************************************************)
BusyMeansUndelivered ==
  \A r \in Requests : answer[r] = "busy" => delivered[r] = 0

(***************************************************************************)
(* A request whose first dispatch timed out reaches the device once at the *)
(* most, however the session dies around it (actor.go:212-217).            *)
(***************************************************************************)
TimedOutCallNotReplayed ==
  \A r \in Requests : firstResp[r] = "deadline" => delivered[r] <= 1

(***************************************************************************)
(* Requests and health ticks together make one connect attempt per         *)
(* cooldown, so that a device that is down does not make every queued      *)
(* request pay for a connect (actor.go:62-66, 235-266).                    *)
(***************************************************************************)
OneAttemptPerCooldown == attempts <= 1

(***************************************************************************)
(* actor.go:62-66 and 70-72: "After a failed reconnect we refuse to retry  *)
(* for reconnectCooldown", "the minimum interval between reconnect         *)
(* attempts after a failure": a request that finds the session dead goes   *)
(* without a reconnect only if the latest attempt failed.  The code does   *)
(* not keep this (README.md, "Divergences").                               *)
(***************************************************************************)
ThrottledOnlyAfterFailure ==
  [][loop = "dispatch" /\ loop' = "reply" /\ Replayable(resp', dev')
       => lastFailed]_vars

(***************************************************************************)
(* A request that the actor has taken is answered on its channel, unless a *)
(* panic swallows it: the actor never waits for a handler that has given   *)
(* up, and so never keeps later requests waiting (actor.go:224,            *)
(* server.go:252).                                                         *)
(***************************************************************************)
TakenIsReplied ==
  \A r \in Requests : cur = r ~> (replyCh[r] # NoResponse \/ loop = "backoff")

(***************************************************************************)
(* A dead session is replaced, with or without requests, once the device   *)
(* stops failing (actor.go:255-266).                                       *)
(***************************************************************************)
SessionRecovers == Dead(dev) ~> (dev = "alive" \/ loop = "exited")
=============================================================================
