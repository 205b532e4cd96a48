----------------------------- MODULE DaemonClient -----------------------------
(***************************************************************************)
(* One Client.Call against the daemon (internal/daemon/client.go: Call,     *)
(* callOnce), and the handler that serves it (handleConn in server.go) as   *)
(* far as the call can tell: the actor dispatches the request, once more    *)
(* when the device's session died under it, and the handler answers within   *)
(* limits of its own, while the daemon may die, be restarted by somebody     *)
(* else, or hide behind a socket that does not dial.                         *)
(*                                                                         *)
(* Times are in steps of five seconds; a wait takes no time or all it may.   *)
(***************************************************************************)
EXTENDS Integers

CONSTANTS
  HandOverLimit,  \* actorSendTimeout
  ReplyLimit,     \* actorReplyTimeout
  ClientLimit     \* Client.timeout

ASSUME ClientAssumption == {HandOverLimit, ReplyLimit, ClientLimit} \subseteq Nat

VARIABLES
  listening,  \* a daemon is
  stage,      \* the call: "idle", "dial", "write", "wait", "ensure", "done"
  tries,      \* callOnce has begun so often
  outcome,    \* "none", "answer", "error", "gaveUp", "unreachable"
  handler,    \* "none", "bind", "send", "reply", "answered"
  waited,     \* since the call has been waiting for the answer
  actor,      \* of the request: "none", "taken", "replay", "finished"
  sent,       \* how often the call has written its request
  performed,  \* how often a device has performed it
  replayed    \* the actor has dispatched it again

serving == <<handler, waited, actor>>
effects == <<performed, replayed>>
clientVars == <<listening, stage, tries, outcome, serving, sent, effects>>

ClientInit ==
  /\ listening \in BOOLEAN /\ stage = "idle" /\ tries = 0 /\ outcome = "none"
  /\ handler = "none" /\ waited = 0 /\ actor = "none"
  /\ sent = 0 /\ performed = 0 /\ replayed = FALSE

Ends(how) == stage' = "done" /\ outcome' = how
-----------------------------------------------------------------------------
(* Call.                                                                    *)

\* What the handler of an earlier call still does is not followed.
Call ==
  /\ stage \in {"idle", "done"} /\ handler = "none" /\ actor \notin {"taken", "replay"}
  /\ stage' = "dial" /\ tries' = 1 /\ outcome' = "none"
  /\ actor' = "none" /\ sent' = 0 /\ performed' = 0 /\ replayed' = FALSE
  /\ UNCHANGED <<listening, handler, waited>>

\* The dial also fails when the daemon's socket has lost its name, or does
\* not accept in time.
Dial ==
  /\ stage = "dial"
  /\ \/ listening /\ stage' = "write" /\ UNCHANGED outcome
     \/ tries = 1 /\ stage' = "ensure" /\ UNCHANGED outcome
     \/ tries = 2 /\ Ends("unreachable")
  /\ UNCHANGED <<listening, tries, serving, sent, effects>>

\* The ensurer has found a daemon, or started one, or says why it has not.
\* One that it found may be gone by now.
Ensured ==
  /\ stage = "ensure"
  /\ \/ stage' = "dial" /\ tries' = 2 /\ UNCHANGED outcome
     \/ Ends("unreachable") /\ UNCHANGED tries
  /\ UNCHANGED <<listening, serving, sent, effects>>

WriteRequest ==
  /\ stage = "write" /\ listening
  /\ stage' = "wait" /\ handler' = "bind" /\ waited' = 0
  /\ sent' = sent + 1
  /\ UNCHANGED <<listening, tries, outcome, actor, effects>>

\* Mutant: any failure of the connection is worth a restart and a retry.
ConnectionLost_Retried ==
  /\ stage \in {"write", "wait"} /\ ~listening
  /\ IF tries = 1 THEN stage' = "ensure" /\ UNCHANGED outcome ELSE Ends("error")
  /\ UNCHANGED <<listening, tries, serving, sent, effects>>

\* A write or a read on the connection of a daemon that has died: returned as
\* it is.
ConnectionLost ==
  /\ stage \in {"write", "wait"} /\ ~listening
  /\ Ends("error")
  /\ UNCHANGED <<listening, tries, serving, sent, effects>>

ReadResponse ==
  /\ stage = "wait" /\ handler = "answered" /\ waited <= ClientLimit
  /\ Ends("answer") /\ handler' = "none" /\ waited' = 0
  /\ UNCHANGED <<listening, tries, actor, sent, effects>>

\* The read deadline: the handler goes on.
ReadDeadline ==
  /\ stage = "wait" /\ waited >= ClientLimit
  /\ Ends("gaveUp")
  /\ UNCHANGED <<listening, tries, serving, sent, effects>>
-----------------------------------------------------------------------------
(* handleConn, and the actor at the other end.                              *)

Waits(limit, full) ==
  waited' = IF stage = "wait" THEN waited + (IF full THEN limit ELSE 0) ELSE waited

HandlerFrame == UNCHANGED <<listening, stage, tries, outcome, sent, effects>>

\* An actor for the device, or an error instead.
Bind ==
  /\ handler = "bind" /\ handler' \in {"send", "answered"}
  /\ UNCHANGED <<waited, actor>> /\ HandlerFrame

HandOver ==
  /\ handler = "send"
  /\ \E full \in BOOLEAN : Waits(HandOverLimit, full)
  /\ \/ handler' = "reply" /\ actor' = "taken"
     \/ handler' = "answered" /\ UNCHANGED actor
  /\ HandlerFrame

\* A dispatch performs the request or fails before that, and may fail after it.
Dispatched == performed' \in {performed, performed + 1}

ActorFrame == UNCHANGED <<listening, stage, tries, outcome, handler, waited, sent>>

\* The first dispatch, whether or not anybody still waits for it.  It is to be
\* replayed after an error, not a deadline's, that finds the session dead.
Perform ==
  /\ actor = "taken" /\ actor' \in {"replay", "finished"}
  /\ Dispatched /\ UNCHANGED replayed /\ ActorFrame

\* The reconnect is throttled, or fails, or the request goes out once more.
Replay ==
  /\ actor = "replay" /\ actor' = "finished"
  /\ \/ UNCHANGED effects
     \/ Dispatched /\ replayed' = TRUE
  /\ ActorFrame

\* The actor's answer, or "request timed out".
Answer ==
  /\ handler = "reply"
  /\ \/ Waits(ReplyLimit, TRUE)
     \/ actor = "finished" /\ Waits(ReplyLimit, FALSE)
  /\ handler' = "answered" /\ UNCHANGED actor /\ HandlerFrame

\* To a client that has gone.
AnswerLost ==
  /\ handler = "answered" /\ stage # "wait"
  /\ handler' = "none" /\ waited' = 0
  /\ UNCHANGED actor /\ HandlerFrame

DaemonDies ==
  /\ listening /\ listening' = FALSE
  /\ handler' = "none" /\ waited' = 0
  /\ actor' = IF actor \in {"taken", "replay"} THEN "none" ELSE actor
  /\ UNCHANGED <<stage, tries, outcome, sent, effects>>

\* By this call's ensurer or by another process.  A connection to the one
\* before stays lost.
DaemonStarts ==
  /\ ~listening /\ stage \notin {"write", "wait"} /\ listening' = TRUE
  /\ UNCHANGED <<stage, tries, outcome, serving, sent, effects>>

ClientNext ==
  \/ Call \/ Dial \/ Ensured \/ WriteRequest \/ ConnectionLost \/ ReadResponse \/ ReadDeadline
  \/ Bind \/ HandOver \/ Perform \/ Replay \/ Answer \/ AnswerLost
  \/ DaemonDies \/ DaemonStarts

ClientSpec == ClientInit /\ [][ClientNext]_clientVars
-----------------------------------------------------------------------------
(***************************************************************************)
(* However daemons die and are restarted around it, a call sends its        *)
(* request once at the most: the retry after a restart never repeats what   *)
(* a daemon may have read (client.go:85-106).  Whatever is performed twice   *)
(* was replayed by the actor (actor.go:212-219), and no more often; and a    *)
(* caller that is told that there is no daemon, or gets the restart's        *)
(* error, may repeat the call: nothing has reached a device.                 *)
(***************************************************************************)
RequestSentOnce ==
  /\ sent <= 1
  /\ performed <= IF replayed THEN 2 ELSE 1
  /\ outcome = "unreachable" => sent = 0 /\ performed = 0

(***************************************************************************)
(* client.go:65-70: "the client must wait for that answer rather than give  *)
(* up first": who gives up has waited for a daemon that is not about to     *)
(* answer.  The code does not keep this (README.md, "Divergences").         *)
(***************************************************************************)
DaemonAnswersFirst == outcome = "gaveUp" => handler = "none"
=============================================================================
