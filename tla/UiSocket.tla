------------------------------- MODULE UiSocket -------------------------------
(***************************************************************************)
(* Readings of the screen over the session's one connection to the agent's *)
(* UI socket (internal/session/ui.go: getUIConn, dropUIConn, GetUISummary,  *)
(* GetUIFull; requests and answers in pkg/protocol/ui.go), made by the       *)
(* actor, or by the fetcher of an observe while the actor waits for it.      *)
(* Nothing ties an answer to its request but the order on the connection.    *)
(*                                                                         *)
(* The code limits every step; how long a fetcher has taken is kept in       *)
(* seconds, and a step takes no time or all it is given.                     *)
(***************************************************************************)
EXTENDS Naturals, Sequences

CONSTANTS
  DialLimit, ReadLimit,  \* of the dial, and of a request with its answer
  FallbackLimit,         \* uiFallbackBudget
  ObserveWindow,         \* observeTimeout and observeDrainGrace
  FullWindow,            \* observeFullTimeout and the same grace
  MaxWire                \* bound: requests and answers on a connection

ASSUME UiSocketAssumption ==
  {DialLimit, ReadLimit, FallbackLimit, ObserveWindow, FullWindow, MaxWire} \subseteq Nat

Readers == {"actor", "fetcher"}
\* One is the session's, another one that a reader still uses.
Conns == {1, 2}
Nil == 0

VARIABLES
  uiConn,    \* the connection that the session keeps, or Nil
  ended,     \* connections closed, by dropUIConn or by the agent
  asked,     \* whose requests the agent has not answered, by connection; a
             \* request that its reader has given up is "nobody"'s
  answers,   \* answers not yet read: whose, and whether they hold elements
  at,        \* where a reader is: "idle", "conn", "write", "read", "adb", "done"
  reads,     \* what it reads: "summary" or "full"
  try,       \* its attempt
  uses,      \* the connection it got
  got,       \* whose answer it returns, or ""
  spent,     \* seconds since an observe began
  observing, \* the actor waits for the fetcher
  left       \* what the fetchers were reading that an observe has given up

wire == <<ended, asked, answers>>
reader == <<at, reads, try, uses, got>>
uiVars == <<uiConn, wire, reader, spent, observing, left>>

UiInit ==
  /\ uiConn = Nil /\ ended = {}
  /\ asked = [c \in Conns |-> <<>>] /\ answers = [c \in Conns |-> <<>>]
  /\ at = [r \in Readers |-> "idle"]
  /\ reads = [r \in Readers |-> "summary"]
  /\ try = [r \in Readers |-> 1]
  /\ uses = [r \in Readers |-> Nil]
  /\ got = [r \in Readers |-> ""]
  /\ spent = 0 /\ observing = FALSE /\ left = {}

Go(r, place) == at' = [at EXCEPT ![r] = place]

\* Only the time of a fetcher that is waited for matters.
Takes(r, times) ==
  IF observing /\ r = "fetcher" THEN \E t \in times : spent' = spent + t
  ELSE UNCHANGED spent
-----------------------------------------------------------------------------
(* Calls.                                                                   *)

Begins(r, what) ==
  /\ at[r] = "idle" /\ Go(r, "conn")
  /\ reads' = [reads EXCEPT ![r] = what]
  /\ UNCHANGED <<uiConn, wire, try, uses, got, left>>

\* GetUISummary with its fallback, or GetUIFull.
GetUI(what) == ~observing /\ Begins("actor", what) /\ UNCHANGED <<spent, observing>>

\* Observe or ObserveFull.  The fetcher of an earlier one may still run, and
\* no second one is followed beside it.
ObserveUI(what) ==
  /\ ~observing /\ at["actor"] = "idle" /\ Begins("fetcher", what)
  /\ observing' = TRUE /\ spent' = 0

\* The handler's GetUIFull is not repeated; an observe repeats it.
Tries(r) == IF r = "actor" /\ reads[r] = "full" THEN 1 ELSE 2

\* An attempt fails, and its request, if it has been sent, is nobody's.
Fails(r) ==
  /\ uses' = [uses EXCEPT ![r] = Nil]
  /\ IF try[r] < Tries(r)
     THEN try' = [try EXCEPT ![r] = @ + 1] /\ Go(r, "conn")
     ELSE /\ try' = [try EXCEPT ![r] = 1]
          /\ Go(r, IF reads[r] = "summary" THEN "adb" ELSE "done")
  /\ UNCHANGED <<reads, got, observing, left>>

Returns(r) ==
  /\ at[r] = "done" /\ Go(r, "idle")
  /\ got' = [got EXCEPT ![r] = ""]
  /\ reads' = [reads EXCEPT ![r] = "summary"]
  /\ IF r = "fetcher" THEN observing' = FALSE /\ spent' = 0
     ELSE UNCHANGED <<observing, spent>>
  /\ UNCHANGED <<uiConn, wire, try, uses, left>>
-----------------------------------------------------------------------------
(* One attempt.                                                             *)

getUIConn(r) ==
  /\ at[r] = "conn"
  /\ \/ /\ uiConn # Nil
        /\ Go(r, "write") /\ uses' = [uses EXCEPT ![r] = uiConn]
        /\ UNCHANGED <<uiConn, wire, reads, try, got, spent, observing, left>>
     \/ /\ uiConn = Nil
        /\ Takes(r, {0, DialLimit})
        /\ \E c \in Conns \ {uses[q] : q \in Readers} :
             /\ uiConn' = c /\ Go(r, "write") /\ uses' = [uses EXCEPT ![r] = c]
             /\ ended' = ended \ {c}
             /\ asked' = [asked EXCEPT ![c] = <<>>]
             /\ answers' = [answers EXCEPT ![c] = <<>>]
        /\ UNCHANGED <<reads, try, got, observing, left>>
     \/ /\ uiConn = Nil
        /\ Takes(r, {0, DialLimit}) /\ Fails(r)
        /\ UNCHANGED <<uiConn, wire>>

WriteUIRequest(r) ==
  /\ at[r] = "write" /\ uses[r] \notin ended
  /\ Len(asked[uses[r]]) + Len(answers[uses[r]]) < MaxWire
  /\ asked' = [asked EXCEPT ![uses[r]] = Append(@, r)]
  /\ Go(r, "read")
  /\ UNCHANGED <<uiConn, ended, answers, reads, try, uses, got, spent, observing, left>>

\* The session's connection as it is by now, which need not be the caller's.
dropUIConn ==
  /\ uiConn' = Nil
  /\ ended' = ended \union ({uiConn} \ {Nil})

\* What r had asked for on its connection is still on its way.
GivenUp(r) ==
  /\ asked' = [c \in Conns |-> [i \in DOMAIN asked[c] |->
                 IF asked[c][i] = r THEN "nobody" ELSE asked[c][i]]]
  /\ answers' = [c \in Conns |-> [i \in DOMAIN answers[c] |->
                   IF answers[c][i].of = r THEN [answers[c][i] EXCEPT !.of = "nobody"]
                   ELSE answers[c][i]]]

\* A write or a read on a connection that has ended.
ConnectionFails(r) ==
  /\ at[r] \in {"write", "read"} /\ uses[r] \in ended
  /\ dropUIConn /\ GivenUp(r) /\ Fails(r)
  /\ UNCHANGED spent

\* Mutant: the connection is kept.
ReadTimesOut_ConnKept(r) ==
  /\ at[r] = "read"
  /\ Takes(r, {ReadLimit})
  /\ GivenUp(r) /\ Fails(r)
  /\ UNCHANGED <<uiConn, ended>>

ReadTimesOut(r) ==
  /\ at[r] = "read"
  /\ Takes(r, {ReadLimit})
  /\ dropUIConn /\ GivenUp(r) /\ Fails(r)

Readable(r) == at[r] = "read" /\ answers[uses[r]] # <<>>
TakesAnswer(r) == answers' = [answers EXCEPT ![uses[r]] = Tail(@)]

\* ReadUIDumpResponse, ReadUIFullResponse: whose answer it is cannot be told.
ReadAnswer(r) ==
  LET answer == Head(answers[uses[r]])
  IN /\ Readable(r) /\ answer.ok /\ TakesAnswer(r)
     /\ got' = [got EXCEPT ![r] = answer.of] /\ Go(r, "done")
     /\ uses' = [uses EXCEPT ![r] = Nil]
     /\ try' = [try EXCEPT ![r] = 1]
     /\ UNCHANGED <<uiConn, ended, asked, reads, spent, observing, left>>

\* The answer is an error: only a summary's reader drops the connection.
ReadError(r) ==
  /\ Readable(r) /\ ~Head(answers[uses[r]]).ok /\ TakesAnswer(r)
  /\ Takes(r, {0, ReadLimit})
  /\ IF reads[r] = "summary" THEN dropUIConn ELSE UNCHANGED <<uiConn, ended>>
  /\ Fails(r)
  /\ UNCHANGED asked

\* Two readers on one connection: each gets a part.
ReadGarbled(r) ==
  /\ Readable(r) /\ TakesAnswer(r)
  /\ \E q \in Readers \ {r} : at[q] = "read" /\ uses[q] = uses[r]
  /\ dropUIConn /\ Fails(r)
  /\ UNCHANGED <<asked, spent>>

\* GetUIElementsFallbackADB.
Fallback(r) ==
  /\ at[r] = "adb" /\ Go(r, "done") /\ Takes(r, {0, FallbackLimit})
  /\ UNCHANGED <<uiConn, wire, reads, try, uses, got, observing, left>>

(* The agent answers the requests of a connection in their order.           *)

AgentAnswers(c) ==
  /\ asked[c] # <<>> /\ c \notin ended
  /\ \E ok \in BOOLEAN :
       answers' = [answers EXCEPT ![c] = Append(@, [of |-> Head(asked[c]), ok |-> ok])]
  /\ asked' = [asked EXCEPT ![c] = Tail(@)]
  /\ UNCHANGED <<uiConn, ended, reader, spent, observing, left>>

AgentCloses(c) ==
  /\ c = uiConn /\ c \notin ended /\ ended' = ended \union {c}
  /\ UNCHANGED <<uiConn, asked, answers, reader, spent, observing, left>>
-----------------------------------------------------------------------------
\* The longest that the fetcher's step may take.
Limit == CASE at["fetcher"] = "conn" -> DialLimit
           [] at["fetcher"] \in {"write", "read"} -> ReadLimit
           [] at["fetcher"] = "adb" -> FallbackLimit
           [] OTHER -> 0

\* An observe's time and grace are up and its fetcher is not done.
ObserveGivesUp ==
  /\ observing
  /\ spent + Limit >
       (IF reads["fetcher"] = "summary" THEN ObserveWindow ELSE FullWindow)
  /\ observing' = FALSE /\ spent' = 0 /\ left' = left \union {reads["fetcher"]}
  /\ UNCHANGED <<uiConn, wire, reader>>

Read(r) ==
  \/ getUIConn(r) \/ WriteUIRequest(r) \/ ConnectionFails(r) \/ ReadTimesOut(r)
  \/ ReadAnswer(r) \/ ReadError(r) \/ ReadGarbled(r) \/ Fallback(r) \/ Returns(r)

UiNext ==
  \/ \E what \in {"summary", "full"} : GetUI(what) \/ ObserveUI(what)
  \/ \E r \in Readers : Read(r)
  \/ \E c \in Conns : AgentAnswers(c) \/ AgentCloses(c)
  \/ ObserveGivesUp

UiSpec == UiInit /\ [][UiNext]_uiVars
-----------------------------------------------------------------------------
(***************************************************************************)
(* A reading returns what the device answered to this reading, whatever    *)
(* timed out or failed before it on the connection that is kept, as long as *)
(* no observe gave up on its fetcher; and only the flat observe ever does,  *)
(* ObserveFull waits longer than its fetcher can take (ui.go:41-46,         *)
(* observe_full.go:66-69).                                                 *)
(***************************************************************************)
AnswersMatchRequests ==
  /\ left \subseteq {"summary"}
  /\ left = {} => \A r \in Readers : got[r] \in {"", r}

(***************************************************************************)
(* control.go:323-327: the fetchers of an observe are bounded, "so 5s is   *)
(* always enough to drain".  The code does not keep this (README.md,       *)
(* "Divergences").                                                         *)
(***************************************************************************)
DrainIsEnough == left = {}
=============================================================================
