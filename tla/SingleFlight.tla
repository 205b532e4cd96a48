---------------------------- MODULE SingleFlight ----------------------------
(***************************************************************************)
(* What the supervisor promises its callers (internal/daemon/              *)
(* supervisor.go:135-141): concurrent calls share restarts, one runs at a  *)
(* time, each call starts at most one of its own, and every call returns.  *)
(***************************************************************************)
CONSTANTS Callers, None

VARIABLES
  running,  \* the caller whose restart is in progress, or None
  tried,    \* callers that have started a restart
  returned  \* callers whose call is over

vars == <<running, tried, returned>>

Init == running = None /\ tried = {} /\ returned = {}

Begin(c) ==
  /\ running = None /\ c \notin tried \union returned
  /\ running' = c /\ tried' = tried \union {c}
  /\ UNCHANGED returned

\* The restart ends; its caller returns with it, or looks again first.
End ==
  /\ running # None
  /\ running' = None
  /\ returned' \in {returned, returned \union {running}}
  /\ UNCHANGED tried

Return(c) ==
  /\ c # running /\ c \notin returned
  /\ returned' = returned \union {c}
  /\ UNCHANGED <<running, tried>>

Next == End \/ \E c \in Callers : Begin(c) \/ Return(c)

Spec == Init /\ [][Next]_vars

\* Every call returns, and no restart goes on for ever.
Fulfilled == <>(returned = Callers /\ running = None)
=============================================================================
