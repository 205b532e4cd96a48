------------------------------ MODULE MCParts ------------------------------
(***************************************************************************)
(* The parts that are small enough to share a run: the algorithms, the scid *)
(* allocator, text input, the UI socket, the supervisor and the client.     *)
(* They share no state; a behaviour is one part's, while the others stay     *)
(* as they were.                                                            *)
(***************************************************************************)
EXTENDS MCAlgorithms, ScidAllocator, TextInput, UiSocket, Supervisor, DaemonClient

VARIABLE part

partsVars == <<part, algVars, allocVars, textVars, uiVars, vars, clientVars>>

PartsInit ==
  /\ part \in {"algorithms", "allocator", "text", "socket", "supervisor", "client"}
  /\ IF part = "algorithms" THEN AlgInit
     ELSE call = [of |-> "none"] /\ returned = FALSE /\ answer = <<>>
  /\ AllocInit
  /\ TextInit /\ (part # "text" => installed)
  /\ UiInit
  /\ Init /\ (part # "supervisor" => daemon = "up")
  /\ ClientInit /\ (part # "client" => listening)

PartsNext ==
  /\ UNCHANGED part
  /\ \/ /\ part = "algorithms" /\ Compute
        /\ UNCHANGED <<allocVars, textVars, uiVars, vars, clientVars>>
     \/ /\ part = "algorithms" /\ returned /\ UNCHANGED partsVars
     \/ /\ part = "allocator" /\ AllocNext
        /\ UNCHANGED <<algVars, textVars, uiVars, vars, clientVars>>
     \/ /\ part = "text" /\ TextNext
        /\ UNCHANGED <<algVars, allocVars, uiVars, vars, clientVars>>
     \/ /\ part = "socket" /\ UiNext
        /\ UNCHANGED <<algVars, allocVars, textVars, vars, clientVars>>
     \/ /\ part = "supervisor" /\ Next
        /\ UNCHANGED <<algVars, allocVars, textVars, uiVars, clientVars>>
     \/ /\ part = "client" /\ ClientNext
        /\ UNCHANGED <<algVars, allocVars, textVars, uiVars, vars>>

PartsSpec == PartsInit /\ [][PartsNext]_partsVars /\ Fairness

\* The supervisor's promise, where it is the part that runs: every call of
\* EnsureRunning returns.
EnsureRunningReturns == part = "supervisor" => EveryCallReturns
=============================================================================
