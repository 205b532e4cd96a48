---------------------------- MODULE MCDaemonFiles ----------------------------
(* Instances of DaemonFiles for TLC; in the runs without liveness, daemons  *)
(* and commands are interchangeable.                                        *)
EXTENDS DaemonFiles, TLC

Symmetry == Permutations(Daemons) \union Permutations(Supervisors)
=============================================================================
