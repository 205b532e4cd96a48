-------------------------- MODULE MCScidAllocator --------------------------
(***************************************************************************)
(* Instances of ScidAllocator for TLC.  The small one keeps what matters   *)
(* of the program's numbers: the multiplier is coprime to the modulus, and *)
(* the window is longer than one period of the hash, so that the scan      *)
(* meets ports already taken before it is exhausted.                       *)
(***************************************************************************)
EXTENDS ScidAllocator
=============================================================================
