-------------------------- MODULE MCDeviceRegistry --------------------------
(***************************************************************************)
(* Instances of DeviceRegistry for TLC.  Handlers, actors and serials are  *)
(* interchangeable: no definition orders them.                             *)
(***************************************************************************)
EXTENDS DeviceRegistry, TLC

Symmetry == Permutations(Handlers) \union Permutations(Actors)
              \union Permutations(Serials)
=============================================================================
