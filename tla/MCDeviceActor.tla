--------------------------- MODULE MCDeviceActor ---------------------------
(* Instances of DeviceActor for TLC; requests are interchangeable. *)
EXTENDS DeviceActor, TLC

Symmetry == Permutations(Requests)
=============================================================================
