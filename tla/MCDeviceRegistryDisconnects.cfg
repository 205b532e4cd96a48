CONSTANTS
  DefaultScid = 1
  Window = 3
  HashMul = 1
  HashMod = 2
  PortBase = 0
  UiOffset = 0
  Handlers = {h1, h2}
  Serials = {A}
  Actors = {a1, a2, a3}
  Mutexes = {1, 2, 3}
  Ops = {"bind", "disconnect", "cancel"}
  MaxFaults = 1
  None = None
SPECIFICATION Spec
SYMMETRY Symmetry
INVARIANTS
  ScidOwnership
  NoLostActor
  StoppedLeavesNoServer
