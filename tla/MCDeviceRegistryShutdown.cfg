CONSTANTS
  DefaultScid = 1
  Window = 3
  HashMul = 1
  HashMod = 2
  PortBase = 0
  UiOffset = 0
  Handlers = {h1, h2}
  Serials = {A, B}
  Actors = {a1, a2}
  Mutexes = {1, 2, 3, 4}
  Ops = {"bind", "cancel"}
  MaxFaults = 1
  None = None
SPECIFICATION FairSpec
PROPERTIES
  ShutdownCompletes
