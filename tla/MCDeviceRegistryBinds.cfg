CONSTANTS
  DefaultScid = 1
  Window = 3
  HashMul = 1
  HashMod = 2
  PortBase = 0
  UiOffset = 0
  Handlers = {h1, h2, h3}
  Serials = {A, B, C}
  Actors = {a1, a2, a3}
  Mutexes = {1, 2, 3, 4, 5, 6}
  Ops = {"bind", "cancel"}
  MaxFaults = 1
  None = None
SPECIFICATION Spec
SYMMETRY Symmetry
INVARIANTS
  OneConnectPerSerial
  RegisteredStaysConnected
