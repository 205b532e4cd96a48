CONSTANTS
  DefaultScid = 63
  Window = 256
  HashMul = 31
  HashMod = 100
  PortBase = 27183
  UiOffset = 10
SPECIFICATION AllocSpec
INVARIANT ForwardedPortsNeverCollide
