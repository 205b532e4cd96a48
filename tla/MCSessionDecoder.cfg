CONSTANTS
  FreshWindow = 1
  InFlight = 1
  MinInterval = 2
  StaleCap = 1
SPECIFICATION Spec
INVARIANT DecoderStays
