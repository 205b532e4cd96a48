CONSTANTS
  Calls <- MCCalls
  MaxClipboard = 4
  DefMaxElements = 3
  DefClientMaxElements = 2
  SummaryMax = 1
  DefaultScid = 2
  Window = 8
  HashMul = 3
  HashMod = 7
  PortBase = 100
  UiOffset = 2
  MaxIncidents = 3
  DialLimit = 2
  ReadLimit = 5
  FallbackLimit = 40
  ObserveWindow = 10
  FullWindow = 35
  MaxWire = 2
  HandOverLimit = 7
  ReplyLimit = 12
  ClientLimit = 18
  Callers = {c1, c2, c3}
  MaxFaults = 2
  None = None
SPECIFICATION PartsSpec
INVARIANTS
  CompactionKeepsTree
  TreeShowsEveryElement
  NothingMeaningfulHidden
  WrittenTextReadsBack
  ControlStreamInSync
  ConfigReachesDecoder
  DecodersCollapseThePath
  BoxesCoverText
  FastPathAgrees
  ListedIndexTaps
  VideoPortsDistinct
  NoPortLost
  NoBroadcastIntoDropWindow
  KeyboardGivenBack
  AnswersMatchRequests
  RequestSentOnce
PROPERTIES
  ImplementsSingleFlight
  EnsureRunningReturns
