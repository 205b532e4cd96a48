CONSTANTS
  Requests = {r1, r2}
  MaxFaults = 2
SPECIFICATION FairSpec
INVARIANTS
  SessionsNotLeaked
  BusyMeansUndelivered
  TimedOutCallNotReplayed
  OneAttemptPerCooldown
PROPERTIES
  TakenIsReplied
  SessionRecovers
