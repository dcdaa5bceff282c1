CONSTANTS
  StdinLen = 2
  OutLen = 3
  PipeCap = 2
SPECIFICATION FairSpec
INVARIANTS
  RunInv
  CollectsEverything
  TimeoutIsReported
PROPERTIES
  LimitEndsRun
  DeathEndsWait
  BlockedWriterGoesOn
CHECK_DEADLOCK FALSE
