CONSTANTS
  StdinLen = 2
  OutLen = 2
  PipeCap = 1
SPECIFICATION FairSpec
PROPERTY LimitEndsRun
CHECK_DEADLOCK FALSE
