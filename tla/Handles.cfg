CONSTANTS
  Handles = {h1, h2}
  Pids = {p1, p2}
SPECIFICATION FairSpec
INVARIANTS
  HandleInv
  StatusIsOwn
  GoneNeverRuns
  NoSilentLeak
PROPERTIES
  DetachSurvives
  DropEnds
CHECK_DEADLOCK FALSE
