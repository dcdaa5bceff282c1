CONSTANTS
  Handles = {h1}
  Pids = {p1}
SPECIFICATION Spec
INVARIANT OnlyOwnKilled
CHECK_DEADLOCK FALSE
