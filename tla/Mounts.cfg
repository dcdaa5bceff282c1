\* Two threads on one target, or one of them alone.
SPECIFICATION FairSpec
\* With the child gone and every handle dropped nothing is left to do.
CHECK_DEADLOCK FALSE
CONSTANTS
  Slots = {m1, m2}
  ReadOnly = {m1}
  Errnos = {1, 22}
  Pidfd = TRUE
INVARIANTS
  MountsBalanced
  PermissionApplied
  ErrorNamesCause
PROPERTY OperationEnds
