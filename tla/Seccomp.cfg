CONSTANTS
  Standard = {2, 3, 5}
  Blocked = {1, 3}
  Exit = 2
  ExitGroup = 5
  Numbers = {1, 2, 3, 4, 5}
  MaxJump = 4
  MaxInsns = 4096
  MaxOps = 2
SPECIFICATION Spec
INVARIANTS
  FilterMeansRules
  RefusedWithReason
CHECK_DEADLOCK FALSE
