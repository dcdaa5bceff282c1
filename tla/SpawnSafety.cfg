CONSTANTS
  Sandboxes = {a, b}
  Host = host
  NeedsCgroup = {a, b}
  HangingHooks = {}
  Faults = {"signal", "eintr", "read", "Dup2", "Sethostname", "Mount", "Chdir", "Seccomp", "Hook"}
SPECIFICATION Spec
SYMMETRY MCSymmetry
INVARIANTS
  IndInv
  ConfinedBeforeSetup
  FailedSpawnLeavesNothing
  SetupFailureNeverMissed
PROPERTIES
  NothingRunsAfterError
CHECK_DEADLOCK FALSE
