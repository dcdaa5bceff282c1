CONSTANTS
  Sandboxes = {s1, s2}
  Limits = {"memory", "cpu", "pids"}
  Offered = {"memory", "pids"}
  MayFail = {"probe", "mkdir", "enable", "write", "attach"}
SPECIFICATION Spec
SYMMETRY MCSymmetry
INVARIANTS
  LimitsInv
  RootlessMemoryInForce
  StrictNeverDegraded
  DiagnosticsHonest
  NoOrphanCgroup
  NeighboursDoNoHarm
CHECK_DEADLOCK FALSE
