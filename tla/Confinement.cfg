SPECIFICATION Spec
CONSTANTS
  Paths <- MCPaths
  Files <- MCFiles
  HostMounts <- MCHostMounts
  Rootfs <- MCRootfs
  Missing <- MCMissing
  KernelABIs = {0, 2, 3, 6}
  Mounts <- MCMounts
  Binds <- MCBinds
  Overlays <- MCOverlays
  Decisions <- MCDecisions
  ProcDir <- MCProc
  MaxOps = 5
INVARIANTS
  ViewMeansConfig
  DomainMeansDecision
  AbortHasCause
PROPERTY
  HostUntouched
CHECK_DEADLOCK FALSE
