CONSTANTS
  Sandboxes = {a, b}
  Host = host
  NeedsCgroup = {}
  HangingHooks = {b}
  Faults = {"crash", "Mount"}
SPECIFICATION FairSpec
PROPERTIES
  SpawnReturns
  OrphanExits
  ImplementsLifecycle
CHECK_DEADLOCK FALSE
