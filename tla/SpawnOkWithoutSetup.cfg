CONSTANTS
  Sandboxes = {a}
  Host = host
  NeedsCgroup = {}
  HangingHooks = {}
  Faults = {"signal", "Dup2", "Sethostname", "Mount", "Chdir", "Seccomp", "Hook"}
SPECIFICATION Spec
INVARIANT OkMeansSetupCompleted
CHECK_DEADLOCK FALSE
