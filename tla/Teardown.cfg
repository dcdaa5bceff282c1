SPECIFICATION Spec
CONSTANTS
  Procs = {p1, p2, p3}
  Root = p1
  Client = p2
  Rounds = 2
  Conns = {x1}
  Requests <- MCRequests
  Allowed <- MCAllowed
  EndsWith <- MCEndsWith
INVARIANTS
  EscapeHasCause
  TunnelsCut
PROPERTIES
  RequestEnds
  DropReturns
CHECK_DEADLOCK FALSE
