CONSTANTS
  Conns = {k1, k2}
  ExitIds = {e1}
  Direct = direct
  Clients = {}
  None = None
  Loop = Loop
  MayAge = FALSE
SPECIFICATION Spec
CHECK_DEADLOCK FALSE
INVARIANTS
  ServingIsListed
