CONSTANTS
  Conns = {k1, k2}
  ExitIds = {e1}
  Direct = direct
  Clients = {c1}
  None = None
  Loop = Loop
  MayAge = TRUE
SPECIFICATION FairSpecHistory
CHECK_DEADLOCK FALSE
INVARIANTS
  NoDanglingRoute
  OneLiveExitPerID
  NoGhostExit
  DirectAlwaysListed
  CatalogConverges

  
