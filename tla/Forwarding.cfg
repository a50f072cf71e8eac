SPECIFICATION FairSpec
CONSTANTS
  c1 = c1
  c2 = c2
  d1 = d1
  d2 = d2
  e1 = e1
  Clients = {c1, c2}
  Dials = {d1, d2}
  Client <- OneClient
  Exits = {e1}
  Direct = direct
  AnyExit = auto
  Want <- ExitAndAny
  Fallback = {d1}
  MayCancel = {d2}
INVARIANTS NoCrossTalk OpenHasPath
 
CHECK_DEADLOCK FALSE
