SPECIFICATION FairSpec
CONSTANTS
  Sessions = {s1, s2, s3, s4}
  Shell = Shell
  NoSession = NoSession
  MaxAttempts = 6
  MaxCommands = 2
  MayClose = TRUE
  MayRefuse = TRUE
INVARIANTS StateTruthful NoLeakedSession
PROPERTIES   LostIsReplaced
CHECK_DEADLOCK FALSE
