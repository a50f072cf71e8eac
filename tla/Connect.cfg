CONSTANTS
  Peers = {"e", "c", "x"}
  Exits = {"e"}
  Ignorant = {"x"}
  Host <- HostsUsed
  Slots <- SlotsUsed
  NoConn = NoConn
  ConnectionLimit = 1
  FailLimit = 2
  Window = 4
  BlockFor = 2
  Loads <- Mix
SPECIFICATION FairSpec
CHECK_DEADLOCK FALSE
INVARIANTS
  LimitOvershoot
  TrustBeforeSecret
  TrustDurable
PROPERTIES
  
  ExitComesBack
  
