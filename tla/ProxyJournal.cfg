SPECIFICATION FairSpec
CONSTANTS
  Address <- TwoAddresses
  Desktops = {"windows", "kde", "gnome"}
  Configs <- SomeConfigs
  MayBeHeadless = TRUE
  NoJournal = NoJournal
  MayCrash = TRUE
  MaySignal = TRUE
  MayFail = {"apply", "restore"}
  MaxChanges = 1
INVARIANTS TypeOK JournalHasOriginal GracefulExitRestores
  
CHECK_DEADLOCK FALSE
