CONSTANTS
  Ids = {1}
  BufferSize = 1
  IncomingSize = 1
  Loads <- OnlyOneWay
SPECIFICATION FairSpec
CHECK_DEADLOCK FALSE
PROPERTIES
  ImplementsPipes
  OpenReturns
  HalfCloseEndsReader
  ShutdownEndsReaders
