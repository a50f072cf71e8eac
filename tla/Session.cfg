CONSTANTS
  Ids = {1, 2}
  BufferSize = 1
  IncomingSize = 1
  Loads <- FaultsAndTwo
SPECIFICATION Spec
CHECK_DEADLOCK FALSE
INVARIANTS
  StreamIntegrity
  EOFIntegrity
  OpenImpliesAccepted
  ShutdownClosesAll
  EndsOnlyForCause
