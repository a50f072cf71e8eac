CONSTANTS
  a1 = a1
  a2 = a2
  Conns = {a1, a2}
  Drain = TRUE
  Loads <- OneOrTwo
SPECIFICATION FairSpec
CHECK_DEADLOCK FALSE
INVARIANTS
  ActiveCounts
  DrainSparesStreams
  UploadIntact
PROPERTIES
  ResponseSurvivesHalfClose
  EndIsPassedOn
