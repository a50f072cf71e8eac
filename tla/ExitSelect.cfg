SPECIFICATION SelectSpec
CONSTANTS
  Numbers <- ThreeNumbers
  LocalExit = 1
  Capacities <- SomeCapacities
  Loads <- SomeLoads
  ConnectionLimit = 2
  AnyExit = AnyExit
  NoExit = NoExit
INVARIANTS SelectCorrect
