SPECIFICATION LiveSpec
CONSTANTS
  W = 4
  Requests <- AllRequests
  Following <- SomeRequests
  Junk = {0, 15}
INVARIANTS
  TypeOK
  LoopInvariant
PROPERTIES
  ImplementsUnit
  ResultArrives
