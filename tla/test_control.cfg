SPECIFICATION Spec
CONSTANTS
  X = X
CHECK_DEADLOCK FALSE
INVARIANTS
  TypeOK
  AlarmsExplained
  CpuIsReference
  MarksReached
  FramesIntact
  CountForeseen
  HandlersReturn
