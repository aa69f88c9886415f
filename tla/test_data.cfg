SPECIFICATION Spec
CONSTANTS
  X = X
CHECK_DEADLOCK FALSE
INVARIANTS
  TypeOK
  NoFalseAlarm
  CpuIsReference
  ValuesTracked
