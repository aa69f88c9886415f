SPECIFICATION MCSpec
CONSTANTS
  Programs <- MCPrograms
  MaxPulses = 2
  MaxSoft = 1
INVARIANTS
  TypesOK
  ArgumentsArrive
  ClockCounted
PROPERTIES
  ContextRestored
  ImplementsChannel
  InterruptsRecorded
