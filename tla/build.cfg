SPECIFICATION Spec
CONSTANTS
  Scripts <- Some
  Slots = 2
  Gens <- AllGens
  Compiler <- CompilerOf
  WithData <- Data
INVARIANTS
  TypeOK
  SlotsKept
  CountsRight
  SuccessIsFresh
PROPERTIES
  Ends
