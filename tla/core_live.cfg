SPECIFICATION LiveSpec
CONSTANTS
  N = 16
  NReg = 4
  DataAddr <- MCDataAddr
  InitData <- MCInitData
  Programs <- LivePrograms
  Vector = 10
  IntVector = 14
  X = X
  TextAddr = {}
  IrqInput = {FALSE, TRUE}
PROPERTIES
  Progress
  InterruptServed
  CoreImplementsIsa
  AcceptedIsTaken
