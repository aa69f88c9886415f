SPECIFICATION Spec
CONSTANTS
  N = 16
  NReg = 4
  DataAddr <- MCDataAddr
  InitData <- MCInitData
  Programs <- JumpPrograms
  Vector = 10
  IntVector = 14
  X = X
  TextAddr = {4}
  IrqInput = {FALSE}
PROPERTIES
  TransfersTaken
