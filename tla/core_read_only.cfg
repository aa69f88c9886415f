SPECIFICATION Spec
CONSTANTS
  N = 16
  NReg = 4
  DataAddr <- MCDataAddr
  InitData <- MCInitData
  Programs <- ReadOnlyPrograms
  Vector = 10
  IntVector = 14
  X = X
  TextAddr = {}
  IrqInput = {FALSE}
PROPERTIES
  BadVAddrByException
