SPECIFICATION Spec
CONSTANTS
  N = 16
  NReg = 4
  DataAddr <- MCDataAddr
  InitData <- MCInitData
  Programs <- AllPrograms
  Vector = 10
  IntVector = 14
  X = X
  TextAddr = {4}
  IrqInput = {FALSE}
INVARIANTS
  TypeOK
  LoadNotForwarded
  PreciseException
PROPERTIES
  CoreImplementsIsa
  StoreOnce
  OperandsStable
  TransfersTaken
