SPECIFICATION MCSpec
CONSTANTS
  Mnemonics <- Op
  Regs = {0, 1}
  W = 12
  NReg = 4
  X = X
  MaxSteps = 2
  DataWord <- MCDataWord
  Code <- MCCode
  Start <- MCStart
  CpuMem <- MCCpuMem
  SimMem <- MCSimMem
  Target <- MCTarget
INVARIANTS
  OperandsAnnounced
