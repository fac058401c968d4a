SPECIFICATION FairCPUSpec
CONSTANTS
  Irqs = {}
  NumRegs = 2
  RA = 1
  WordSize = 4
  CounterSize = 3
  InitWords = {1}
  ExcVec <- MCExcVec
  Instrs <- MCInstrs
PROPERTIES
  WritesCancelLoads
