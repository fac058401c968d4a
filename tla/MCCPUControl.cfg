SPECIFICATION FairCPUSpec
CONSTANTS
  Irqs = {"CTRL"}
  NumRegs = 2
  RA = 1
  WordSize = 12
  CounterSize = 3
  InitWords = {6}
  ExcVec <- MCExcVec
  Instrs <- MCInstrs
INVARIANTS
  SlotsOK
PROPERTIES
  RestartsAtBranch
  InterruptServed
  ProgramAdvances
