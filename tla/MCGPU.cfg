SPECIFICATION GPUSpec
CONSTANTS
  Irqs = {"VBLANK"}
  FifoCap = 2
  FramePeriod = 3
  ClkSize = 4
  Words <- MCWords
INVARIANTS
  GPUTypeOK
  StoresSeeParser
  ParserOK
  BlankInTime
PROPERTIES
  ImplementsCommands
