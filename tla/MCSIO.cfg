SPECIFICATION FairSIOSpec
CONSTANTS
  Irqs = {"CTRL"}
  Switches = {"none"}
  FifoCap = 2
  ExchDelay = 2
  AckDelay = 3
  CtrlWords <- MCCtrlWords
  StatWords <- MCStatWords
  MaxWrites = 4
INVARIANTS
  SIOTypeOK
  RingHoldsAnswers
  AnswersAnnounced
  ReportsInOrder
PROPERTIES
  AnswersInOrder
  InterruptAfterAnswer
  TransmitterRecovers
