SPECIFICATION FairStubSpec
CONSTANTS
  Addrs = {0, 1}
  PollEvery = 3
INVARIANTS
  StubTypeOK
  AnswersFit
  AcksAreAcks
  BreaksHeld
PROPERTIES
  InterruptStops
  AnswerArrives
CHECK_DEADLOCK FALSE
