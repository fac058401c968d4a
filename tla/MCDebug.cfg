SPECIFICATION FairDebugSpec
CONSTANTS
  Program <- MCProgram
  ResetPc <- MCResetPc
  SideloadPc <- MCSideloadPc
  StartPc <- MCStartPc
  Vector <- MCVector
  UnitTime = 2
  Breaks <- MCBreaks
  Watches <- MCWatches
  Targets <- MCTargets
  PollEvery = 2
INVARIANT DebugTypeOK
PROPERTIES StopsWhereAsked StepsExecute InterruptEndsRun
