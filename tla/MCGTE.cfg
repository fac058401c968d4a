SPECIFICATION GTESpec
CONSTANTS
  Word = 12
  Shift = 4
  Color = 3
  Screen = 4
  Rgb = 2
  Counter = 4
  Cycles <- MCCycles
  Backgrounds <- MCBackgrounds
  Writes <- MCWrites
  Instrs <- MCInstrs
  MaxSteps = 2
INVARIANTS GTETypeOK ContextSurvives
PROPERTIES ExactOrFlagged Saturated TripleIsThreeSingles
