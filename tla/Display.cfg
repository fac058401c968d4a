SPECIFICATION FairDisplaySpec
CONSTANTS
  MaxDraws = 6
INVARIANT
  PicturesShown
PROPERTIES
  DrawingsShown
CHECK_DEADLOCK FALSE
