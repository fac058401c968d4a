SPECIFICATION FairSockSpec
CONSTANTS
  BufSz = 4
  Chars = {"a", "#"}
  Delim = "#"
  Sizes = {2, 3, 4}
  MaxSock = 3
INVARIANTS
  SockTypeOK
  SegmentIsFree
PROPERTIES
  ImplementsStream
  DelimiterIsFound
