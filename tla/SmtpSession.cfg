SPECIFICATION FairSpec
CONSTANTS
  Boxes = {b1, b2}
  TLSConfig = TRUE
  MaxRcpts = 2
  ReadAhead = 2
INVARIANT TypeOK
PROPERTIES ImplementsTransaction SessionEnds
CHECK_DEADLOCK FALSE
