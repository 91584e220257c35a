SPECIFICATION FairSpec
CONSTANTS
  Providers = {p1, p2}
  MaxFaults = 2
INVARIANTS VerdictSound StreamFinal
PROPERTIES ResultsKept TestEnds StreamEnds
CHECK_DEADLOCK FALSE
