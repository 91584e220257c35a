SPECIFICATION Spec
CONSTANTS
  Callers = {c1, c2, c3}
  Window = 2
  MaxHits = 2
  MaxTime = 4
INVARIANT WindowBound
PROPERTY WaitSuffices
SYMMETRY Symm
