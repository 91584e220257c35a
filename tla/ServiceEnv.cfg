SPECIFICATION Spec
CONSTANTS
  Requests = {r1, r2}
  OptIns = {o1, o2}
  MaxEvents = 4
  OwnKeys = {k1}
  NewKeys = {k2}
  Sessions = {s1}
  Accounts = {a1}
  MaxTurns = 4
  MaxTotal = 3
INVARIANT
  EnvValuesKept
CHECK_DEADLOCK FALSE
