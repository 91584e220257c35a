SPECIFICATION Spec
CONSTANTS
  Requests = {r1, r2}
  OptIns = {o1, o2}
  MaxEvents = 4
  OwnKeys = {k1}
  NewKeys = {k2}
  Sessions = {s1}
  Accounts = {a1}
  MaxTurns = 4
  MaxTotal = 5
INVARIANTS
  ConsentGiven
  ScoreMatchesPayload
  EnvComplete
  StarttlsOffered
  AlertOncePerOutage
PROPERTIES
  ShutdownEnds
  StreamCatchesUp
CHECK_DEADLOCK FALSE
