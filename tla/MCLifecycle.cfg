SPECIFICATION Spec
CONSTANTS
  E2EKeys = {k1}
  LegacyTokens = {t1}
  IPs = {ip1}
  Flags = {}
  Scores = {10}
  MailboxTTL = 1
  Retention = 1
  MaxTime = 3
  LastCreation = 3
  MaxMailboxes = 2
  MaxMessages = 1
  MaxFaults = 1
  Requests = {r1}
  MaxActivePerIP = 2
  MaxActiveGlobal = 2
  Workers = {w1}
  ProcessTimeout = 1
INVARIANTS TypeOK ReferentialIntegrity SealedForOwner ArrivalWindow CountersSound
PROPERTY RetentionHonoured
