SPECIFICATION Spec
CONSTANTS
  E2EKeys = {k1}
  LegacyTokens = {}
  IPs = {ip1}
  Flags = {}
  Scores = {10}
  MailboxTTL = 1
  Retention = 3
  MaxTime = 3
  LastCreation = 3
  MaxMailboxes = 3
  MaxMessages = 0
  MaxFaults = 0
  Requests = {r1,r2}
  MaxActivePerIP = 2
  MaxActiveGlobal = 2
  Workers = {}
  ProcessTimeout = 1
PROPERTY OnlyExpiredReplaced
