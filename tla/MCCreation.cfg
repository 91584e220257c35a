SPECIFICATION FairSpec
CONSTANTS
  E2EKeys = {k1}
  LegacyTokens = {t1,t2}
  IPs = {ip1}
  Flags = {}
  Scores = {10}
  MailboxTTL = 1
  Retention = 1
  MaxTime = 3
  LastCreation = 0
  MaxMailboxes = 3
  MaxMessages = 0
  MaxFaults = 1
  Requests = {r1,r2}
  MaxActivePerIP = 1
  MaxActiveGlobal = 2
  Workers = {}
  ProcessTimeout = 1
INVARIANT LimitOvershoot
PROPERTY MailboxesPurged
