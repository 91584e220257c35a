SPECIFICATION Spec
CONSTANT MaxDeviations = 2
INVARIANTS PerfectIsEarned LabelIsHonest SilenceIsNotEvidence OutageIsAnnounced CleanIsAnswered BulkNotExcused
 
CHECK_DEADLOCK FALSE
