SPECIFICATION Spec
CONSTANT MaxDeviations = 1
INVARIANT UnansweredIsAnnounced
CHECK_DEADLOCK FALSE
