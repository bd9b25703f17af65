SPECIFICATION MirrorFairSpec
CONSTANTS
    MaxRequests = 3
    MaxSessions = 2
INVARIANTS MirrorTypeOK CapturesAreAnnounced
PROPERTIES CapturesEnd
CHECK_DEADLOCK FALSE
