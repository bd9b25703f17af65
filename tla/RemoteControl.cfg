SPECIFICATION FairSpec
CONSTANTS
    Requests = {r1, r2}
    Killers = {u1}
    MaxDrops = 1
    None = None
INVARIANTS StoredMeansRecorded
PROPERTIES AnnouncementsEnd
CHECK_DEADLOCK FALSE
