SPECIFICATION InputFairSpec
CONSTANTS
    Keys = {k1}
    Controllers = {r1, r2}
    Enders = {c1, c2}
    Loop = Loop
    MaxEvents = 3
    MaxSessions = 2
    Absent = Absent
INVARIANTS InputStopsAtEnd LatestWinsBetweenEnds
PROPERTIES HeldIsReleased
CHECK_DEADLOCK FALSE
