SPECIFICATION FairSpec
CONSTANTS
    A = a
    B = b
    Devices = {a, b}
    MaxDials = 3
    MaxDrops = 1
    Interval = 1
    Timeout = 2
    IdleTimeout = 5
    Cooldown = 1
    MaxMoves = 1
    MaxPunches = 1
INVARIANTS TypeOK OutlivesAMove
PROPERTIES ReachesAgain RoutesComeInPairs
CHECK_DEADLOCK FALSE
