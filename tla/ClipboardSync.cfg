SPECIFICATION FairSpec
CONSTANTS
    Devices = {a, b}
    Grain = 2
    Skew = 1
    MaxCopies = 2
    MaxMishaps = 1
    MaxLosses = 1
    MaxTime = 4
INVARIANTS TypeOK EchoesNeedMishaps EditsConverge
PROPERTIES ExchangeStops
CHECK_DEADLOCK FALSE
