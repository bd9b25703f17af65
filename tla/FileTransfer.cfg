SPECIFICATION FairXferSpec
CONSTANTS
    t1 = t1
    f1 = f1
    p1 = p1
    Ids = {t1}
    Files = {f1}
    Slots = {s1, s2}
    Paths = {p1}
    PathOf <- OnePath
    Attempts = {a1, a2}
    Streams = {r1, r2}
    StreamCount = 1
    MaxCrashes = 0
    RetryUnanswered = FALSE
    MaxCalls = 2
    MaxDrops = 1
    MaxMishaps = 1
    Window = 1
    Zero = Zero
    None = None
INVARIANTS XferTypeOK
PROPERTIES ImplementsDelivery SendReturns
CHECK_DEADLOCK FALSE
