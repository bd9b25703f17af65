SPECIFICATION Spec
CONSTANTS
    t1 = t1
    f1 = f1
    f2 = f2
    s1 = s1
    Ids = {t1}
    Files = {f1, f2}
    Slots = {s1}
    Paths = {f1, f2}
    PathOf <- OwnPath
    Attempts = {a1, a2}
    Streams = {r1, r2}
    StreamCount = 2
    MaxCrashes = 1
    Zero = Zero
    None = None
INVARIANTS FinalWhole OkMeansDelivered BitmapsAreSound SingleWriter
SYMMETRY Symmetry
CHECK_DEADLOCK FALSE
