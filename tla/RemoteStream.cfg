SPECIFICATION Spec
CONSTANTS
    Versions = {1, 2}
    Blocks = {0, 1}
    Weight <- MCWeight
    CacheMax = 2
    Callers = {c1, c2}
    Twins = {1, 2}
    Windows = {1, 2}
    Parallel = 1
    MaxOpens = 2
    MaxReads = 2
SYMMETRY CallerSymmetry
INVARIANTS TypeOK CapHolds SeeksSpareReads NeverStaler
CHECK_DEADLOCK FALSE
