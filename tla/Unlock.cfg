SPECIFICATION FairSpec
CONSTANTS
    Peers = {p1, p2}
    Ops = {o1}
    Lifetimes = {1, 2}
    Grace = 1
    ThrottleAfter = 3
    ThrottleStep = 1
    ThrottleCeiling = 2
    MaxTime = 4
    Never = Never
    None = None
INVARIANTS
    KeyJustified
PROPERTIES
    ImplementsOwnedAccess
    TriesAreSpaced
    KeyIsWiped
