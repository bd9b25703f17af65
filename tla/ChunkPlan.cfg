SPECIFICATION PlanSpec
CONSTANTS
    SizeLists <- Lists
    ChunkSizes = {2, 3}
    Senders = {s1, s2}
    NoChunk = NoChunk
INVARIANTS CutsAgree MissingSentOnce
SYMMETRY Symmetry
CHECK_DEADLOCK FALSE
