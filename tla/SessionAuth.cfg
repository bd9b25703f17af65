SPECIFICATION FairSpec
CONSTANTS
    Caps = {files, remotefs}
    OwnedCaps = {remotefs}
    StreamCaps = {remotefs}
    Streams = {s1, s2}
    Purpose <- MCPurpose
    Ctrl = Ctrl
    HelloRecords <- MCRecords
    Negotiations <- MCNegotiations
    MaxPending = 1
    QueueDepth = 1
    Window = 0
    Skews = {0}
    MaxNow = 1
    MaxProofs = 2
    MaxMsgs = 2
    MaxChanges = 1
    MaxRepeats = 1
INVARIANTS SpentOnce StarvedByEvictionOnly
PROPERTIES EveryMessageSettles
CHECK_DEADLOCK FALSE
