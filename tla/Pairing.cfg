SPECIFICATION FairSpec
CONSTANTS
    Shower = shower
    Scanner = scanner
    Daemons = {shower}
    InitialLevels = {"absent"}
    MaxSessions = 2
    MaxDecisions = 1
INVARIANTS EndsAlike UndoneByOverlapOnly
PROPERTIES ImplementsMutualConsent DoorShuts
CHECK_DEADLOCK FALSE
