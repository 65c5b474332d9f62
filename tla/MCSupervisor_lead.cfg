SPECIFICATION FairSpec
CONSTANTS
    s1 = s1
    s2 = s2
    Sups = {s1}
    Reasons = {"block", "gate"}
    Blockers = {"block"}
    OperatorOnly = {}
    FirstLanes = {"active", "integration"}
    Budget = 2
    ActionAttempts = 2
    ReadAttempts = 2
    MaxInvocations = 2
    MaxVersion = 2
    MaxFaults = 1
PROPERTIES StuckIsSettled
CHECK_DEADLOCK FALSE
