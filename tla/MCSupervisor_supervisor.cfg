SPECIFICATION Spec
CONSTANTS
    s1 = s1
    s2 = s2
    Sups = {s1, s2}
    Reasons = {"block"}
    Blockers = {"block"}
    OperatorOnly = {}
    FirstLanes = {"review"}
    Budget = 1
    ActionAttempts = 2
    ReadAttempts = 2
    MaxInvocations = 1
    MaxVersion = 1
    MaxFaults = 1
SYMMETRY Interchangeable
INVARIANTS TypeOK OneRecoveryAgent ClaimHasStep
PROPERTIES LaunchIsJudged BudgetIsKept
CHECK_DEADLOCK FALSE
