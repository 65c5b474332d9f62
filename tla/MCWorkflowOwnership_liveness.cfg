SPECIFICATION OperatorSpec
CONSTANTS
    Ops = {o1}
    Procs = {p1, p2}
    Recoverers = {r1}
    Stoppers = {s1}
    Editors = {e1}
    NoOp = NoOp
    NoProc = NoProc
    Commands = {"execute","review","draft","merge"}
    FirstLanes = {"backlog", "refined", "active", "fixing", "review", "integration"}
    MaxVersion = 2
    MaxFaults = 1
    CaptureMayFail = FALSE
PROPERTIES AcceptedProgress OwnerLossNoticed StopSettlesAttributed
CHECK_DEADLOCK FALSE
