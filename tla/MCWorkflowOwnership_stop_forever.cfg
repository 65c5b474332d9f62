SPECIFICATION OperatorSpec
CONSTANTS
    Ops = {o1}
    Procs = {p1, p2}
    Recoverers = {r1}
    Stoppers = {s1}
    Editors = {}
    NoOp = NoOp
    NoProc = NoProc
    Commands = {"execute"}
    FirstLanes = {"refined"}
    MaxVersion = 2
    MaxFaults = 0
    CaptureMayFail = FALSE
PROPERTIES StopSettles
CHECK_DEADLOCK FALSE
