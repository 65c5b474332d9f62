SPECIFICATION Spec
CONSTANTS
    Ops = {o1, o2}
    Procs = {p1, p2, p3}
    Recoverers = {r1}
    Stoppers = {s1}
    Editors = {}
    NoOp = NoOp
    NoProc = NoProc
    Commands = {"execute"}
    FirstLanes = {"refined"}
    MaxVersion = 3
    MaxFaults = 1
    CaptureMayFail = FALSE
SYMMETRY Interchangeable
INVARIANTS TypeOK OneOpenOperation OneWriter SettledIsQuiet OneAgent
PROPERTIES SettledIsFinal UndoOnlyOwnActivation LeaseSpec
CHECK_DEADLOCK FALSE
