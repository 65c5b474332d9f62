SPECIFICATION Spec
CONSTANTS
    Callers = {c1, c2, c3}
    DeadClaims = {d1}
    DeadLocks = {d2}
    MaxCrashes = 0
SYMMETRY Interchangeable
INVARIANTS OneHolder
CHECK_DEADLOCK FALSE
