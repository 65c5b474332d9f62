SPECIFICATION FairSpec
CONSTANTS
    Callers = {c1, c2, c3}
    DeadClaims = {d1}
    DeadLocks = {d2}
    MaxCrashes = 1
INVARIANTS TypeOK
PROPERTIES HolderOnDisk ClaimSpec SomeoneSucceeds
CONSTRAINT Uncrowded
CHECK_DEADLOCK FALSE
