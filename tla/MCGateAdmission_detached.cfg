SPECIFICATION Spec
CONSTANTS
    r1 = r1
    r2 = r2
    Runs = {r1, r2}
    Gates <- Phases
    After <- Free
    Resource <- Tests
    Leaving = {"unit", "browser", "lint"}
    Partitions = {"run", "test"}
    Limits <- Separate
    MaxParallel = 1
    MaxFaults = 1
INVARIANT WholeRunsSettle
CHECK_DEADLOCK FALSE
