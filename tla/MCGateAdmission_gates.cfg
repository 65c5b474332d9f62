SPECIFICATION FairSpec
CONSTANTS
    r1 = r1
    r2 = r2
    Runs = {r1, r2}
    Gates <- Phases
    After <- Serial
    Resource <- Tests
    Leaving = {"unit", "browser", "lint"}
    Partitions = {"run", "test"}
    Limits <- Mixed
    MaxParallel = 1
    MaxFaults = 1
INVARIANTS TypeOK WorkIsAdmitted CapacityIsKept
PROPERTIES CancelSettles EveryRunEnds
CHECK_DEADLOCK FALSE
