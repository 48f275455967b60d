\* Three threads (or one, inline), up to four tasks, two calls.
CONSTANTS
    Requested = {0, 1, 3}
    Hardware = {0, 2}
    Masks = {0, 1}
    MaxThreads = 3
    MaxTasks = 4
    MaxCalls = 2
SPECIFICATION FairSpec
INVARIANTS TypeOK PhaseConfined JoinCounts NoThreadOutlivesPool
PROPERTIES ImplementsForkJoin EveryOperationReturns
