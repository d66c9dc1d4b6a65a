CONSTANTS
    a = a
    b = b
    c = c
    idle = idle
    Tasks <- MCTasks
    Idle = idle
    MaxPriority = 2
    Events = {e}
    Wrap = 3
    Workloads <- MCSafety
    MaxSuspended = 2
SPECIFICATION Spec
INVARIANTS
    WokenOnTime
    ListsConsistent
    HighestPriorityRuns
    FreedUnreferenced
