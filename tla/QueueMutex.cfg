CONSTANTS
    low = low
    mid = mid
    high = high
    idle = idle
    qa = qa
    qb = qb
    qc = qc
    qm = qm
    qn = qn
    Tasks <- MCTasks
    Idle = idle
    MaxPriority = 3
    Events <- MCEvents
    Wrap = 2
    MaxSuspended = 1
    Queues = {qa, qb}
    uxLength <- Lengths
    Buffers = {}
    Mutexes = {qa, qb}
    Items = {"v", "w"}
    Workloads <- MutexLoads
SPECIFICATION QueueFairSpec
INVARIANTS
    PriorityRestored
PROPERTIES
    InversionBounded
    RoundRobin
