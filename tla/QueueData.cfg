CONSTANTS
    low = low
    mid = mid
    high = high
    idle = idle
    qa = qa
    qb = qb
    qc = qc
    qm = qm
    qn = qn
    Tasks <- MCTasks
    Idle = idle
    MaxPriority = 3
    Events <- MCEvents
    Wrap = 3
    MaxSuspended = 1
    Queues = {qa, qb, qc, qm, qn}
    uxLength <- Lengths
    Buffers = {qa, qc}
    Mutexes = {qm, qn}
    Items = {"v", "w"}
    Workloads <- DataLoads
SPECIFICATION QueueSpec
INVARIANTS
    NoLostWakeup
    TimeoutExact
    HolderInherits
PROPERTY IsBoundedBuffer
