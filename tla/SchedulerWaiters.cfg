CONSTANTS
    a = a
    b = b
    c = c
    idle = idle
    Tasks <- MCTasks
    Idle = idle
    MaxPriority = 2
    Events = {e}
    Wrap = 3
    Workloads <- MCWaiters
    MaxSuspended = 2
SPECIFICATION Spec
INVARIANT HighestWaiterFirst
