CONSTANTS
    low = low
    mid = mid
    high = high
    idle = idle
    grp = grp
    Freed = Freed
    Tasks <- MCTasks
    Idle = idle
    MaxPriority = 3
    Events = {grp}
    Groups = {grp}
    Bits = {0, 1, 2}
    ValueBits = 2
    Wrap = 4
    Workloads <- MCApps
    MaxSuspended = 2
SPECIFICATION EventsSpec
INVARIANTS
    NotificationSeen
    ResumedInTime
    AnswersSound
PROPERTY IsEventFlags
