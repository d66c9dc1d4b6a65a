CONSTANTS
    a = a
    b = b
    app = app
    TimerIds <- MCTimers
    Tasks <- MCTasks
    Wrap = 4
    configTIMER_QUEUE_LENGTH = 2
    Workloads <- MCSchedule
    MaxTime = 9
    MaxCalls = 3
SPECIFICATION Spec
INVARIANTS
    OnSchedule
    CallbackWhenDue
    SleepsNoLonger
CHECK_DEADLOCK FALSE
