CONSTANTS
    CriticalEvery = 7
    HighEvery = 5
    NormalEvery = 4
    MAX_QUEUE_CYCLES = 12
    ReportEvery = 3
    QueueLengths <- MCLengths
    SendDelay <- MCSendDelay
    ProcessingTime <- MCProcessingTime
    SendTimeout = 1
    PollTimeout = 1
    NUM_IPC_ITERATIONS = 4
    QUEUE_LENGTH = 2
    IpcDelay = 3
    IpcEndDelay = 3
    Load <- MCLoad
    PeriodMs <- MCPeriodMs
    report_interval = 6
    MaxTime = 10
    MAX_CYCLES = 2
    CYCLE_DURATION_MS = 7
    CheckEvery = 3
    Period <- MCPeriod
    MutexTimeout <- MCMutexTimeout
    SemaphoreTimeout = 4
    QueueTimeout = 2
    NUM_ROUND_TRIPS = 3
    NUM_SYNC_ITERATIONS = 3
    NUM_INTERRUPT_ITERATIONS = 3
    NUM_MEMORY_ITERATIONS = 200
    BlockSize <- MCBlockSize
    FreeHeap = 79824
    Settle = 3
    Pause = 2
    WorkerDelay <- MCWorkerDelay
    MaxInside = 2
SPECIFICATION Spec
INVARIANTS MessagesCounted MeasurementsSound
PROPERTIES HighestClassFirst DemosProgress
