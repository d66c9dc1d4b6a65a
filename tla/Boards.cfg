CONSTANTS
    Images = {"port", "heap", "instructions", "lab", "adventure"}
    one = one
    two = two
    three = three
    Tasks <- MCTasks
    NoTask = NoTask
    Period = 14
    ResetPeriod = 20
    LaunchCycles = 12
    MaxNest = 2
    idle = idle
    app = app
    Callers <- MCCallers
    TotalHeapSize = 24
    SizeBits = 6
    portBYTE_ALIGNMENT = 2
    xHeapStructSize = 2
    StackDepths <- MCStackDepths
    SizeofTCB = 2
    QueueShapes <- MCQueueShapes
    SizeofQueue = 1
    Callocs <- MCCallocs
    MaxObjects = 4
    ByteBits = 2
    Words = 8
    LastReg = 3
    BitTime = 8
    StopBits = 1
    MaxOwed = 2
    InstructionsTried = 3
    Programs <- MCPrograms
    Typed <- MCTyped
    Contents <- MCContents
    LOCATION_MAX_OBJECTS = 3
    LOCATION_MAX_ENTITIES = 2
    ENTITY_MAX_OBJECTS = 3
    LongBits = 20
    LineSize = 3
    Letters = {"b", "c"}
    Commands <- MCCommandOf
    MaxCommands = 6
SPECIFICATION BoardsSpec
INVARIANTS
    OneTickPerEvent
    CriticalExclusion
    ContextIntegrity
    YieldNotLost
    NothingLeaked
    EchoedInOrder
    ProgramsSound
PROPERTIES
    TickServed
    IsAllocator
    IsRv32
    EchoComesBack
