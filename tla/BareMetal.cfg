CONSTANTS
    Programs = {"monitor", "sweep", "bench", "poll"}
    BENCHMARK_SAMPLES = 3
    TIMER_IRQ_PERIOD = 8
    Work <- MCWork
    Levels = 2
    ReportClocks = 3
    MaxDelay = 2
    UART_CLKDIV = 2
    ResetDivider = 5
    Text <- MCText
    Digits = {53}
    ReadClocks = 1
    CounterWrap = 16
    TIMER_WAIT_TICKS = 5
    XLEN = 3
    CARRY_CHAIN = 2
    TimeoutClocks = 5
    IrqClocks = 4
SPECIFICATION BareMetalSpec
INVARIANTS
    EventsAccounted
    TimesSound
    PrintedSound
    ArithmeticExact
