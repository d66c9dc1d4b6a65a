---------------------------- MODULE InterruptDemo ----------------------------
(***************************************************************************)
(* interrupt_io_demo.c ("interrupts"): software timers stand for the       *)
(* sources of interrupts, their callbacks run in the timer daemon and put  *)
(* events in two queues; a handler takes them, an I/O task and a timer     *)
(* task follow, a monitor reports and ends the demonstration.  What an     *)
(* event carries, the deadlines and the load score are left out: the score *)
(* only chooses the length of the handler's delay.                         *)
(***************************************************************************)
EXTENDS DemoKernel

CONSTANTS
    MAX_CYCLES, CYCLE_DURATION_MS, CheckEvery,  \* 5 cycles of 3000 ms, looked at every 500
    Period,             \* of each timer: 30, 120, 180 and 1500 ms
    MutexTimeout,       \* of each task that takes xAdaptiveMutex: 50 and 100 ms
    SemaphoreTimeout, QueueTimeout              \* 100 and 10 ms

Timers == {"simulation", "periodic", "critical", "adaptive"}
Stopped == 0

(* should_terminate_demo: what it leaves, and whether it says so *)
should_terminate_demo ==
    \/ data.stop
    \/ data.elapsed >= MAX_CYCLES * CYCLE_DURATION_MS
    \/ data.total_cycles >= MAX_CYCLES
Terminated ==
    IF ~should_terminate_demo \/ data.stop THEN data
    ELSE [data EXCEPT !.stop = TRUE,
            !.total_cycles = IF data.elapsed >= MAX_CYCLES * CYCLE_DURATION_MS
                             THEN MAX_CYCLES ELSE @]
\* the first thing every task does in its loop
ChecksTermination(t, on) ==
    /\ Local(t, "check", IF should_terminate_demo THEN "ended" ELSE on)
    /\ data' = Terminated

-----------------------------------------------------------------------------
(* The callbacks.  The daemon has the highest priority: nothing comes between the steps of
   a callback, unless it waits for the mutex. *)
TimerExpires ==
    xQueueReceive("daemon", "idle", "expired", Forever, "callback", "idle",
        [data EXCEPT !.timer = Head(queue["expired"])])
Callback(timer, to) ==
    /\ data.timer = timer /\ ~should_terminate_demo
    /\ Goes("daemon", "callback", to)
    /\ UNCHANGED <<delay, waits, holder, data>>
CallbackReturns ==
    /\ should_terminate_demo
    /\ Local("daemon", "callback", "idle")
    /\ data' = Terminated
vCriticalInterruptCallback ==
    /\ Callback("critical", "idle")
    /\ queue' = Sent(Sent(queue, "high", 1), "interrupt", Token)
vInterruptSimulationCallback ==
    /\ Callback("simulation", "idle")
    /\ \E q \in {"high", "normal"} :
          queue' = Sent(Sent(queue, "interrupt", Token), q, 1)
vPeriodicTimerCallback ==
    /\ Callback("periodic", "idle")
    /\ queue' = Sent(Sent(queue, "timer", Token), "normal", 1)
vAdaptiveTimerCallback ==
    \/ Callback("adaptive", "take") /\ UNCHANGED queue
    \/ TakeMutex("daemon", "take", "adaptive", MutexTimeout["daemon"], "load", "idle")
    \/ Local("daemon", "load", "give") /\ data' = Terminated     \* calculate_system_load
    \/ GiveMutex("daemon", "give", "adaptive", "idle")
Daemon ==
    \/ TimerExpires \/ CallbackReturns \/ vCriticalInterruptCallback
    \/ vInterruptSimulationCallback \/ vPeriodicTimerCallback \/ vAdaptiveTimerCallback

(* vInterruptHandlerTask *)
HandlerChecks == ChecksTermination("handler", "poll")
HandlerPolls == xQueueReceive("handler", "poll", "high", 0, "process", "wait", data)
HandlerWaits ==
    xQueueReceive("handler", "wait", "interrupt", SemaphoreTimeout, "receive", "check", data)
HandlerReceives ==
    xQueueReceive("handler", "receive", "normal", 0, "process", "check", data)
HandlerProcesses == \E delay_time \in 1..3 : vTaskDelay("handler", "process", delay_time, "print")
HandlerSignals ==
    /\ Goes("handler", "print", "check")
    /\ queue' = Sent(queue, "io", Token)
    /\ UNCHANGED <<delay, waits, holder, data>>
vInterruptHandlerTask ==
    HandlerChecks \/ HandlerPolls \/ HandlerWaits \/ HandlerReceives \/ HandlerProcesses
    \/ HandlerSignals

(* vIOSimulationTask *)
vIOSimulationTask ==
    \/ ChecksTermination("io", "receive")
    \/ xQueueReceive("io", "receive", "normal", QueueTimeout, "work", "signal", data)
    \/ xQueueReceive("io", "signal", "io", SemaphoreTimeout, "work", "check", data)
    \/ vTaskDelay("io", "work", 1, "print")
    \/ Local("io", "print", "check") /\ UNCHANGED data

(* vTimerHandlerTask *)
\* (altered: it waits with portMAX_DELAY)
vTimerHandlerTask_forever ==
    \/ ChecksTermination("timers", "wait")
    \/ xQueueReceive("timers", "wait", "timer", Forever, "work", "check", data)
    \/ Local("timers", "work", "check") /\ UNCHANGED data
vTimerHandlerTask ==
    \/ ChecksTermination("timers", "wait")
    \/ xQueueReceive("timers", "wait", "timer", SemaphoreTimeout, "work", "check", data)
    \/ Local("timers", "work", "check") /\ UNCHANGED data

(* vInterruptMonitorTask; total_cycles++ reads it and then writes it *)
MonitorSleeps == vTaskDelay("monitor", "sleep", CheckEvery, "due")
MonitorLooks ==
    LET due == data.elapsed - data.last_report_time >= CYCLE_DURATION_MS
    IN  /\ Local("monitor", "due", IF due THEN "count" ELSE "end")
        /\ data' = [data EXCEPT !.read = IF due THEN data.total_cycles ELSE @,
                                !.current_time = data.elapsed]
MonitorCounts ==
    /\ Local("monitor", "count", "print")
    /\ data' = [data EXCEPT !.total_cycles = data.read + 1,
                            !.last_report_time = data.current_time]
MonitorReports ==
    \/ Local("monitor", "print", "take") /\ UNCHANGED data
    \/ TakeMutex("monitor", "take", "adaptive", MutexTimeout["monitor"], "load", "end")
    \/ Local("monitor", "load", "report") /\ data' = Terminated  \* calculate_system_load
    \/ GiveMutex("monitor", "report", "adaptive", "end")
MonitorEnds ==
    /\ Local("monitor", "end", IF should_terminate_demo THEN "exit" ELSE "sleep")
    /\ data' = Terminated
\* the daemon carries each xTimerStop out at once; then the monitor only sleeps
force_system_exit ==
    /\ Goes("monitor", "exit", Halted)
    /\ data' = [data EXCEPT !.left = [i \in Timers |-> Stopped]]
    /\ delay' = [delay EXCEPT !["monitor"] = Forever]
    /\ UNCHANGED <<waits, queue, holder>>
vInterruptMonitorTask ==
    MonitorSleeps \/ MonitorLooks \/ MonitorCounts \/ MonitorReports \/ MonitorEnds
    \/ force_system_exit

\* a timer that expires is started again at once; the time only counts until the end
TimerTick ==
    LET expired == {i \in Timers : data.left[i] = 1}
        Order == <<"simulation", "periodic", "critical", "adaptive">>
        now == IF data.stop THEN data.elapsed ELSE data.elapsed + 1
    IN  /\ Tick({}, [queue EXCEPT !["expired"] =
                     @ \o SelectSeq(Order, LAMBDA i : i \in expired)],
                [data EXCEPT
                   !.elapsed = now,
                   !.left = [i \in Timers |-> IF i \in expired THEN Period[i]
                                              ELSE IF @[i] = Stopped THEN Stopped
                                              ELSE @[i] - 1]])

start_interrupt_driven_io_demo ==
    /\ demo = "interrupts"
    /\ Create([daemon |-> 6, handler |-> 5, io |-> 3, timers |-> 3, monitor |-> 2],
              [high |-> 2, normal |-> 2, interrupt |-> 1, timer |-> 1, io |-> 1,
               adaptive |-> 1, expired |-> 8], {"adaptive"})
    /\ pc = [daemon |-> "idle", handler |-> "check", io |-> "check", timers |-> "check",
             monitor |-> "sleep"]
    /\ data = [elapsed |-> 0, stop |-> FALSE, total_cycles |-> 0, last_report_time |-> 0,
               current_time |-> 0, read |-> 0, timer |-> "simulation",
               left |-> Period]

InterruptDemoNext ==
    /\ demo = "interrupts"
    /\ \/ \E t \in Running :
            \/ t = "daemon" /\ Daemon
            \/ t = "handler" /\ vInterruptHandlerTask
            \/ t = "io" /\ vIOSimulationTask
            \/ t = "timers" /\ vTimerHandlerTask
            \/ t = "monitor" /\ vInterruptMonitorTask
       \/ TimerTick

-----------------------------------------------------------------------------
\* The demonstration ends: every task has deleted itself, and the monitor has halted.
DemoEnds ==
    <>[](demo = "interrupts" =>
            /\ \A t \in {"handler", "io", "timers"} : pc[t] = "ended"
            /\ pc["monitor"] = Halted)
=============================================================================
