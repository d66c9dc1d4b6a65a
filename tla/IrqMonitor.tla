----------------------------- MODULE IrqMonitor -----------------------------
(***************************************************************************)
(* The bare-metal programs that measure the timer interrupt:               *)
(* event_alert_demo.c ("monitor"), workload_sweep_demo.c ("sweep"),        *)
(* irq_benchmark.c ("bench") and poll_benchmark.c ("poll"), each with the  *)
(* interrupt handler of start.s and the timer of top_uart_hello.v.         *)
(*                                                                         *)
(* Every step is a clock: the timer advances with one step of the handler  *)
(* or of main().  The programs end within seconds of power-up, before      *)
(* any 32-bit register of theirs overflows.                                *)
(***************************************************************************)
EXTENDS Integers, Sequences

CONSTANTS
    Programs,           \* the programs of the list above that are looked at
    BENCHMARK_SAMPLES,
    TIMER_IRQ_PERIOD,   \* TIMER_IRQ_PERIOD_TICKS
    Work,               \* clocks simulate_processing, busy_work and
                        \* print_event_line may take
    Levels,             \* the length of workloads[]
    ReportClocks,       \* clocks run_level takes to print its line
    MaxDelay            \* clocks from an event until its interrupt is entered

ASSUME ProgramsAssumption == Programs \subseteq {"monitor", "sweep", "bench", "poll"}
ASSUME SamplesAssumption == BENCHMARK_SAMPLES \in Nat /\ BENCHMARK_SAMPLES > 1
\* tens of thousands of clocks against a handler of a few hundred
ASSUME PeriodAssumption == TIMER_IRQ_PERIOD \in Nat /\ TIMER_IRQ_PERIOD > MaxDelay + 4
ASSUME DelayAssumption == MaxDelay \in Nat /\ MaxDelay > 0
\* a line of characters against an instruction
ASSUME ReportAssumption == ReportClocks \in Nat /\ ReportClocks > MaxDelay
ASSUME WorkAssumption == Work \subseteq Nat /\ Work # {}
ASSUME LevelsAssumption == Levels \in Nat /\ Levels > 0

VARIABLES
    program,
    timer_counter, timer_irq_enable, timer_irq_pending, timer_irq_countdown,
    timer_irq_event_count, irq_mask,
    irq,                    \* where the handler is, "none" outside it
    irq_count, irq_timestamp, irq_event_timestamp, irq_last_timer,
    latency, interval,      \* irq_latency_* and irq_interval_*, or poll's own
    pc, left,               \* where main() is, and how long it stays there
    seen, t_event, missed_events, sample,   \* main()'s locals
    level,
    times                   \* history: when the events since the start fired

timer == <<timer_counter, timer_irq_enable, timer_irq_pending,
           timer_irq_countdown, timer_irq_event_count, times>>
stamps == <<irq_timestamp, irq_event_timestamp>>
statistics == <<irq_last_timer, latency, interval>>
locals == <<seen, t_event, missed_events, sample>>
vars == <<program, timer, irq_mask, irq, irq_count, stamps, statistics, pc, left,
          locals, level>>

-----------------------------------------------------------------------------
\* one clock of the timer; w is the store main() or the handler makes in it
Counts_always == timer_irq_enable = 1
Counts == timer_irq_enable = 1 /\ timer_irq_pending = 0
Fires == timer_irq_enable = 1 /\ timer_irq_pending = 0 /\ timer_irq_countdown = 0
Clock(w) ==
    /\ timer_counter' = timer_counter + 1
    /\ timer_irq_enable' = IF w = "enable" THEN 1 ELSE IF w = "disable" THEN 0
                           ELSE timer_irq_enable
    /\ timer_irq_pending' = IF w = "clear" THEN 0 ELSE IF Fires THEN 1
                            ELSE timer_irq_pending
    /\ timer_irq_countdown' =
          IF w = "period" \/ Fires THEN TIMER_IRQ_PERIOD
          ELSE IF Counts THEN timer_irq_countdown - 1 ELSE timer_irq_countdown
    /\ timer_irq_event_count' = IF Fires THEN timer_counter ELSE timer_irq_event_count
    /\ times' = IF w = "enable" THEN <<>>
                ELSE IF Fires THEN Append(times, timer_counter) ELSE times

\* the statistics the handler and the programs keep alike; a minimum of zero
\* is one that no sample has set
NoSamples == [samples |-> 0, min |-> 0, max |-> 0, total |-> 0]
update_stats(s, v) ==
    [samples |-> s.samples + 1,
     min |-> IF s.min = 0 \/ v < s.min THEN v ELSE s.min,
     max |-> IF v > s.max THEN v ELSE s.max,
     total |-> s.total + v]

\* the latency of an event, and its distance from the one before it, if any
Measure(at, event) ==
    /\ latency' = update_stats(latency, at - event)
    /\ interval' = IF irq_last_timer = 0 THEN interval
                   ELSE update_stats(interval, at - irq_last_timer)
    /\ irq_last_timer' = at

-----------------------------------------------------------------------------
(* irq_entry: main() waits until it returns. *)
Requested == timer_irq_pending = 1 /\ irq_mask = 0

IrqRequest ==
    /\ irq = "none" /\ Requested
    /\ irq' = "count"
    /\ Clock("none")
    /\ UNCHANGED <<program, irq_mask, irq_count, stamps, statistics, pc, left, locals, level>>

IrqCount ==
    /\ irq = "count"
    /\ irq_count' = irq_count + 1
    /\ irq' = "times"
    /\ Clock("none")
    /\ UNCHANGED <<program, irq_mask, stamps, statistics, pc, left, locals, level>>

EventTime == timer_irq_event_count
IrqTimes ==
    /\ irq = "times"
    /\ irq_timestamp' = timer_counter
    /\ irq_event_timestamp' = EventTime
    /\ irq' = "stats"
    /\ Clock("none")
    /\ UNCHANGED <<program, irq_mask, irq_count, statistics, pc, left, locals, level>>

IrqStats ==
    /\ irq = "stats"
    /\ Measure(irq_timestamp, irq_event_timestamp)
    /\ irq' = "ack"
    /\ Clock("none")
    /\ UNCHANGED <<program, irq_mask, irq_count, stamps, pc, left, locals, level>>

IrqAck ==
    /\ irq = "ack"
    /\ irq' = "none"
    /\ Clock("clear")
    /\ UNCHANGED <<program, irq_mask, irq_count, stamps, statistics, pc, left, locals, level>>

-----------------------------------------------------------------------------
(* main() takes a step from one point to another while the handler does not
   run and an interrupt is not overdue. *)
Main(from, to, w) ==
    /\ irq = "none" /\ pc = from /\ pc' = to
    /\ Requested => timer_counter - timer_irq_event_count < MaxDelay
    /\ Clock(w)
    /\ UNCHANGED <<program, irq>>
Only(p) == program \in p

\* before the timer runs
ResetCounts ==
    /\ Main("reset", "disable", "none")
    /\ irq_count' = 0
    /\ IF program = "bench" THEN latency' = NoSamples /\ interval' = NoSamples
                            ELSE UNCHANGED <<latency, interval>>
    /\ UNCHANGED <<irq_mask, stamps, irq_last_timer, left, locals, level>>

kept == <<irq_count, stamps, statistics, left, locals, level>>
Disable == Main("disable", "clear", "disable") /\ UNCHANGED <<irq_mask, kept>>
ClearPending == Main("clear", "period", "clear") /\ UNCHANGED <<irq_mask, kept>>
SetPeriod ==
    /\ Main("period", IF Only({"monitor", "bench"}) THEN "unmask" ELSE "enable", "period")
    /\ UNCHANGED <<irq_mask, kept>>
Unmask ==
    /\ Main("unmask", IF program = "sweep" THEN "reset" ELSE "enable", "none")
    /\ irq_mask' = 0
    /\ UNCHANGED kept
Enable ==
    /\ Main("enable", IF program = "bench" THEN "samples"
                      ELSE IF program = "poll" THEN "poll" ELSE "wait", "enable")
    /\ UNCHANGED <<irq_mask, kept>>

\* the loop of the monitor and of the sweep
Wait ==
    /\ Main("wait", IF irq_count = seen THEN "wait" ELSE "read", "none")
    /\ UNCHANGED <<irq_mask, kept>>

Skipped_all(n) == n - seen              \* the event at hand is one of them
Skipped(n) == IF n > seen + 1 THEN n - seen - 1 ELSE 0
ReadCount ==
    /\ Main("read", "stamp", "none")
    /\ seen' = irq_count
    /\ missed_events' = missed_events + Skipped(irq_count)
    /\ UNCHANGED <<irq_mask, irq_count, stamps, statistics, left, t_event, sample, level>>

ReadStamp ==
    /\ Main("stamp", "work", "none")
    /\ t_event' = irq_event_timestamp
    /\ left' \in Work
    /\ UNCHANGED <<irq_mask, irq_count, stamps, statistics, seen, missed_events, sample, level>>

\* simulate_processing, busy_work, and what is printed
Spend ==
    /\ pc \in {"work", "print", "line"} /\ left > 0
    /\ Main(pc, pc, "none")
    /\ left' = left - 1
    /\ UNCHANGED <<irq_mask, irq_count, stamps, statistics, locals, level>>

MeasureEvent ==
    /\ left = 0
    /\ Main("work", IF program = "monitor" THEN "print"
                    ELSE IF seen < BENCHMARK_SAMPLES THEN "wait" ELSE "stop", "none")
    /\ sample' = update_stats(sample, timer_counter - t_event)
    /\ left' \in IF program = "monitor" THEN Work ELSE {0}
    /\ UNCHANGED <<irq_mask, irq_count, stamps, statistics, seen, t_event, missed_events, level>>

print_event_line ==
    /\ left = 0
    /\ Main("print", IF sample.samples < BENCHMARK_SAMPLES THEN "wait" ELSE "stop", "none")
    /\ UNCHANGED <<irq_mask, kept>>

\* the loop of the interrupt benchmark
CollectSamples ==
    /\ Main("samples", IF latency.samples < BENCHMARK_SAMPLES THEN "samples" ELSE "stop", "none")
    /\ UNCHANGED <<irq_mask, kept>>

\* the loop of the polling benchmark, in which no interrupt is taken
Poll ==
    /\ Main("poll", IF timer_irq_pending = 0 THEN "poll" ELSE "detected", "none")
    /\ UNCHANGED <<irq_mask, kept>>
Detect ==
    /\ Main("detected", "eventTime", "none")
    /\ irq_timestamp' = timer_counter
    /\ UNCHANGED <<irq_mask, irq_count, irq_event_timestamp, statistics, left, locals, level>>
ReadEventTime ==
    /\ Main("eventTime", "ack", "none")
    /\ irq_event_timestamp' = timer_irq_event_count
    /\ UNCHANGED <<irq_mask, irq_count, irq_timestamp, statistics, left, locals, level>>
PollAck == Main("ack", "update", "clear") /\ UNCHANGED <<irq_mask, kept>>
PollUpdate ==
    /\ Main("update", IF latency.samples + 1 < BENCHMARK_SAMPLES THEN "poll" ELSE "stop", "none")
    /\ Measure(irq_timestamp, irq_event_timestamp)
    /\ UNCHANGED <<irq_mask, irq_count, stamps, left, locals, level>>

\* the timer is stopped, and what was measured is printed
Stop ==
    /\ Main("stop", IF Only({"monitor", "bench"}) THEN "mask" ELSE "report", "disable")
    /\ UNCHANGED <<irq_mask, kept>>
Mask ==
    /\ Main("mask", IF program = "sweep" THEN "done" ELSE "report", "none")
    /\ irq_mask' = 1
    /\ UNCHANGED kept
Report ==
    /\ Main("report", IF program = "sweep" THEN "line" ELSE "done", "none")
    /\ left' = IF program = "sweep" THEN ReportClocks ELSE 0
    /\ UNCHANGED <<irq_mask, irq_count, stamps, statistics, locals, level>>
\* run_level is called again, or was called for the last time
NextLevel ==
    /\ left = 0
    /\ Main("line", IF level < Levels THEN "reset" ELSE "mask", "none")
    /\ level' = level + 1
    /\ seen' = 0 /\ missed_events' = 0 /\ sample' = NoSamples
    /\ UNCHANGED <<irq_mask, irq_count, stamps, statistics, left, t_event>>

Done == pc = "done" /\ irq = "none" /\ UNCHANGED vars

-----------------------------------------------------------------------------
\* at power-up every interrupt is masked and the timer does not run
Init ==
    /\ program \in Programs
    /\ timer_counter = 1 /\ timer_irq_enable = 0 /\ timer_irq_pending = 0
    /\ timer_irq_countdown = TIMER_IRQ_PERIOD /\ timer_irq_event_count = 0
    /\ times = <<>>
    /\ irq_mask = 1 /\ irq = "none"
    /\ irq_count = 0 /\ irq_timestamp = 0 /\ irq_event_timestamp = 0
    /\ irq_last_timer = 0 /\ latency = NoSamples /\ interval = NoSamples
    /\ pc = IF program = "sweep" THEN "unmask" ELSE IF program = "poll" THEN "disable"
            ELSE "reset"
    /\ left = 0 /\ level = 1
    /\ seen = 0 /\ t_event = 0 /\ missed_events = 0 /\ sample = NoSamples

Handler == IrqRequest \/ IrqCount \/ IrqTimes \/ IrqStats \/ IrqAck
Setup == ResetCounts \/ Disable \/ ClearPending \/ SetPeriod \/ Unmask \/ Enable
Loop == Wait \/ ReadCount \/ ReadStamp \/ Spend \/ MeasureEvent \/ print_event_line
        \/ CollectSamples \/ Poll \/ Detect \/ ReadEventTime \/ PollAck \/ PollUpdate
Ending == Stop \/ Mask \/ Report \/ NextLevel
Next == Handler \/ Setup \/ Loop \/ Ending \/ Done
Spec == Init /\ [][Next]_vars

-----------------------------------------------------------------------------
Running == pc \in {"samples", "wait", "read", "stamp", "work", "print", "stop", "mask",
                   "report", "line"}
\* an event the handler has yet to count
Uncounted == IF timer_irq_pending = 1 /\ irq \in {"none", "count"} THEN 1 ELSE 0

\* Every event since the timer was started is counted once by the handler, and
\* main() reports every event it was told of, as measured or as missed, however
\* long it works or prints (missed_events; reset_timer_irq clears the count
\* while IRQ5 is unmasked, so nothing of the level before may reach it).
EventsAccounted ==
    /\ Running /\ program # "poll" => irq_count + Uncounted = Len(times)
    /\ pc \in {"wait", "stop", "report"} => sample.samples + missed_events = seen

\* irq_event_timestamp is read after irq_count, with interrupts on: what main()
\* takes for the time of the event it counted is the time of that event or of one
\* that came while it read, never of an older one.
StampNotOlder ==
    pc = "work" => \E i \in seen..Len(times) : t_event = times[i]

\* The timer stands still while an event is pending, so the program measures no
\* interval as short as the period, whatever the latencies of its two ends are.
IntervalsSpanPeriod == interval.samples > 0 => interval.min > TIMER_IRQ_PERIOD

\* Of the times the programs report: a stamp belongs to the event counted or a newer
\* one, and an interval spans the period.
TimesSound == StampNotOlder /\ IntervalsSpanPeriod
=============================================================================
