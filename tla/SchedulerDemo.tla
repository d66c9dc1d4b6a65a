---------------------------- MODULE SchedulerDemo ----------------------------
(***************************************************************************)
(* scheduler_validation_demo.c ("scheduler"): three periodic tasks compute *)
(* and measure how long that took, in ticks; a monitor of the lowest       *)
(* priority reports.  A task computes for a number of ticks of its own     *)
(* processor time, chosen anew each time.                                  *)
(***************************************************************************)
EXTENDS DemoKernel

CONSTANTS
    Load,               \* of each periodic task, the ticks its workload may take
    PeriodMs,           \* of each: 100, 200 and 500 ms
    report_interval,    \* 5000 ms
    MaxTime             \* bound: the ticks the demonstration is followed for

Periodic == {"HIGH", "MEDIUM", "LOW"}

\* The body of the three tasks.  own is a history variable: the ticks of processor time of
\* this execution; above, those of the tasks above it meanwhile.
TaskStarts(t) ==
    /\ Local(t, "loop", "work")
    /\ \E w \in Load[t] :
          data' = [data EXCEPT !.start_ticks[t] = data.now, !.left[t] = w,
                               !.own[t] = 0, !.above[t] = 0]
exec_ticks(t) ==
    IF data.now > data.start_ticks[t] THEN data.now - data.start_ticks[t] ELSE 1
TaskMeasures(t) ==
    /\ data.left[t] = 0
    /\ Local(t, "work", "sleep")
    /\ data' = [data EXCEPT
                  !.execution_count[t] = @ + 1,
                  !.total_ticks[t] = @ + exec_ticks(t),
                  !.used[t] = @ + data.own[t],
                  !.preempted[t] = @ + data.above[t]]
TaskDelays(t) == vTaskDelay(t, "sleep", PeriodMs[t], "loop")
PeriodicTask(t) ==
    TaskStarts(t) \/ TaskMeasures(t) \/ TaskDelays(t)

vSchedulerMonitorTask ==
    \/ vTaskDelay("MONITOR", "sleep", report_interval, "report")
    \/ Local("MONITOR", "report", "sleep") /\ UNCHANGED data

SchedulerTick ==
    LET working == {t \in Periodic : pc[t] = "work" /\ data.left[t] > 0}
        ran == Running \cap working
    IN  /\ data.now < MaxTime
        /\ Tick(working, queue,
              [data EXCEPT
                 !.now = @ + 1,
                 !.left = [t \in Periodic |-> IF t \in ran THEN @[t] - 1 ELSE @[t]],
                 !.own = [t \in Periodic |-> IF t \in Running THEN @[t] + 1 ELSE @[t]],
                 !.above = [t \in Periodic |->
                    IF \E u \in Running : priority[u] > priority[t] THEN @[t] + 1 ELSE @[t]]])

start_scheduler_validation_demo ==
    /\ demo = "scheduler"
    /\ Create([HIGH |-> 4, MEDIUM |-> 3, LOW |-> 2, MONITOR |-> 1], <<>>, {})
    /\ pc = [HIGH |-> "loop", MEDIUM |-> "loop", LOW |-> "loop", MONITOR |-> "sleep"]
    /\ LET zero == [t \in Periodic |-> 0]
       IN  data = [now |-> 0, start_ticks |-> zero, left |-> zero, execution_count |-> zero,
                   total_ticks |-> zero,
                   own |-> zero, above |-> zero, used |-> zero, preempted |-> zero]

SchedulerDemoNext ==
    /\ demo = "scheduler"
    /\ \/ \E t \in Periodic \cap Running : PeriodicTask(t)
       \/ "MONITOR" \in Running /\ vSchedulerMonitorTask
       \/ SchedulerTick
       \/ data.now = MaxTime /\ UNCHANGED vars          \* no longer followed

-----------------------------------------------------------------------------
\* What the code measures is the time from start to end: the task's own processor time and
\* that of the tasks above it meanwhile, where an execution that sees no tick counts for one.
ElapsedTimes ==
    demo = "scheduler" => \A t \in Periodic :
        LET elapsed == data.used[t] + data.preempted[t]
        IN  /\ elapsed <= data.total_ticks[t]
            /\ data.total_ticks[t] <= elapsed + data.execution_count[t]

\* What the demonstration announces ("precise execution time measurements") and the monitor
\* prints, as execution time, WCET and processor utilization, is the task's own processor
\* time, to the tick.  It is not: the time of a preempted task holds that of the others.
ExecutionTimesOwn ==
    demo = "scheduler" => \A t \in Periodic :
        data.total_ticks[t] <= data.used[t] + data.execution_count[t]
=============================================================================
