---------------------------- MODULE MCScheduler -----------------------------
(* Scheduler on small sets of tasks and applications. *)
EXTENDS Scheduler

CONSTANTS a, b, c, idle

MCTasks == {a, b, c}
\* two equals and one above
MCPriority == [t \in {a, b, c, idle} |-> IF t = idle THEN 0 ELSE IF t = c THEN 2 ELSE 1]
\* one shares the idle task's priority
MCPriorityLow == [t \in {a, b, c, idle} |-> IF t \in {idle, b} THEN 0 ELSE 1]

\* nested locks of the scheduler and every priority change
DelayLoad == [created |-> <<a, b, c>>, priority |-> MCPriority, priorities |-> {1, 2},
              delays |-> {0, 1}, pended |-> 2, callers |-> MCTasks, calls |-> {"delay", "lock", "priority", "wait"}]
\* suspension against every kind of wake-up
SuspendLoad == [created |-> <<a, b, c>>, priority |-> MCPriority, priorities |-> {},
                delays |-> {1, 2}, pended |-> 1,
                callers |-> MCTasks, calls |-> {"suspend", "wait", "isr", "yield", "signal", "delay"}]
\* deletion and creation, two tasks at first
DeleteLoad == [created |-> <<a, b>>, priority |-> MCPriorityLow, priorities |-> {1},
               delays |-> {1}, pended |-> 1, callers |-> MCTasks, calls |-> {"delete", "create", "wait"}]
\* the priorities of waiting tasks change
WaiterLoad == [created |-> <<a, b, c>>, priority |-> MCPriority, priorities |-> 0..2,
               delays |-> {1, 2}, pended |-> 1, callers |-> MCTasks, calls |-> {"priority", "wait"}]

MCSafety == [delay |-> DelayLoad, suspend |-> SuspendLoad, delete |-> DeleteLoad]
MCWaiters == [waiter |-> WaiterLoad]
=============================================================================
