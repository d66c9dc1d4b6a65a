------------------------------ MODULE MCTimers -------------------------------
(* Timers with a tick count that overflows every four ticks. *)
EXTENDS Timers

CONSTANTS a, b, app
MCTimers == {a, b}
MCTasks == {app}

Cmd(c, t, v) == [cmd |-> c, t |-> t, value |-> v]
Start(t) == Cmd("start", t, None)
Stop(t) == Cmd("stop", t, None)
Period(x, y) == [t \in MCTimers |-> IF t = a THEN x ELSE y]
Auto == [t \in MCTimers |-> t = a]

\* tasks that preempt the daemon
High == [period |-> Period(2, 3), auto |-> Auto, preempt |-> TRUE, modes |-> {},
         task |-> {Start(a), Start(b), Cmd("change", a, 1), Cmd("delete", b, None)},
         isr |-> {Stop(a)}, callback |-> {}, static |-> {}, pends |-> {"task"}]
\* tasks that the daemon preempts; callbacks that send commands
Low == [period |-> Period(1, 3), auto |-> Auto, preempt |-> FALSE, modes |-> {a},
        task |-> {Start(a), Cmd("change", b, 2)},
        isr |-> {Start(b)}, callback |-> {Stop(a), Cmd("delete", b, None)},
        static |-> {b}, pends |-> {"isr"}]
MCSchedule == [high |-> High, low |-> Low]
=============================================================================
