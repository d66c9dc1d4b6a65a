---------------------------- MODULE MCTaskEvents ----------------------------
(* TaskEvents on small sets of tasks and applications. *)
EXTENDS TaskEvents

CONSTANTS low, mid, high, idle, grp

MCTasks == {low, mid, high}
Steps == [t \in {low, mid, high, idle} |->
    IF t = high THEN 3 ELSE IF t = mid THEN 2 ELSE IF t = low THEN 1 ELSE 0]
Forever == Wrap - 1

App(calls, callers, delays) ==
    [created |-> <<low, mid, high>>, priority |-> Steps, priorities |-> {},
     delays |-> delays, pended |-> 1, calls |-> calls, callers |-> callers,
     notifies |-> {}, isr |-> {}, awaits |-> {}, periods |-> [t \in MCTasks |-> {}],
     groupCalls |-> {}, queries |-> {}]

Take(t, n, clear) == [by |-> t, op |-> "take", ticks |-> n, clear |-> clear]
WaitFor(t, n, entry, exit) ==
    [by |-> t, op |-> "wait", ticks |-> n, entry |-> entry, exit |-> exit]
Send(t, u, action, v) == [by |-> t, to |-> u, action |-> action, value |-> v]

\* high takes what mid and interrupts give, mid takes all that low gives
Counting == [App({"lock"}, {low}, {}) EXCEPT
    !.awaits = {Take(high, 1, FALSE), Take(high, Forever, FALSE), Take(mid, 2, TRUE)},
    !.notifies = {Send(mid, high, "eIncrement", 0), Send(low, mid, "eIncrement", 0)},
    !.isr = {Send(idle, high, "eIncrement", 0)}]
\* values and bits, cleared on entry and on exit, and by others
Values3 == [App({"lock", "clear"}, {low}, {}) EXCEPT
    !.awaits = {WaitFor(high, 1, 3, 1), WaitFor(high, 0, 0, 3), WaitFor(mid, Forever, 0, 3)},
    !.notifies = {Send(mid, high, "eSetBits", 2),
                  Send(low, mid, "eSetValueWithoutOverwrite", 1)},
    !.isr = {Send(idle, high, "eSetBits", 1), Send(idle, mid, "eSetValueWithOverwrite", 2)}]
\* periodic tasks, kept from the processor by one above them
Period == [App({"delay", "lock"}, {high}, {1, 2}) EXCEPT
    !.periods = [t \in MCTasks |-> IF t = mid THEN {1, 2} ELSE IF t = low THEN {3} ELSE {}]]

Bits2(t, s, op) == [by |-> t, op |-> op, group |-> grp, set |-> s]
WaitBits(t, s, all, clear, n) ==
    [by |-> t, op |-> "waitBits", group |-> grp, want |-> s, all |-> all, clear |-> clear,
     ticks |-> n]
Sync(t, s, w, n) == [by |-> t, op |-> "sync", group |-> grp, set |-> s, want |-> w, ticks |-> n]

\* two wait for all and for any of the bits that the third sets
Group == [App({"delay"}, {high}, {1}) EXCEPT
    !.groupCalls = {WaitBits(high, {0, 1}, TRUE, TRUE, 1),
                    WaitBits(mid, {0, 1}, FALSE, TRUE, Forever),
                    WaitBits(mid, {1}, TRUE, FALSE, 2), Bits2(mid, {0}, "setBits"),
                    Bits2(low, {0}, "setBits"), Bits2(low, {1}, "setBits"),
                    Bits2(low, {1}, "clearBits"), WaitBits(low, {1}, FALSE, TRUE, 0)}]
\* the three meet
Rendezvous == [App({"delay"}, {high, mid}, {1}) EXCEPT
    !.groupCalls = {Sync(high, {0}, {0, 1, 2}, 1), Sync(mid, {1}, {0, 1, 2}, Forever),
                    Sync(low, {2}, {0, 1, 2}, Forever), Sync(low, {2}, {0, 1, 2}, 0)}]
\* the group is deleted while tasks wait
Deletion == [App({}, {}, {}) EXCEPT
    !.groupCalls = {WaitBits(t, {0}, TRUE, TRUE, Forever) : t \in {mid, high}}
                   \cup {Bits2(low, {0}, "setBits"),
                         [by |-> low, op |-> "delete", group |-> grp]}]
\* tasks are suspended in a wait, and resumed by a task and by interrupts
Suspension == [App({"lock", "isrResume", "suspend"}, {low}, {}) EXCEPT
    !.created = <<low, high>>, !.awaits = {Take(high, 1, TRUE)},
    !.isr = {Send(idle, high, "eIncrement", 0), Send(idle, high, "eNoAction", 0)},
    !.groupCalls = {WaitBits(high, {0}, TRUE, TRUE, 2), Bits2(low, {0}, "setBits")}]

\* low looks at the two others, cuts their waits short and lets time pass for them
Watch == [App({}, {}, {}) EXCEPT
    !.pended = 2, !.awaits = {Take(high, 2, TRUE), Take(mid, Forever, TRUE)},
    !.isr = {Send(idle, mid, "eIncrement", 0)},
    !.groupCalls = {WaitBits(high, {0}, TRUE, TRUE, Forever), Bits2(low, {0}, "setBits")},
    !.queries = [by : {low}, op : {"abort", "find"}, task : {mid, high}]
                \cup [by : {low}, op : {"status"}, size : {3, 4}]
                \cup [by : {low}, op : {"catchUp"}, ticks : {2}]]
MCApps == [count |-> Counting, values |-> Values3, period |-> Period, group |-> Group,
           meet |-> Rendezvous, remove |-> Deletion, suspend |-> Suspension, watch |-> Watch]
=============================================================================
