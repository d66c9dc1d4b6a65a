------------------------------ MODULE MCQueue -------------------------------
(* Queue on small sets of tasks: high above mid above low, which share queues,
   semaphores or mutexes. *)
EXTENDS Queue

CONSTANTS low, mid, high, idle, qa, qb, qc, qm, qn

MCTasks == {low, mid, high}
MCEvents == {<<"xTasksWaitingToReceive", z>> : z \in Queues}
            \cup {<<"xTasksWaitingToSend", z>> : z \in Queues}
Lengths == [z \in Queues |-> IF z = qc THEN 2 ELSE 1]
Steps == [t \in {low, mid, high, idle} |->
    IF t = high THEN 3 ELSE IF t = mid THEN 2 ELSE IF t = low THEN 1 ELSE 0]
\* two equals and one above
Equals == [t \in {low, mid, high, idle} |->
    IF t = high THEN 2 ELSE IF t = idle THEN 0 ELSE 1]

Req(t, op, z, v, n) == [task |-> t, op |-> op, queue |-> z, item |-> v, ticks |-> n]
Forever == Wrap - 1
Load(priority, callers, delays, requests, isr) ==
    [created |-> <<low, mid, high>>, priority |-> priority, priorities |-> {},
     delays |-> delays, pended |-> 1, calls |-> {"delay"}, callers |-> callers,
     requests |-> requests, isr |-> isr]

\* two senders, one in front, and two receivers; every wait is for ever
Pipe == Load(Equals, {}, {0},
    {Req(low, "send", qc, "v", Forever), Req(mid, "front", qc, "w", Forever)}
    \cup {Req(t, "receive", qc, NoItem, Forever) : t \in {mid, high}},
    {Req(idle, "send", qc, "v", 0), Req(idle, "receive", qc, NoItem, 0)})

\* a mailbox, written over, sent to with a timeout, and looked at; and a
\* semaphore given by an interrupt and taken with a timeout
Mail == Load(Steps, {}, {0},
    {Req(low, "overwrite", qa, "v", 0), Req(mid, "send", qa, "w", 1),
     Req(low, "receive", qa, NoItem, Forever),
     Req(high, "peek", qa, NoItem, Forever), Req(high, "take", qb, NoItem, 1)},
    {Req(idle, "overwrite", qa, "v", 0), Req(idle, "give", qb, NoItem, 0)})

\* one mutex, waited for with timeouts and for ever
Mutex == Load(Steps, {mid, high}, {1},
    {Req(t, "give", qm, NoItem, 0) : t \in MCTasks}
    \cup {Req(low, "take", qm, NoItem, Forever), Req(mid, "take", qm, NoItem, Forever),
          Req(high, "take", qm, NoItem, 1)}, {})
\* mid computes between two that share a mutex
Inversion == Load(Steps, MCTasks, {1},
    {Req(t, "give", qa, NoItem, 0) : t \in {low, high}}
    \cup {Req(t, "take", qa, NoItem, Forever) : t \in {low, high}}, {})
\* low takes two mutexes, x and y, of which high and mid, which may also compute,
\* each want one
Nested(x, y) == Load(Steps, {mid, high}, {1},
    {Req(t, "give", z, NoItem, 0) : t \in MCTasks, z \in {x, y}}
    \cup {Req(low, "take", z, NoItem, 0) : z \in {x, y}}
    \cup {Req(high, "take", x, NoItem, Forever), Req(mid, "take", y, NoItem, Forever)}, {})
\* two equals compute and share a mutex, below one that comes and goes
Turns == Load(Equals, {high}, {1},
    {Req(t, op, qa, NoItem, 0) : t \in {low, mid}, op \in {"give", "take"}}
    \cup {Req(low, "take", qa, NoItem, Forever)}, {})
DataLoads == [pipe |-> Pipe, mail |-> Mail, mutex |-> Mutex, nested |-> Nested(qm, qn)]
MutexLoads == [inversion |-> Inversion, nested |-> Nested(qa, qb), turns |-> Turns]
=============================================================================
