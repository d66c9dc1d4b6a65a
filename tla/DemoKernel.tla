----------------------------- MODULE DemoKernel ------------------------------
(***************************************************************************)
(* What the demonstrations for the simulator rely on of the kernel, whose  *)
(* sources are a submodule: preemptive priorities, delays, queues and      *)
(* semaphores with timeouts, a mutex that lends its holder the priority of *)
(* the task that waits (modules Scheduler and Queue show that the kernel   *)
(* of 2.sw keeps these promises).                                          *)
(***************************************************************************)
EXTENDS Integers, Sequences

CONSTANT MaxInside                      \* bound: the ticks between two steps of a task

VARIABLES
    demo,           \* DEMO_ID: the demonstration the image was built for
    priority,       \* of each task, as xTaskCreate was told
    uxLength,       \* of each queue or semaphore, how much it holds
    pc,             \* of each task: its next step
    delay,          \* of each task: the ticks it still sleeps, or waits at most
    waits,          \* of each task: the queue it waits for, NoQueue if for none
    queue,          \* of each queue: what is in it; a semaphore holds tokens
    holder,         \* of a mutex: the task that has it
    inside,         \* how many ticks came between two steps of a task
    data            \* the demonstration's own variables

kernel == <<delay, waits, queue, holder>>
vars == <<demo, priority, uxLength, pc, kernel, inside, data>>

None == "none"                          \* no holder
NoQueue == <<>>                         \* not waiting
Forever == -1                           \* portMAX_DELAY
Tasks == DOMAIN pc
Token == "token"
Halted == "halted"                      \* with the interrupts masked, or asleep for good

-----------------------------------------------------------------------------
\* what a task that waits for q waits for: an item to receive, or room to send
ForItem(q) == <<"item", q>>
ForRoom(q) == <<"room", q>>
Served(t) == \E q \in DOMAIN queue :
    \/ waits[t] = ForItem(q) /\ queue[q] # <<>>
    \/ waits[t] = ForRoom(q) /\ Len(queue[q]) < uxLength[q]
Ready(t) == pc[t] # "ended" /\ (delay[t] = 0 \/ Served(t))

uxPriority(t) ==        \* its own, or that of a task it keeps from a mutex
    LET kept == {u \in Tasks : \E m \in DOMAIN holder :
                    holder[m] = t /\ waits[u] = ForItem(m) /\ delay[u] # 0}
    IN  CHOOSE p \in {priority[u] : u \in kept \cup {t}} :
            \A u \in kept \cup {t} : priority[u] <= p
Running ==              \* those the scheduler may run: of the ready ones, the highest
    LET ready == {t \in Tasks : Ready(t)}
        prio == [t \in ready |-> uxPriority(t)]
    IN  {t \in ready : \A u \in ready : prio[u] <= prio[t]}

\* the running task goes from one point to another
Goes(t, from, to) ==
    /\ pc[t] = from
    /\ pc' = [pc EXCEPT ![t] = to]
    /\ UNCHANGED <<demo, inside, priority, uxLength>>
Local(t, from, to) == Goes(t, from, to) /\ UNCHANGED kernel
vTaskDelay(t, from, ticks, to) ==
    /\ Goes(t, from, to)
    /\ delay' = [delay EXCEPT ![t] = ticks]
    /\ UNCHANGED <<waits, queue, holder, data>>

\* A call that may wait on q: it is made when it can be, gives up when the time is over,
\* and waits otherwise.
Can(q, what) == IF what = ForItem(q) THEN queue[q] # <<>> ELSE Len(queue[q]) < uxLength[q]
Awake(t) == /\ waits' = [waits EXCEPT ![t] = NoQueue]
            /\ delay' = [delay EXCEPT ![t] = 0]
GivesUp(t, from, q, what, timeout, to) ==
    /\ ~Can(q, what) /\ (timeout = 0 \/ (waits[t] = what /\ delay[t] = 0))
    /\ Goes(t, from, to) /\ Awake(t)
    /\ UNCHANGED <<queue, holder, data>>
Waits(t, from, q, what, timeout) ==
    /\ ~Can(q, what) /\ timeout # 0 /\ waits[t] = NoQueue
    /\ Goes(t, from, from)
    /\ waits' = [waits EXCEPT ![t] = what]
    /\ delay' = [delay EXCEPT ![t] = timeout]
    /\ UNCHANGED <<queue, holder, data>>

\* d is data once the item is received
xQueueReceive(t, from, q, timeout, got, missed, d) ==
    \/ /\ Can(q, ForItem(q)) /\ Goes(t, from, got) /\ Awake(t)
       /\ queue' = [queue EXCEPT ![q] = Tail(@)]
       /\ data' = d
       /\ UNCHANGED holder
    \/ GivesUp(t, from, q, ForItem(q), timeout, missed)
    \/ Waits(t, from, q, ForItem(q), timeout)
xQueueSend(t, from, q, item, timeout, sent, full) ==
    \/ /\ Can(q, ForRoom(q)) /\ Goes(t, from, sent) /\ Awake(t)
       /\ queue' = [queue EXCEPT ![q] = Append(@, item)]
       /\ UNCHANGED <<holder, data>>
    \/ GivesUp(t, from, q, ForRoom(q), timeout, full)
    \/ Waits(t, from, q, ForRoom(q), timeout)

\* a mutex is a semaphore that remembers who has it
TakeMutex(t, from, m, timeout, got, missed) ==
    \/ /\ Can(m, ForItem(m)) /\ Goes(t, from, got) /\ Awake(t)
       /\ queue' = [queue EXCEPT ![m] = <<>>]
       /\ holder' = [holder EXCEPT ![m] = t]
       /\ UNCHANGED data
    \/ GivesUp(t, from, m, ForItem(m), timeout, missed)
    \/ Waits(t, from, m, ForItem(m), timeout)
GiveMutex(t, from, m, to) ==
    /\ Goes(t, from, to)
    /\ queue' = [queue EXCEPT ![m] = <<Token>>]
    /\ holder' = [holder EXCEPT ![m] = None]
    /\ UNCHANGED <<delay, waits, data>>

\* the queues after a call that does not wait: it sends, or finds no room
Sent(qs, q, item) ==
    [qs EXCEPT ![q] = IF Len(@) < uxLength[q] THEN Append(@, item) ELSE @]

-----------------------------------------------------------------------------
(***************************************************************************)
(* A tick comes when all tasks wait, when the running task is busy, or     *)
(* between any two steps of the running task, which are microseconds       *)
(* apart: that happens MaxInside times at most in a run.                   *)
(***************************************************************************)
Tick(busy, qs, d) ==
    /\ \E running \in {Running} :
          \/ running \subseteq busy /\ inside' = inside
          \/ running # {} /\ inside < MaxInside /\ inside' = inside + 1
    /\ delay' = [t \in Tasks |-> IF delay[t] > 0 THEN delay[t] - 1 ELSE delay[t]]
    /\ queue' = qs /\ data' = d
    /\ UNCHANGED <<demo, priority, uxLength, pc, waits, holder>>

\* the tasks, the queues and the mutexes a demonstration creates before the
\* scheduler starts; a mutex is created free
Create(tasks, queues, mutexes) ==
    /\ priority = tasks
    /\ uxLength = queues
    /\ delay = [t \in DOMAIN tasks |-> 0]
    /\ waits = [t \in DOMAIN tasks |-> NoQueue]
    /\ queue = [q \in DOMAIN queues |-> IF q \in mutexes THEN <<Token>> ELSE <<>>]
    /\ holder = [m \in mutexes |-> None]
    /\ inside = 0
=============================================================================
