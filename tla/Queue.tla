-------------------------------- MODULE Queue --------------------------------
(***************************************************************************)
(* Queues, semaphores and mutexes (queue.c) on top of the scheduler, with  *)
(* the timeouts and the priority inheritance of tasks.c they call.         *)
(*                                                                         *)
(* A blocking call tries in one critical section; if it must wait it       *)
(* suspends the scheduler, locks the queue, looks at the clock and at the  *)
(* queue again, puts itself on the event list, unlocks the queue and       *)
(* resumes the scheduler, each a critical section of its own: kpc names    *)
(* the next one.  In the gaps interrupts use the queue and count ticks,    *)
(* and outside the suspension other tasks run.  The event lists are those  *)
(* of Scheduler; base priorities are InitialPriority, since no task        *)
(* changes a priority but by inheritance.                                  *)
(***************************************************************************)
EXTENDS Scheduler

CONSTANTS
    Queues,
    uxLength,       \* of each queue
    Buffers,        \* those with items; the others are semaphores
    Mutexes,        \* those semaphores that are mutexes
    Items

NoQueue == "no queue"
NoItem == "no item"
Nothing == "nothing"
Done == "pdPASS"
Failed == "errQUEUE"

ToReceive(x) == <<"xTasksWaitingToReceive", x>>
ToSend(x) == <<"xTasksWaitingToSend", x>>
queueUNLOCKED == -1
queueLOCKED_UNMODIFIED == 0

Senders == {"send", "front", "overwrite", "give"}
Receivers == {"receive", "peek", "take"}
Request == [task : Threads, op : Senders \cup Receivers, queue : Queues,
            item : Items \cup {NoItem}, ticks : 0..portMAX_DELAY]

\* uxTaskGetNumberOfTasks counts them
ASSUME TasksAssumption == IsFiniteSet(Tasks)
\* the caller tells a failure from an item: the one is returned, the other copied out
ASSUME ItemsAssumption == Failed \notin Items
\* overwriting is for queues of length one (the assertion in xQueueGenericSend);
\* a semaphore is given and taken, and nobody waits to give; the idle task makes no call
ASSUME QueueAssumption ==
    /\ Events = {ToReceive(x) : x \in Queues} \cup {ToSend(x) : x \in Queues}
    /\ uxLength \in [Queues -> Nat \ {0}] /\ \A x \in Mutexes : uxLength[x] = 1
    /\ Buffers \subseteq Queues /\ Mutexes \subseteq Queues \ Buffers
ASSUME RequestAssumption ==
    \A n \in DOMAIN Workloads : LET w == Workloads[n] IN
        /\ \A r \in w.requests \cup w.isr :
              /\ r.op = "overwrite" => uxLength[r.queue] = 1
              /\ r.op \in {"give", "take"} <=> r.queue \notin Buffers
              /\ r.op = "give" => r.ticks = 0
              /\ r.op \in {"send", "front", "overwrite"} => r.item \in Items
        /\ w.requests \cup w.isr \subseteq Request
        /\ \A r \in w.requests : r.task # Idle
        /\ \A r \in w.isr : r.queue \notin Mutexes /\ r.op # "peek"

Requests == Workloads[load].requests       \* the calls the tasks make
IsrRequests == Workloads[load].isr         \* the calls made from interrupts

VARIABLES
    q,          \* the queues
    call,       \* arguments, locals and answer of each task's call
    held        \* uxMutexesHeld of each task

qvars == <<q, call, held>>
allVars == <<vars, qvars>>

\* ticks and entered are xTicksToWait and the entry time, overflowed is
\* xNumOfOverflows # xOverflowCount; after says why the queue is unlocked.
\* History: asked, the ticks the caller gave, and waited, the timer interrupts
\* since then, up to a whole wrap.  With portMAX_DELAY no time is looked at.
NoCall == [op |-> "none", queue |-> NoQueue, item |-> NoItem,
           ticks |-> 0, entered |-> 0, overflowed |-> FALSE, inherited |-> FALSE,
           after |-> "none", answer |-> Nothing, asked |-> 0, waited |-> 0]
NewCall(r) == [NoCall EXCEPT !.op = r.op, !.queue = r.queue, !.item = r.item,
                             !.ticks = r.ticks, !.asked = r.ticks,
                             !.entered = IF r.ticks = portMAX_DELAY THEN 0
                                         ELSE k.xTickCount]
HasTimeout(t) == call[t].op # "none" /\ call[t].asked # portMAX_DELAY

-----------------------------------------------------------------------------
(***************************************************************************)
(* The storage area: a ring of n items (uxLength) with a place to write to *)
(* and a place last read from.  s is a record with the fields of Queue_t   *)
(* that the copy functions touch; positions are counted in items from      *)
(* pcHead, so pcTail is n.                                                 *)
(***************************************************************************)
Forward(i, n) == IF i + 1 >= n THEN 0 ELSE i + 1
Back(i, n) == IF i - 1 < 0 THEN n - 1 ELSE i - 1

EmptyStorage(n, filler) ==
    [items |-> [i \in 0..(n - 1) |-> filler],
     pcWriteTo |-> 0, pcReadFrom |-> n - 1, uxMessagesWaiting |-> 0]

\* the copy for queueSEND_TO_BACK, queueSEND_TO_FRONT and queueOVERWRITE
CopyToBack(s, n, v) ==
    [s EXCEPT !.items[s.pcWriteTo] = v, !.pcWriteTo = Forward(@, n),
              !.uxMessagesWaiting = @ + 1]
CopyToFront(s, n, v) ==
    [s EXCEPT !.items[s.pcReadFrom] = v, !.pcReadFrom = Back(@, n),
              !.uxMessagesWaiting = @ + 1]
Overwrite(s, n, v) ==
    [CopyToFront(s, n, v) EXCEPT
        !.uxMessagesWaiting = IF s.uxMessagesWaiting > 0 THEN @ - 1 ELSE @]

\* what a receive hands out, and the queue it leaves
FirstItem_before(s, n) == s.items[s.pcReadFrom]
FirstItem(s, n) == s.items[Forward(s.pcReadFrom, n)]
CopyFrom(s, n) ==
    [s EXCEPT !.pcReadFrom = Forward(@, n), !.uxMessagesWaiting = @ - 1]

\* what the ring means: the messages that wait, the next to be received first
Contents(s, n) == [i \in 1..s.uxMessagesWaiting |-> s.items[(s.pcReadFrom + i) % n]]

\* the representation: what the write position must be for Contents to be right
WellFormed(s, n, V) ==
    /\ s.items \in [0..(n - 1) -> V]
    /\ s.pcReadFrom \in 0..(n - 1) /\ s.pcWriteTo \in 0..(n - 1)
    /\ s.uxMessagesWaiting \in 0..n
    /\ s.pcWriteTo = (s.pcReadFrom + 1 + s.uxMessagesWaiting) % n

-----------------------------------------------------------------------------
(***************************************************************************)
(* The functions of queue.c.                                               *)
(***************************************************************************)
IsEmpty(x) == q[x].uxMessagesWaiting = 0        \* prvIsQueueEmpty
IsFull(x) == q[x].uxMessagesWaiting = uxLength[x]
MustWait(c) == IF c.op \in Receivers THEN IsEmpty(c.queue)
               ELSE IsFull(c.queue) /\ c.op # "overwrite"

prvCopyDataToQueue(x, c) ==
    LET s == q[x]
        n == uxLength[x]
    IN  CASE c.op = "give" /\ x \in Mutexes -> [s EXCEPT !.uxMessagesWaiting = @ + 1,
                                                        !.xMutexHolder = NoTask]
          [] c.op = "give" /\ x \notin Mutexes -> [s EXCEPT !.uxMessagesWaiting = @ + 1]
          [] c.op = "send"    -> CopyToBack(s, n, c.item)
          [] c.op = "front"   -> CopyToFront(s, n, c.item)
          [] c.op = "overwrite" -> Overwrite(s, n, c.item)

\* what is received from x, and the queue without it
Received(x) == IF x \in Buffers THEN FirstItem(q[x], uxLength[x]) ELSE Done
prvCopyDataFromQueue(x) ==
    IF x \in Buffers THEN CopyFrom(q[x], uxLength[x])
    ELSE [q[x] EXCEPT !.uxMessagesWaiting = @ - 1]

\* unblock the first task that waits, if any
Wake(s, e) == IF s.xTasksWaiting[e] = <<>> THEN [s |-> s, higher |-> FALSE]
              ELSE xTaskRemoveFromEventList(s, e)

\* what interrupts did to a locked queue, made good when it is unlocked
AfterWake(s, e) == Wake(s, e).s
WakeFor_one(s, e, count) == IF count > 0 THEN AfterWake(s, e) ELSE s
WakeFor(s, e, count) == FoldLeft(AfterWake, s, [i \in 1..count |-> e])

uxTaskGetNumberOfTasks == Cardinality(Threads)
\* an unlocked queue counts nothing
prvIncrementQueueLock(lock) ==
    IF lock # queueUNLOCKED /\ lock < uxTaskGetNumberOfTasks THEN lock + 1 ELSE lock

-----------------------------------------------------------------------------
(***************************************************************************)
(* Priority inheritance (tasks.c), from state k to state k.                *)
(***************************************************************************)
ChangePriority(s, t, p) == Relist([s EXCEPT !.uxPriority[t] = p], t, s.uxPriority[t])

xTaskPriorityInherit_none(s, h) == s
xTaskPriorityInherit(s, h) ==
    IF h # NoTask /\ s.uxPriority[h] < s.uxPriority[s.pxCurrentTCB]
    THEN ChangePriority(s, h, s.uxPriority[s.pxCurrentTCB])
    ELSE s
\* what it returns, also when the holder has inherited before
InheritanceOccurred(h) == h # NoTask /\ InitialPriority[h] < k.uxPriority[cur]

\* only the last mutex that is given back ends the inheritance
Disinherits_zero(t) ==              \* the count is compared before it is lowered
    k.uxPriority[t] # InitialPriority[t] /\ held[t] = 0
Disinherits(t) == k.uxPriority[t] # InitialPriority[t] /\ held[t] = 1
xTaskPriorityDisinherit(s, t) ==
    IF Disinherits(t) THEN ChangePriority(s, t, InitialPriority[t]) ELSE s

prvGetDisinheritPriorityAfterTimeout_self(x) == k.uxPriority[cur]   \* as if it still waited
prvGetDisinheritPriorityAfterTimeout(x) ==
    LET l == k.xTasksWaiting[ToReceive(x)]
    IN  IF l = <<>> THEN 0 ELSE k.uxPriority[Head(l)]

vTaskPriorityDisinheritAfterTimeout(s, h, highest) ==
    IF h = NoTask THEN s
    ELSE LET p == IF InitialPriority[h] < highest THEN highest ELSE InitialPriority[h]
         IN  IF s.uxPriority[h] # p /\ held[h] = 1 THEN ChangePriority(s, h, p) ELSE s

-----------------------------------------------------------------------------
(***************************************************************************)
(* The first critical section of a call: it does what it can do at once.   *)
(***************************************************************************)
To(pc, c) == /\ kpc' = [kpc EXCEPT ![cur] = pc]
             /\ call' = [call EXCEPT ![cur] = c]
\* the locals die with the call
Finish(c, a) == To("done", [NoCall EXCEPT !.op = c.op, !.queue = c.queue, !.answer = a,
                                          !.asked = c.asked, !.waited = c.waited])

GiveYields(s, x) ==     \* a waiting task is looked at first
    \/ s.xTasksWaiting[ToReceive(x)] # <<>> /\ Wake(s, ToReceive(x)).higher
    \/ s.xTasksWaiting[ToReceive(x)] = <<>> /\ x \in Mutexes /\ Disinherits(cur)

xQueueGenericSend(c) ==
    LET x == c.queue
        s == IF x \in Mutexes THEN xTaskPriorityDisinherit(k, cur) ELSE k
    IN  /\ c.op \in Senders /\ ~MustWait(c)
        /\ q' = [q EXCEPT ![x] = prvCopyDataToQueue(x, c)]
        /\ k' = Wake(s, ToReceive(x)).s
        /\ yieldReq' = GiveYields(s, x)
        /\ held' = IF x \in Mutexes THEN [held EXCEPT ![cur] = @ - 1] ELSE held
        /\ Finish(c, Done)

xQueueReceive(c) ==
    LET w == Wake(k, ToSend(c.queue))
    IN  /\ c.op = "receive" /\ ~MustWait(c)
        /\ q' = [q EXCEPT ![c.queue] = prvCopyDataFromQueue(c.queue)]
        /\ k' = w.s /\ yieldReq' = w.higher
        /\ Finish(c, Received(c.queue))
        /\ UNCHANGED held

xQueueSemaphoreTake(c) ==
    LET x == c.queue
        w == Wake(k, ToSend(x))
        owns == x \in Mutexes
    IN  /\ c.op = "take" /\ ~MustWait(c)
        /\ q' = [q EXCEPT ![x] = [prvCopyDataFromQueue(x) EXCEPT
                                    !.xMutexHolder = IF owns THEN cur ELSE NoTask]]
        /\ held' = IF owns THEN [held EXCEPT ![cur] = @ + 1] ELSE held
        /\ k' = w.s /\ yieldReq' = w.higher
        /\ Finish(c, Done)

PeekWakes(x) == Wake(k, ToReceive(x))
\* the item stays, so the next task that waits for one may have it
xQueuePeek(c) ==
    LET w == PeekWakes(c.queue)
    IN  /\ c.op = "peek" /\ ~MustWait(c)
        /\ k' = w.s /\ yieldReq' = w.higher
        /\ Finish(c, Received(c.queue))
        /\ UNCHANGED <<q, held>>

Refuse(c) ==
    /\ MustWait(c) /\ c.ticks = 0
    /\ Finish(c, Failed)
    /\ UNCHANGED <<k, yieldReq, q, held>>

\* the entry time was set when the call was made
GoToWait(c) ==
    /\ MustWait(c) /\ c.ticks > 0
    /\ To("suspend", c)
    /\ UNCHANGED <<k, yieldReq, q, held>>

Try(c) == /\ \/ xQueueGenericSend(c) \/ xQueueReceive(c) \/ xQueueSemaphoreTake(c)
             \/ xQueuePeek(c) \/ Refuse(c) \/ GoToWait(c)
          /\ UNCHANGED <<arg, tcb, left>>

\* A mutex is given by the task that holds it (xTaskPriorityDisinherit asserts
\* it), and no task takes one it holds.
Permitted(r) == r.queue \in Mutexes =>
                    ((r.op = "give") <=> (q[r.queue].xMutexHolder = cur))
Start(r) == At("run") /\ r.task = cur /\ Permitted(r) /\ Try(NewCall(r))
Retry == At("try") /\ Try(call[cur])

-----------------------------------------------------------------------------
(***************************************************************************)
(* The way into the event list and back.                                   *)
(***************************************************************************)
SuspendAll ==
    /\ At("suspend")
    /\ k' = [k EXCEPT !.uxSchedulerSuspended = @ + 1]
    /\ To("lock", call[cur])
    /\ UNCHANGED <<yieldReq, arg, tcb, left, q, held>>

prvLockQueue ==
    /\ At("lock")
    /\ LET lock(l) == IF l = queueUNLOCKED THEN queueLOCKED_UNMODIFIED ELSE l
           locked(s) == [s EXCEPT !.cRxLock = lock(@), !.cTxLock = lock(@)]
       IN  q' = [q EXCEPT ![call[cur].queue] = locked(@)]
    /\ To("check", call[cur])
    /\ UNCHANGED <<k, yieldReq, arg, tcb, left, held>>

Elapsed(c) == (k.xTickCount - c.entered) % Wrap
TimedOut_late(c) == \/ c.overflowed /\ k.xTickCount >= c.entered
                    \/ Elapsed(c) > c.ticks
TimedOut(c) == \/ c.overflowed /\ k.xTickCount >= c.entered
               \/ Elapsed(c) >= c.ticks
\* the time that is left; it starts anew from now
Remaining(c) == [c EXCEPT !.ticks = @ - Elapsed(c), !.entered = k.xTickCount,
                          !.overflowed = FALSE]

xTaskCheckForTimeOut ==
    /\ At("check")
    /\ LET c == call[cur]
       IN  \/ c.ticks = portMAX_DELAY /\ To("recheck", c)
           \/ c.ticks # portMAX_DELAY /\ ~TimedOut(c) /\ To("recheck", Remaining(c))
           \/ /\ c.ticks # portMAX_DELAY /\ TimedOut(c)
              /\ To("unlockTx", [c EXCEPT !.ticks = 0, !.after = "expired"])
    /\ UNCHANGED <<k, yieldReq, arg, tcb, left, q, held>>

Recheck ==
    /\ At("recheck")
    /\ LET c == call[cur]
       IN  \/ /\ MustWait(c)
              /\ To(IF c.queue \in Mutexes THEN "inherit" ELSE "place", c)
           \/ ~MustWait(c) /\ To("unlockTx", [c EXCEPT !.after = "retry"])
    /\ UNCHANGED <<k, yieldReq, arg, tcb, left, q, held>>

Inherit ==
    /\ At("inherit")
    /\ LET h == q[call[cur].queue].xMutexHolder
       IN  /\ k' = xTaskPriorityInherit(k, h)
           /\ To("place", [call[cur] EXCEPT !.inherited = InheritanceOccurred(h)])
    /\ UNCHANGED <<yieldReq, arg, tcb, left, q, held>>

Place ==
    /\ At("place")
    /\ LET c == call[cur]
           e == IF c.op \in Receivers THEN ToReceive(c.queue) ELSE ToSend(c.queue)
       IN  /\ k' = vTaskPlaceOnEventList(k, e, c.ticks)
           /\ To("unlockTx", [c EXCEPT !.after = "block"])
    /\ UNCHANGED <<yieldReq, arg, tcb, left, q, held>>

UnlockTx ==
    /\ At("unlockTx")
    /\ LET x == call[cur].queue
       IN  /\ k' = WakeFor(k, ToReceive(x), q[x].cTxLock)
           /\ q' = [q EXCEPT ![x].cTxLock = queueUNLOCKED]
    /\ To("unlockRx", call[cur])
    /\ UNCHANGED <<yieldReq, arg, tcb, left, held>>

UnlockRx ==
    /\ At("unlockRx")
    /\ LET x == call[cur].queue
       IN  /\ k' = WakeFor(k, ToSend(x), q[x].cRxLock)
           /\ q' = [q EXCEPT ![x].cRxLock = queueUNLOCKED]
    /\ To("resumeCall", call[cur])
    /\ UNCHANGED <<yieldReq, arg, tcb, left, held>>

\* The ticks that were put off may overflow the count, for this task and others.
Overflow(c) == [t \in Threads |->
    IF HasTimeout(t) THEN [c[t] EXCEPT !.overflowed = @ \/ k'.xTickCount < k.xTickCount]
    ELSE c[t]]
ResumeCall ==
    /\ At("resumeCall")
    /\ \E r \in {xTaskResumeAll(k)} :
       LET c == [call[cur] EXCEPT !.after = "none"]
           on(pc) == /\ kpc' = [kpc EXCEPT ![cur] = pc]
                     /\ call' = Overflow([call EXCEPT ![cur] = c])
       IN  /\ k' = r.s /\ yieldReq' = r.yielded
           /\ \/ call[cur].after = "retry" /\ on("try")
              \/ /\ call[cur].after = "block"
                 /\ on(IF r.yielded THEN "try" ELSE "yieldCall")
              \/ call[cur].after = "expired" /\ on("expired")
    /\ UNCHANGED <<arg, tcb, left, q, held>>

YieldCall ==
    /\ At("yieldCall")
    /\ yieldReq' = TRUE
    /\ To("try", call[cur])
    /\ UNCHANGED <<k, arg, tcb, left, q, held>>

\* a sender gives up at once, a receiver if the queue is still empty
Expired ==
    /\ At("expired")
    /\ LET c == call[cur]
       IN  \/ c.op \in Senders /\ Finish(c, Failed)
           \/ c.op \in Receivers /\ ~MustWait(c) /\ To("try", c)
           \/ /\ c.op \in Receivers /\ MustWait(c)
              /\ IF c.inherited THEN To("disinherit", c) ELSE Finish(c, Failed)
    /\ UNCHANGED <<k, yieldReq, arg, tcb, left, q, held>>

DisinheritAfterTimeout ==
    /\ At("disinherit")
    /\ LET x == call[cur].queue
       IN  k' = vTaskPriorityDisinheritAfterTimeout(k, q[x].xMutexHolder,
                    prvGetDisinheritPriorityAfterTimeout(x))
    /\ Finish(call[cur], Failed)
    /\ UNCHANGED <<yieldReq, arg, tcb, left, q, held>>

ReturnCall ==
    /\ At("done")
    /\ To("run", NoCall)
    /\ UNCHANGED <<k, yieldReq, arg, tcb, left, q, held>>

-----------------------------------------------------------------------------
(***************************************************************************)
(* Interrupts.                                                             *)
(***************************************************************************)
WakeFromIsr(e, lock) == \* now, or it is counted for the task that unlocks
    IF lock = queueUNLOCKED THEN \E w \in {Wake(k, e)} : HandlerEnd(w.s, w.higher)
    ELSE HandlerEnd(k, FALSE)

\* with xQueueGiveFromISR, which does the same for a semaphore
xQueueGenericSendFromISR(r) ==
    LET x == r.queue
        lock == q[x].cTxLock
    IN  /\ r.op \in Senders /\ ~MustWait(r)
        /\ q' = [q EXCEPT ![x] = [prvCopyDataToQueue(x, r) EXCEPT
                                    !.cTxLock = prvIncrementQueueLock(@)]]
        /\ WakeFromIsr(ToReceive(x), lock)
        /\ UNCHANGED <<kpc, arg, tcb, left, call, held>>

xQueueReceiveFromISR(r) ==
    LET x == r.queue
        lock == q[x].cRxLock
    IN  /\ r.op = "receive" /\ ~MustWait(r)
        /\ q' = [q EXCEPT ![x] = [prvCopyDataFromQueue(x) EXCEPT
                                    !.cRxLock = prvIncrementQueueLock(@)]]
        /\ WakeFromIsr(ToSend(x), lock)
        /\ UNCHANGED <<kpc, arg, tcb, left, call, held>>

Counted(n) == IF n < Wrap THEN n + 1 ELSE n
Tick ==
    /\ TickIsr
    /\ call' = Overflow([t \in Threads |->
                  IF HasTimeout(t) THEN [call[t] EXCEPT !.waited = Counted(@)] ELSE call[t]])
    /\ UNCHANGED <<q, held>>

-----------------------------------------------------------------------------
\* xQueueGenericReset of new queues; prvInitialiseMutex gives the mutex
InitialQueue(x) ==
    LET s == EmptyStorage(uxLength[x], NoItem)
    IN  [items |-> s.items, pcWriteTo |-> s.pcWriteTo, pcReadFrom |-> s.pcReadFrom,
         uxMessagesWaiting |-> IF x \in Mutexes THEN 1 ELSE 0,
         cRxLock |-> queueUNLOCKED, cTxLock |-> queueUNLOCKED, xMutexHolder |-> NoTask]
QueueInit ==
    /\ Init
    /\ q = [x \in Queues |-> InitialQueue(x)]
    /\ call = [t \in Threads |-> NoCall]
    /\ held = [t \in Threads |-> 0]

Waiting == \/ SuspendAll \/ prvLockQueue \/ xTaskCheckForTimeOut \/ Recheck \/ Inherit
           \/ Place \/ UnlockTx \/ UnlockRx \/ ResumeCall \/ YieldCall \/ Expired
           \/ DisinheritAfterTimeout
QueueCall == (\E r \in Requests : Start(r)) \/ Retry \/ Waiting \/ ReturnCall
Delaying ==
    \/ /\ (\E n \in Delays : vTaskDelay(n)) \/ AddToDelayedList \/ portYIELD_WITHIN_API
          \/ IdleYield \/ YieldIsr
       /\ UNCHANGED qvars
    \/ ResumeAndYield /\ call' = Overflow(call) /\ UNCHANGED <<q, held>>
QueueIsr == \E r \in IsrRequests : xQueueGenericSendFromISR(r) \/ xQueueReceiveFromISR(r)

QueueNext == /\ QueueCall \/ Delaying \/ QueueIsr \/ Tick
             /\ UNCHANGED load
QueueSpec == QueueInit /\ [][QueueNext]_allVars

\* Fairness: as in Scheduler, and a task that holds a mutex gives it back some
\* time, though it may be delayed before (strong fairness).
Holds(t, x) == q[x].xMutexHolder = t
MayGive(x) == At("run") /\ Holds(cur, x)
Give(x) == kpc[cur] = "run" /\ \E r \in Requests : r.op = "give" /\ r.queue = x /\ Start(r)
Continue == kpc[cur] # "run" /\ (Retry \/ Waiting \/ ReturnCall \/ Delaying)
QueueFairSpec ==
    /\ QueueSpec
    /\ []<>(k.xPendedTicks = MaxPended) \/ []<><<Tick>>_allVars
    /\ []<>~yieldReq \/ []<><<YieldIsr>>_allVars
    /\ []<>(yieldReq \/ kpc[cur] = "run") \/ []<><<Continue>>_allVars
    /\ \A x \in Mutexes : []<>MayGive(x) => []<><<Give(x)>>_allVars

-----------------------------------------------------------------------------
(***************************************************************************)
(* Properties.                                                             *)
(***************************************************************************)
\* No wake-up is lost: while tasks wait to receive from an unlocked queue, each
\* message in it is for a receiver that has been woken, or has yet to look, and
\* will find it; the same of the free places and the senders.  This is what
\* the two locks and their counts are for (queue.c:246-293).
Underway(x, ops, e) == {t \in Tasks : /\ call[t].queue = x /\ call[t].op \in ops
                                      /\ kpc[t] # "done" /\ t \notin WaitingOn(e)}
NoLostWakeup ==
    \A x \in Queues :
        /\ q[x].cTxLock = queueUNLOCKED /\ WaitingOn(ToReceive(x)) # {} =>
              q[x].uxMessagesWaiting
                <= Cardinality(Underway(x, Receivers, ToReceive(x)))
        /\ q[x].cRxLock = queueUNLOCKED /\ WaitingOn(ToSend(x)) # {} =>
              uxLength[x] - q[x].uxMessagesWaiting
                <= Cardinality(Underway(x, Senders, ToSend(x)))

\* A call fails only after as many timer interrupts as the caller asked for,
\* never with portMAX_DELAY, and it stays blocked no longer, however often it was
\* woken for a message another task took first and went back to wait
\* (xTaskCheckForTimeOut), and across the overflow of the tick count; unless it
\* was kept from the processor for a whole wrap of the count.
TimeoutExact ==
    \A t \in Tasks :
        /\ kpc[t] = "done" /\ call[t].answer = Failed =>
              call[t].asked # portMAX_DELAY /\ call[t].waited >= call[t].asked
        /\ Unlocked /\ t \in Delayed /\ HasTimeout(t) =>
              call[t].waited < call[t].asked \/ call[t].waited = Wrap

\* Each message is received once and in the order it was sent, whatever tasks and
\* interrupts interleave: the queues implement bounded buffers.
BB == INSTANCE BoundedBuffer WITH
        Capacity <- uxLength, Buffers <- Buffers, Values <- Items, Clients <- Tasks,
        Refused <- Failed,
        buffer <- [x \in Buffers |-> Contents(q[x], uxLength[x])],
        answer <- [t \in Tasks |-> IF call[t].queue \in Buffers THEN call[t].answer ELSE Nothing]
IsBoundedBuffer == BB!Spec

\* A mutex's holder has at least the priority of each task that waits for it
\* (xTaskPriorityInherit, and vTaskPriorityDisinheritAfterTimeout for those that
\* remain), where no task waits for one mutex while it holds another.  An
\* inherited priority does not outlive its cause: where a task takes no second
\* mutex (PriorityRestored), it runs above its own priority only while it holds one
\* and a task of that priority is in a call that takes it.  And the highest ready
\* task runs also while mutexes raise and lower priorities, where no task waits for
\* a mutex that a task above it takes: one that does keeps xQueueGenericSend from
\* asking for the switch.
OneMutex == Cardinality({r.queue : r \in Requests} \cap Mutexes) = 1
WaitersAbove ==
    \A r, s \in Requests : r.op = "take" /\ s.op = "take" /\ r.queue = s.queue
        /\ r.ticks > 0 => InitialPriority[s.task] <= InitialPriority[r.task]
HolderInherits ==
    /\ \A x \in Mutexes : \A t \in WaitingOn(ToReceive(x)), h \in Tasks :
          Holds(h, x) => k.uxPriority[h] >= k.uxPriority[t]
    /\ OneMutex => \A t \in Tasks : k.uxPriority[t] # InitialPriority[t] =>
          \E x \in Mutexes, u \in Tasks :
              /\ Holds(t, x) /\ call[u].queue = x /\ kpc[u] # "done"
              /\ k.uxPriority[u] = k.uxPriority[t]
    /\ WaitersAbove => HighestPriorityRuns

\* A task's count of mutexes (uxMutexesHeld), by which it is told that it has given
\* the last one back, is that of the mutexes that name it their holder, whoever else
\* waited, was raised or timed out meanwhile; and a task that has given all of them
\* back has its own priority again.
PriorityRestored ==
    \A t \in Tasks :
        /\ held[t] = Cardinality({x \in Mutexes : Holds(t, x)})
        /\ held[t] = 0 => k.uxPriority[t] = InitialPriority[t]

\* Mutual exclusion against priority inversion: a task that waits for a mutex
\* without a timeout gets it, although tasks between it and the holder may
\* compute for ever.
InversionBounded ==
    \A t \in Tasks : (OneMutex /\ call[t].op = "take" /\ call[t].asked = portMAX_DELAY
                        /\ \A u \in Tasks : InitialPriority[u] <= InitialPriority[t])
                     ~> kpc[t] = "run"
=============================================================================
