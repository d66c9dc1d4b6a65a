------------------------------ MODULE Scheduler ------------------------------
(***************************************************************************)
(* The FreeRTOS scheduler (tasks.c, with the list operations of list.c and *)
(* list.h) as this port configures it: preemption, time slicing, generic   *)
(* task selection, no tick hook, no tickless idle.                         *)
(*                                                                         *)
(* k holds the kernel's globals under their names in the source.  A        *)
(* critical section is one step, since interrupts are masked in it; every  *)
(* gap between two critical sections of one call is a value of kpc, and    *)
(* the tick, the yield interrupt and a signal from an interrupt fall into  *)
(* it.  Event lists are named by Events; the queue that owns one is        *)
(* modelled only by its lock.                                              *)
(***************************************************************************)
EXTENDS Integers, Sequences, FiniteSets, SequencesExt

CONSTANTS
    Tasks,          \* the application's tasks
    Idle,           \* the task vTaskStartScheduler creates last
    MaxPriority,    \* configMAX_PRIORITIES - 1
    Events,         \* the event lists of queues and semaphores
    Wrap,           \* xTickCount counts modulo Wrap
    Workloads,      \* the applications, by name
    MaxSuspended    \* the deepest nesting of vTaskSuspendAll

NoTask == "none"            \* a null handle
NoEvent == "no event"
Threads == Tasks \cup {Idle}
Priorities == 0..MaxPriority
portMAX_DELAY == Wrap - 1

ASSUME ThreadsAssumption == Idle \notin Tasks /\ NoTask \notin Tasks \cup {Idle}
ASSUME BoundsAssumption ==
    /\ Wrap \in Nat /\ Wrap > 1
    /\ MaxPriority \in Nat
    /\ MaxSuspended \in Nat /\ MaxSuspended > 0
ASSUME WorkloadAssumption ==
    \A n \in DOMAIN Workloads : LET w == Workloads[n] IN
        /\ w.created \in Seq(Tasks)
        /\ \A i, j \in DOMAIN w.created : w.created[i] = w.created[j] => i = j
        /\ w.priority \in [Threads -> Priorities] /\ w.priority[Idle] = 0
        /\ w.priorities \subseteq Priorities
        /\ w.delays \subseteq 0..portMAX_DELAY /\ w.pended \in Nat
        /\ w.callers \subseteq Tasks

VARIABLES
    k,          \* the globals of tasks.c and the fields of the TCBs
    yieldReq,   \* a yield interrupt is pending (PicoPort's irq_6)
    kpc,        \* where each task is inside a kernel call, or "run"
    arg,        \* the arguments and locals of that call
    tcb,        \* history: "live", "dead" (deleted) or "free" memory
    left,       \* history: timer interrupts until a delay is over
    load        \* the name of the application: chosen once, never changed

vars == <<k, yieldReq, kpc, arg, tcb, left, load>>

Created == Workloads[load].created             \* the tasks main() creates, in that order
InitialPriority == Workloads[load].priority    \* of every task
Delays == Workloads[load].delays               \* the delays and timeouts it asks for
Calls == Workloads[load].calls                 \* which kernel calls it makes
Callers == Workloads[load].callers             \* and in which tasks
MaxPended == Workloads[load].pended            \* the most ticks while it suspends the scheduler

NoArg == [task |-> NoTask, event |-> NoEvent, ticks |-> 0]
Kpcs == {"run", "add", "unlock", "resume", "yield", "reset", "free", "created"}

-----------------------------------------------------------------------------
(***************************************************************************)
(* Lists.  index is the position of pxIndex, 0 when it is at xListEnd.     *)
(***************************************************************************)
EmptyList == [items |-> <<>>, index |-> 0]

Position(s, t) == SelectInSeq(s, LAMBDA u : u = t)              \* 0 when not in it
OwnerPosition(s, t) == SelectInSeq(s, LAMBDA d : d.owner = t)
FirstLater(s, v) == SelectInSeq(s, LAMBDA d : d.value > v)

listINSERT_END(l, t) ==
    IF l.index = 0
    THEN [l EXCEPT !.items = Append(@, t)]
    ELSE [items |-> InsertAt(l.items, l.index, t), index |-> l.index + 1]

uxListRemove(l, t) ==
    LET i == Position(l.items, t)
    IN  IF i = 0 THEN l
        ELSE [items |-> RemoveAt(l.items, i),
              index |-> IF i <= l.index THEN l.index - 1 ELSE l.index]

NextIndex(l) == IF l.index = Len(l.items) THEN 1 ELSE l.index + 1

\* vListInsert: i is the first item that belongs behind the new one, if any
Insert(s, x, i) == IF i = 0 THEN Append(s, x) ELSE InsertAt(s, i, x)

\* a list without the item at position i, if there is one
RemoveItem(s, i) == IF i = 0 THEN s ELSE RemoveAt(s, i)
Without(s, t) == RemoveItem(s, Position(s, t))
Owners(s) == {s[i].owner : i \in DOMAIN s}
WithoutOwner(s, t) == RemoveItem(s, OwnerPosition(s, t))

-----------------------------------------------------------------------------
(***************************************************************************)
(* The functions of tasks.c, from state k to state k.                      *)
(***************************************************************************)
ReadyAt(p) == ToSet(k.pxReadyTasksLists[p].items)
Ready == UNION {ReadyAt(p) : p \in Priorities}
Delayed == Owners(k.pxDelayedTaskList) \cup Owners(k.pxOverflowDelayedTaskList)
WaitingOn(e) == ToSet(k.xTasksWaiting[e])
PendingReady == ToSet(k.xPendingReadyList)
cur == k.pxCurrentTCB

prvAddTaskToReadyList(s, t) ==
    LET p == s.uxPriority[t]
    IN  [s EXCEPT !.uxTopReadyPriority = IF p > @ THEN p ELSE @,
                  !.pxReadyTasksLists[p] = listINSERT_END(@, t)]

\* uxListRemove of xStateListItem, and of xEventListItem if it is in a list
RemoveState(s, t) ==
    [s EXCEPT !.pxReadyTasksLists = [p \in Priorities |-> uxListRemove(@[p], t)],
              !.pxDelayedTaskList = WithoutOwner(@, t),
              !.pxOverflowDelayedTaskList = WithoutOwner(@, t),
              !.xSuspendedTaskList = @ \ {t}]
RemoveEvent(s, t) ==
    [s EXCEPT !.xTasksWaiting = [e \in Events |-> Without(@[e], t)],
              !.xPendingReadyList = Without(@, t)]
Unlink(s, t) == RemoveEvent(RemoveState(s, t), t)

prvResetNextTaskUnblockTime(s) ==
    [s EXCEPT !.xNextTaskUnblockTime =
        IF s.pxDelayedTaskList = <<>> THEN portMAX_DELAY
        ELSE Head(s.pxDelayedTaskList).value]

taskSWITCH_DELAYED_LISTS(s) ==
    prvResetNextTaskUnblockTime(
        [s EXCEPT !.pxDelayedTaskList = s.pxOverflowDelayedTaskList,
                  !.pxOverflowDelayedTaskList = s.pxDelayedTaskList])

Overflows_never(wake, now) == FALSE \* the wrap of the wake time is not seen
Overflows(wake, now) == wake < now

prvAddCurrentTaskToDelayedList(s, n, indefinitely) ==
    LET t == s.pxCurrentTCB
        wake == (s.xTickCount + n) % Wrap
        item == [owner |-> t, value |-> wake]
        s1 == RemoveState(s, t)
    IN  IF n = portMAX_DELAY /\ indefinitely
        THEN [s1 EXCEPT !.xSuspendedTaskList = @ \cup {t}]
        ELSE IF Overflows(wake, s.xTickCount)
        THEN [s1 EXCEPT !.pxOverflowDelayedTaskList = Insert(@, item, FirstLater(@, wake))]
        ELSE [s1 EXCEPT !.pxDelayedTaskList = Insert(@, item, FirstLater(@, wake)),
                        !.xNextTaskUnblockTime = IF wake < @ THEN wake ELSE @]

\* the head of the delayed list is due: move it to its ready list
Unblock(s, t) ==
    prvAddTaskToReadyList(Unlink(s, t), t)

SharesPriority_two(l) == Len(l.items) > 2    \* the running task not counted
SharesPriority(l) == Len(l.items) > 1

xTaskIncrementTick(s) ==            \* the new state, and xSwitchRequired
    IF s.uxSchedulerSuspended > 0
    THEN [s |-> [s EXCEPT !.xPendedTicks = @ + 1], switch |-> FALSE]
    ELSE LET now == (s.xTickCount + 1) % Wrap
             s1 == [s EXCEPT !.xTickCount = now]
             s2 == IF now = 0 THEN taskSWITCH_DELAYED_LISTS(s1) ELSE s1
             expired == now >= s2.xNextTaskUnblockTime
             first == FirstLater(s2.pxDelayedTaskList, now)
             due == IF ~expired THEN <<>>
                    ELSE IF first = 0 THEN s2.pxDelayedTaskList
                    ELSE SubSeq(s2.pxDelayedTaskList, 1, first - 1)
             s3 == FoldLeft(LAMBDA u, d : Unblock(u, d.owner), s2, due)
             s4 == IF expired THEN prvResetNextTaskUnblockTime(s3) ELSE s3
             p == s.uxPriority[s.pxCurrentTCB]
         IN  [s |-> s4,
              switch |-> \/ \E d \in ToSet(due) : s.uxPriority[d.owner] > p
                         \/ SharesPriority(s4.pxReadyTasksLists[p])
                         \/ s.xYieldPending]

vTaskSwitchContext(s) ==
    IF s.uxSchedulerSuspended > 0
    THEN [s EXCEPT !.xYieldPending = TRUE]
    ELSE LET p == CHOOSE q \in 0..s.uxTopReadyPriority :
                    /\ s.pxReadyTasksLists[q].items # <<>>
                    /\ \A r \in (q + 1)..s.uxTopReadyPriority :
                         s.pxReadyTasksLists[r].items = <<>>
             l == s.pxReadyTasksLists[p]
         IN  [s EXCEPT !.xYieldPending = FALSE,
                       !.pxReadyTasksLists[p].index = NextIndex(l),
                       !.pxCurrentTCB = l.items[NextIndex(l)],
                       !.uxTopReadyPriority = p]

\* tasks that were made ready while the scheduler was suspended
MovePendingReady(s) ==
    LET move(u, t) ==
          [Unblock(u, t) EXCEPT !.xYieldPending =
             @ \/ u.uxPriority[t] >= u.uxPriority[u.pxCurrentTCB]]
        moved == FoldLeft(move, s, s.xPendingReadyList)
    IN  IF s.xPendingReadyList = <<>> THEN s ELSE prvResetNextTaskUnblockTime(moved)

\* ticks that were counted while the scheduler was suspended
ProcessPendedTicks(s) ==
    LET tick(u, i) ==
          LET r == xTaskIncrementTick(u)
          IN  [r.s EXCEPT !.xYieldPending = @ \/ r.switch]
    IN  [FoldLeft(tick, s, [i \in 1..s.xPendedTicks |-> i]) EXCEPT !.xPendedTicks = 0]

YieldsNow(s) == s.xYieldPending

xTaskResumeAll(s) ==                \* the new state, and xAlreadyYielded
    LET s1 == [s EXCEPT !.uxSchedulerSuspended = @ - 1]
        s2 == ProcessPendedTicks(MovePendingReady(s1))
    IN  IF s1.uxSchedulerSuspended > 0 THEN [s |-> s1, yielded |-> FALSE]
        ELSE [s |-> s2, yielded |-> YieldsNow(s2)]

Preempts(s, t) == s.uxPriority[t] > s.uxPriority[s.pxCurrentTCB]

\* the new state, and whether the woken task has the higher priority
xTaskRemoveFromEventList(s, e) ==
    LET t == Head(s.xTasksWaiting[e])
        higher == Preempts(s, t)
        s1 == RemoveEvent(s, t)
        s2 == IF s.uxSchedulerSuspended = 0
              THEN prvAddTaskToReadyList(RemoveState(s1, t), t)
              ELSE [s1 EXCEPT !.xPendingReadyList = Append(@, t)]
    IN  [s |-> [s2 EXCEPT !.xYieldPending = @ \/ higher], higher |-> higher]

\* u is placed behind t: by priority, first come first among equals
Behind(s, t, u) == s.uxPriority[u] < s.uxPriority[t]
FirstBehind(s, l, t) == SelectInSeq(l, LAMBDA u : Behind(s, t, u))

vTaskPlaceOnEventList(s, e, n) ==
    LET t == s.pxCurrentTCB
        s1 == [s EXCEPT !.xTasksWaiting[e] = Insert(@, t, FirstBehind(s, @, t))]
    IN  prvAddCurrentTaskToDelayedList(s1, n, TRUE)

prvTaskIsTaskSuspended(s, t) ==
    /\ t \in s.xSuspendedTaskList
    /\ t \notin ToSet(s.xPendingReadyList)
    /\ \A e \in Events : t \notin ToSet(s.xTasksWaiting[e])

-----------------------------------------------------------------------------
(***************************************************************************)
(* Kernel calls of the running task.  A pending yield interrupt is taken   *)
(* before the task goes on (PicoPort!YieldServedOnReturn).                 *)
(***************************************************************************)
At(pc) == ~yieldReq /\ kpc[cur] = pc
Call(c) == At("run") /\ c \in Calls /\ cur \in Callers
Unlocked == k.uxSchedulerSuspended = 0

Goto(pc, a) ==
    /\ kpc' = [kpc EXCEPT ![cur] = pc]
    /\ arg' = [arg EXCEPT ![cur] = a]
Return == Goto("run", NoArg)
Stay == UNCHANGED <<kpc, arg>>
NotLate(n) == IF n > k.xPendedTicks THEN n - k.xPendedTicks ELSE 0
Forget(t) == left' = [left EXCEPT ![t] = 0]

vTaskDelay(n) ==
    /\ Call("delay") /\ Unlocked
    /\ IF n = 0
       THEN Goto("yield", NoArg) /\ UNCHANGED k
       ELSE /\ Goto("add", [NoArg EXCEPT !.ticks = n])
            /\ k' = [k EXCEPT !.uxSchedulerSuspended = @ + 1]
    /\ UNCHANGED <<yieldReq, tcb, left>>

\* a blocking receive that finds its queue empty and has locked it
Wait(e, n) ==
    /\ Call("wait") /\ Unlocked /\ n > 0
    /\ Goto("add", [NoArg EXCEPT !.ticks = n, !.event = e])
    /\ k' = [k EXCEPT !.uxSchedulerSuspended = @ + 1]
    /\ UNCHANGED <<yieldReq, tcb, left>>

AddToDelayedList ==
    /\ At("add") /\ arg[cur].event = NoEvent
    /\ k' = prvAddCurrentTaskToDelayedList(k, arg[cur].ticks, FALSE)
    /\ left' = [left EXCEPT ![cur] = NotLate(arg[cur].ticks)]
    /\ Goto("resume", NoArg)
    /\ UNCHANGED <<yieldReq, tcb>>

PlaceOnEventList ==
    /\ At("add") /\ arg[cur].event # NoEvent
    /\ k' = vTaskPlaceOnEventList(k, arg[cur].event, arg[cur].ticks)
    /\ left' = [left EXCEPT ![cur] = IF arg[cur].ticks = portMAX_DELAY THEN 0
                                     ELSE NotLate(arg[cur].ticks)]
    /\ Goto("unlock", arg[cur])
    /\ UNCHANGED <<yieldReq, tcb>>

prvUnlockQueue ==
    /\ At("unlock")
    /\ Goto("resume", NoArg)
    /\ UNCHANGED <<k, yieldReq, tcb, left>>

\* xTaskResumeAll at the end of a blocking call; it may have yielded already
ResumeAndYield ==
    /\ At("resume")
    /\ \E r \in {xTaskResumeAll(k)} :
           /\ k' = r.s
           /\ yieldReq' = r.yielded
           /\ Goto(IF r.yielded THEN "run" ELSE "yield", NoArg)
    /\ UNCHANGED <<tcb, left>>

portYIELD_WITHIN_API ==
    /\ At("yield")
    /\ yieldReq' = TRUE
    /\ Return
    /\ UNCHANGED <<k, tcb, left>>

taskYIELD ==
    /\ Call("yield")
    /\ yieldReq' = TRUE
    /\ UNCHANGED <<k, kpc, arg, tcb, left>>

\* a send that finds a task waiting
Signal(e) ==
    /\ Call("signal") /\ Unlocked /\ k.xTasksWaiting[e] # <<>>
    /\ \E r \in {xTaskRemoveFromEventList(k, e)} :
           k' = r.s /\ yieldReq' = r.higher
    /\ Forget(Head(k.xTasksWaiting[e]))
    /\ Stay /\ UNCHANGED tcb

vTaskSuspendAll ==
    /\ Call("lock") /\ k.uxSchedulerSuspended < MaxSuspended
    /\ k' = [k EXCEPT !.uxSchedulerSuspended = @ + 1]
    /\ Stay /\ UNCHANGED <<yieldReq, tcb, left>>

ResumeAll ==
    /\ Call("lock") /\ ~Unlocked
    /\ \E r \in {xTaskResumeAll(k)} : k' = r.s /\ yieldReq' = r.yielded
    /\ Stay /\ UNCHANGED <<tcb, left>>

\* the first of its two critical sections
vTaskSuspend(t) ==
    /\ Call("suspend") /\ tcb[t] = "live" /\ t # Idle
    /\ t = cur => Unlocked
    /\ k' = [Unlink(k, t) EXCEPT !.xSuspendedTaskList = @ \cup {t}]
    /\ Forget(t)
    /\ Goto("reset", [NoArg EXCEPT !.task = t])
    /\ UNCHANGED <<yieldReq, tcb>>

SuspendReset ==
    /\ At("reset")
    /\ k' = prvResetNextTaskUnblockTime(k)
    /\ Goto(IF arg[cur].task = cur THEN "yield" ELSE "run", NoArg)
    /\ UNCHANGED <<yieldReq, tcb, left>>

ResumeYields(t) == k.uxPriority[t] >= k.uxPriority[cur]

vTaskResume(t) ==
    /\ Call("suspend") /\ t # cur
    /\ prvTaskIsTaskSuspended(k, t)
    /\ k' = prvAddTaskToReadyList(RemoveState(k, t), t)
    /\ yieldReq' = ResumeYields(t)
    /\ Stay /\ UNCHANGED <<tcb, left>>

\* without a mutex in play uxBasePriority is uxPriority
PriorityYields_raise(t, p) ==       \* the running task keeps the processor
    t # cur /\ p > k.uxPriority[t] /\ p >= k.uxPriority[cur]
PriorityYields(t, p) ==
    IF t = cur THEN p < k.uxPriority[t]
    ELSE p > k.uxPriority[t] /\ p >= k.uxPriority[cur]
Relist_keep(s, t, p) == s           \* the task stays in its old ready list
Relist(s, t, p) ==
    IF t \in ToSet(s.pxReadyTasksLists[p].items)
    THEN prvAddTaskToReadyList(RemoveState(s, t), t) ELSE s

vTaskPrioritySet(t, p) ==
    /\ Call("priority") /\ tcb[t] = "live" /\ t # Idle
    /\ p # k.uxPriority[t]
    /\ k' = Relist([k EXCEPT !.uxPriority[t] = p], t, k.uxPriority[t])
    /\ yieldReq' = PriorityYields(t, p)
    /\ Stay /\ UNCHANGED <<tcb, left>>

vTaskDelete(t) ==
    /\ Call("delete") /\ tcb[t] = "live" /\ t # Idle
    /\ t = cur => Unlocked
    /\ LET s == Unlink(k, t)
       IN  k' = IF t = cur THEN [s EXCEPT !.xTasksWaitingTermination = Append(@, t)]
                ELSE prvResetNextTaskUnblockTime(s)
    /\ tcb' = [tcb EXCEPT ![t] = "dead"]
    /\ Forget(t)
    /\ Goto("free", [NoArg EXCEPT !.task = t])
    /\ UNCHANGED yieldReq

\* a task cannot free its own TCB: the idle task does it
FreesNow_self(t) == TRUE
FreesNow(t) == t # cur
prvDeleteTCB ==
    /\ At("free")
    /\ LET t == arg[cur].task
       IN  /\ tcb' = IF FreesNow(t) THEN [tcb EXCEPT ![t] = "free"] ELSE tcb
           /\ Goto(IF t = cur THEN "yield" ELSE "run", NoArg)
    /\ UNCHANGED <<k, yieldReq, left>>

prvCheckTasksWaitingTermination ==
    /\ At("run") /\ cur = Idle /\ k.xTasksWaitingTermination # <<>>
    /\ k' = [k EXCEPT !.xTasksWaitingTermination = Tail(@)]
    /\ Goto("free", [NoArg EXCEPT !.task = Head(k.xTasksWaitingTermination)])
    /\ UNCHANGED <<yieldReq, tcb, left>>

IdleYield ==
    /\ At("run") /\ cur = Idle /\ k.xTasksWaitingTermination = <<>>
    /\ Len(k.pxReadyTasksLists[0].items) > 1
    /\ yieldReq' = TRUE
    /\ UNCHANGED <<k, kpc, arg, tcb, left>>

xTaskCreate(t, p) ==
    /\ Call("create") /\ Unlocked /\ tcb[t] = "free"
    /\ k' = prvAddTaskToReadyList([k EXCEPT !.uxPriority[t] = p], t)
    /\ tcb' = [tcb EXCEPT ![t] = "live"]
    /\ kpc' = [kpc EXCEPT ![cur] = "created", ![t] = "run"]
    /\ arg' = [arg EXCEPT ![cur] = [NoArg EXCEPT !.task = t], ![t] = NoArg]
    /\ UNCHANGED <<yieldReq, left>>

CreateYields(t) == IF tcb[t] = "free" THEN BOOLEAN
                   ELSE {k.uxPriority[cur] < k.uxPriority[t]}
\* reads the new task's priority, whose memory may be free again by now
CreatedYield ==
    /\ At("created")
    /\ yieldReq' \in CreateYields(arg[cur].task)
    /\ Return
    /\ UNCHANGED <<k, tcb, left>>

-----------------------------------------------------------------------------
(***************************************************************************)
(* Interrupts.  The handler that ends with a switch also serves a yield    *)
(* that is pending.                                                        *)
(***************************************************************************)
HandlerEnd(s, switch) ==
    IF switch \/ yieldReq THEN k' = vTaskSwitchContext(s) /\ yieldReq' = FALSE
    ELSE k' = s /\ UNCHANGED yieldReq

TickIsr ==
    /\ k.xPendedTicks < MaxPended
    /\ \E r \in {xTaskIncrementTick(k)} : HandlerEnd(r.s, r.switch)
    /\ left' = [t \in Threads |-> IF left[t] > 0 THEN left[t] - 1 ELSE 0]
    /\ Stay /\ UNCHANGED tcb

YieldIsr ==
    /\ yieldReq
    /\ HandlerEnd(k, TRUE)
    /\ Stay /\ UNCHANGED <<tcb, left>>

\* a give from an interrupt; a locked queue puts it off until it is unlocked
IsrSignal(e) ==
    /\ "isr" \in Calls /\ k.xTasksWaiting[e] # <<>>
    /\ ~(kpc[cur] \in {"add", "unlock"} /\ arg[cur].event = e)
    /\ \E r \in {xTaskRemoveFromEventList(k, e)} : HandlerEnd(r.s, r.higher)
    /\ Forget(Head(k.xTasksWaiting[e]))
    /\ Stay /\ UNCHANGED tcb

-----------------------------------------------------------------------------
\* main() has created its tasks and vTaskStartScheduler the idle task
Init ==
    LET order == Created \o <<Idle>>
        s == [pxReadyTasksLists |-> [p \in Priorities |-> EmptyList],
              uxTopReadyPriority |-> 0,
              pxDelayedTaskList |-> <<>>, pxOverflowDelayedTaskList |-> <<>>,
              xSuspendedTaskList |-> {}, xPendingReadyList |-> <<>>,
              xTasksWaitingTermination |-> <<>>,
              xTasksWaiting |-> [e \in Events |-> <<>>],
              uxPriority |-> InitialPriority,
              xTickCount |-> 0, xPendedTicks |-> 0,
              xNextTaskUnblockTime |-> portMAX_DELAY,
              xYieldPending |-> FALSE, uxSchedulerSuspended |-> 0,
              pxCurrentTCB |-> Idle]
        first == FoldLeft(LAMBDA t, u : IF InitialPriority[t] <= InitialPriority[u]
                                        THEN u ELSE t, Head(order), Tail(order))
    IN  /\ load \in DOMAIN Workloads
        /\ k = [FoldLeft(prvAddTaskToReadyList, s, order) EXCEPT !.pxCurrentTCB = first]
        /\ yieldReq = FALSE
        /\ kpc = [t \in Threads |-> "run"]
        /\ arg = [t \in Threads |-> NoArg]
        /\ tcb = [t \in Threads |-> IF t \in ToSet(order) THEN "live" ELSE "free"]
        /\ left = [t \in Threads |-> 0]

Blocking == \/ \E n \in Delays : vTaskDelay(n) \/ \E e \in Events : Wait(e, n)
            \/ AddToDelayedList \/ PlaceOnEventList \/ prvUnlockQueue
            \/ ResumeAndYield \/ portYIELD_WITHIN_API
Waking == taskYIELD \/ (\E e \in Events : Signal(e)) \/ vTaskSuspendAll \/ ResumeAll
Managing == \/ \E t \in Tasks : \/ vTaskSuspend(t) \/ vTaskResume(t) \/ vTaskDelete(t)
                                \/ \E p \in Workloads[load].priorities : vTaskPrioritySet(t, p)
                                                         \/ xTaskCreate(t, p)
            \/ SuspendReset \/ prvDeleteTCB \/ CreatedYield
IdleTask == prvCheckTasksWaitingTermination \/ IdleYield
Interrupts == TickIsr \/ YieldIsr \/ \E e \in Events : IsrSignal(e)

Next == /\ Blocking \/ Waking \/ Managing \/ IdleTask \/ Interrupts
        /\ UNCHANGED load

Spec == Init /\ [][Next]_vars

\* Fairness: the timer goes on, a pending interrupt is taken, and a task that
\* is inside a kernel call and has the processor goes on.  The three formulas
\* are WF_vars of TickIsr, YieldIsr and InCall, with ENABLED written out.
InCall == /\ kpc[cur] # "run"
          /\ Blocking \/ SuspendReset \/ prvDeleteTCB \/ CreatedYield
FairSpec ==
    /\ Spec
    /\ []<>(k.xPendedTicks = MaxPended) \/ []<><<TickIsr>>_vars
    /\ []<>~yieldReq \/ []<><<YieldIsr>>_vars
    /\ []<>(yieldReq \/ kpc[cur] = "run") \/ []<><<InCall>>_vars

-----------------------------------------------------------------------------
(***************************************************************************)
(* Properties.                                                             *)
(***************************************************************************)
Item == [owner : Threads, value : 0..portMAX_DELAY]
IsList(l) == l.items \in Seq(Threads) /\ l.index \in 0..Len(l.items)

\* The types; pxIndex always points into its list.
TypeOK ==
    /\ \A p \in Priorities : IsList(k.pxReadyTasksLists[p])
    /\ k.pxDelayedTaskList \in Seq(Item) /\ k.pxOverflowDelayedTaskList \in Seq(Item)
    /\ k.xSuspendedTaskList \subseteq Tasks
    /\ k.xPendingReadyList \in Seq(Tasks) /\ k.xTasksWaitingTermination \in Seq(Tasks)
    /\ k.xTasksWaiting \in [Events -> Seq(Tasks)]
    /\ k.uxPriority \in [Threads -> Priorities] /\ k.uxTopReadyPriority \in Priorities
    /\ k.xTickCount \in 0..portMAX_DELAY /\ k.xNextTaskUnblockTime \in 0..portMAX_DELAY
    /\ k.xPendedTicks \in 0..MaxPended /\ k.uxSchedulerSuspended \in 0..MaxSuspended
    /\ k.xYieldPending \in BOOLEAN /\ k.pxCurrentTCB \in Threads
    /\ yieldReq \in BOOLEAN /\ kpc \in [Threads -> Kpcs]
    /\ tcb \in [Threads -> {"live", "dead", "free"}]
    /\ left \in [Threads -> 0..portMAX_DELAY]

\* Every live task's state item is in exactly one list and its event item in
\* at most one; a ready task waits on nothing, and a task held back for the
\* scheduler (xPendingReadyList) is held back only while it is suspended.
StateLists(t) ==
    Cardinality({p \in Priorities : t \in ReadyAt(p)})
    + Cardinality({i \in DOMAIN k.pxDelayedTaskList : k.pxDelayedTaskList[i].owner = t})
    + Cardinality({i \in DOMAIN k.pxOverflowDelayedTaskList :
                       k.pxOverflowDelayedTaskList[i].owner = t})
    + (IF t \in k.xSuspendedTaskList THEN 1 ELSE 0)
EventLists(t) ==
    Cardinality({e \in Events : t \in WaitingOn(e)}) + (IF t \in PendingReady THEN 1 ELSE 0)
ListsConsistent ==
    /\ TypeOK
    /\ \A t \in Threads :
          /\ StateLists(t) = IF tcb[t] = "live" THEN 1 ELSE 0
          /\ EventLists(t) <= IF t \in Ready THEN 0 ELSE 1
    /\ \A p \in Priorities : \A t \in ReadyAt(p) : k.uxPriority[t] = p
    /\ PendingReady # {} => ~Unlocked

\* Whenever the running task is in its own code, no interrupt is pending and
\* the scheduler is not suspended, it is ready and nothing ready has a higher
\* priority: every call and interrupt that changes this asks for a switch.
HighestPriorityRuns ==
    Unlocked /\ At("run") =>
        /\ cur \in Ready
        /\ \A p \in Priorities : ReadyAt(p) # {} =>
              p <= k.uxPriority[cur] /\ p <= k.uxTopReadyPriority

\* A delayed task is woken by the timer interrupt its delay ends with, no
\* sooner and no later, or by xTaskResumeAll if the scheduler was suspended
\* then, across the wrap of xTickCount and whatever wakes or deletes others.
WokenOnTime ==
    /\ \A t \in Threads : left[t] > 0 => t \in Delayed
    /\ Unlocked => \A t \in Delayed : left[t] > 0

\* The memory of a deleted task is freed only when nothing refers to it: the
\* processor is not on its stack and it is in no list.
FreedUnreferenced ==
    \A t \in Threads : tcb[t] = "free" =>
        t # cur /\ StateLists(t) + EventLists(t) = 0
                /\ t \notin ToSet(k.xTasksWaitingTermination)

\* xTaskRemoveFromEventList takes the waiting task of the highest priority
\* (the comment at tasks.c:3177), and the first come of those.
Woken(e) == Head(k.xTasksWaiting[e])
HighestWaiterFirst ==
    \A e \in Events : k.xTasksWaiting[e] # <<>> =>
        \A t \in WaitingOn(e) : k.uxPriority[t] <= k.uxPriority[Woken(e)]

\* Time slicing: a task that stays ready with nothing ready above it runs
\* again and again, whatever the tasks beside it do (xTaskIncrementTick,
\* listGET_OWNER_OF_NEXT_ENTRY).
TopReady(t) == t \in Ready /\ \A u \in Ready : k.uxPriority[u] <= k.uxPriority[t]
RoundRobin == \A t \in Threads : TopReady(t) ~> cur = t \/ ~TopReady(t)
=============================================================================
