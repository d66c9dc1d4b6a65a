----------------------------- MODULE TaskNotify -----------------------------
(***************************************************************************)
(* Task notifications and periodic tasks (tasks.c) on top of the           *)
(* scheduler.  A task waits for a notification in two critical sections    *)
(* with a switch between them, on no event list: its state item alone      *)
(* tells that it is blocked and ucNotifyState what for.                    *)
(* xTaskDelayUntil suspends the scheduler, looks at the clock, and goes on *)
(* as vTaskDelay does.  One notification per task, as configured.          *)
(***************************************************************************)
EXTENDS Scheduler

CONSTANTS
    ValueBits       \* the width of ulNotifiedValue

taskNOT_WAITING_NOTIFICATION == "not waiting"
taskWAITING_NOTIFICATION == "waiting"
taskNOTIFICATION_RECEIVED == "received"

Actions == {"eNoAction", "eSetBits", "eIncrement", "eSetValueWithOverwrite",
            "eSetValueWithoutOverwrite"}
Values == 0..(2^ValueBits - 1)
Notification == [by : Threads, to : Tasks, action : Actions, value : Values]
Await == [by : Tasks, op : {"take"}, ticks : 0..portMAX_DELAY, clear : BOOLEAN]
         \cup [by : Tasks, op : {"wait"}, ticks : 0..portMAX_DELAY,
               entry : Values, exit : Values]

ASSUME NotifyAssumption ==
    /\ ValueBits \in Nat \ {0}
    /\ \A n \in DOMAIN Workloads : LET w == Workloads[n] IN
          /\ w.notifies \subseteq Notification /\ w.isr \subseteq Notification
          /\ w.awaits \subseteq Await
          /\ w.periods \in [Tasks -> SUBSET (1..portMAX_DELAY)]

Awaits == Workloads[load].awaits        \* the waits for a notification
Notifies == Workloads[load].notifies    \* the notifications that tasks send
IsrNotifies == Workloads[load].isr      \* those that interrupts send
Periods == Workloads[load].periods      \* what each task asks of xTaskDelayUntil

VARIABLES
    notify,     \* ucNotifyState and ulNotifiedValue of each task
    lastWake,   \* what each task passes as pxPreviousWakeTime
    unseen,     \* history: what was notified and no wait has returned yet
    since       \* history: timer interrupts since the last wake time

nvars == <<notify, lastWake, unseen, since>>

BitsIn(v) == {i \in 0..(ValueBits - 1) : (v \div 2^i) % 2 = 1}
ValueOf(s) == FoldSet(LAMBDA i, v : v + 2^i, 0, s)
Or(v, w) == ValueOf(BitsIn(v) \cup BitsIn(w))
AndNot(v, w) == ValueOf(BitsIn(v) \ BitsIn(w))

-----------------------------------------------------------------------------
(***************************************************************************)
(* Waiting: ulTaskGenericNotifyTake and xTaskGenericNotifyWait.            *)
(***************************************************************************)
state(t) == notify[t].ucNotifyState
value(t) == notify[t].ulNotifiedValue

MustBlock_state(c) == state(cur) # taskNOTIFICATION_RECEIVED    \* also for a take
MustBlock(c) == IF c.op = "take" THEN value(cur) = 0
                ELSE state(cur) # taskNOTIFICATION_RECEIVED

StartWaiting(c) ==
    [notify EXCEPT ![cur] =
        [ucNotifyState |-> taskWAITING_NOTIFICATION,
         ulNotifiedValue |-> IF c.op = "wait" THEN AndNot(@.ulNotifiedValue, c.entry)
                             ELSE @.ulNotifiedValue]]

Begin(c) == At("run") /\ c.by = cur /\ Goto("awaited", c) /\ UNCHANGED <<tcb, lastWake, unseen, since>>

AwaitBlocked(c) ==
    /\ Begin(c) /\ Unlocked /\ MustBlock(c) /\ c.ticks > 0
    /\ notify' = StartWaiting(c)
    /\ k' = prvAddCurrentTaskToDelayedList(k, c.ticks, TRUE)
    /\ left' = [left EXCEPT ![cur] = IF c.ticks = portMAX_DELAY THEN 0 ELSE c.ticks]
    /\ yieldReq' = TRUE

AwaitNoTime(c) ==
    /\ Begin(c) /\ MustBlock(c) /\ c.ticks = 0
    /\ notify' = StartWaiting(c)
    /\ UNCHANGED <<k, yieldReq, left>>

AwaitAtOnce(c) ==
    /\ Begin(c) /\ ~MustBlock(c) /\ (c.ticks > 0 => Unlocked)
    /\ UNCHANGED <<notify, k, yieldReq, left>>

NotWaiting(v) == [notify EXCEPT ![cur] =
    [ucNotifyState |-> taskNOT_WAITING_NOTIFICATION, ulNotifiedValue |-> v]]
\* what the call returns; missed is history: it fails and does not see what came
Answer(failed) == Goto("done", [failed |-> failed, missed |-> failed /\ unseen[cur] # 0])

ulTaskGenericNotifyTake ==          \* the second critical section
    /\ At("awaited") /\ arg[cur].op = "take"
    /\ LET c == arg[cur]
           v == value(cur)
           rest(n) == IF c.clear \/ n = 0 THEN 0 ELSE n - 1
       IN  /\ notify' = NotWaiting(rest(v))
           /\ unseen' = [unseen EXCEPT ![cur] = IF v = 0 THEN @ ELSE rest(@)]
           /\ Answer(v = 0)
    /\ UNCHANGED <<k, yieldReq, tcb, left, lastWake, since>>

xTaskGenericNotifyWait ==           \* the second critical section
    /\ At("awaited") /\ arg[cur].op = "wait"
    /\ LET c == arg[cur]
           received == state(cur) = taskNOTIFICATION_RECEIVED
       IN  /\ notify' = NotWaiting(IF received THEN AndNot(value(cur), c.exit)
                                   ELSE value(cur))
           /\ unseen' = [unseen EXCEPT ![cur] = IF received THEN 0 ELSE @]
           /\ Answer(~received)
    /\ UNCHANGED <<k, yieldReq, tcb, left, lastWake, since>>

ReturnAnswer ==
    /\ At("done") /\ Return
    /\ UNCHANGED <<k, yieldReq, tcb, left, nvars>>

-----------------------------------------------------------------------------
(***************************************************************************)
(* Notifying, from a task and from an interrupt.                           *)
(***************************************************************************)
Updated(r, v) ==
    CASE r.action = "eNoAction" -> v
      [] r.action = "eSetBits" -> Or(v, r.value)
      [] r.action = "eIncrement" -> (v + 1) % 2^ValueBits
      [] r.action = "eSetValueWithOverwrite" -> r.value
      [] r.action = "eSetValueWithoutOverwrite" ->
            IF state(r.to) = taskNOTIFICATION_RECEIVED THEN v ELSE r.value

Notify(r) ==
    /\ r.action = "eIncrement" => value(r.to) + 1 \in Values   \* a bound
    /\ notify' = [notify EXCEPT ![r.to] =
                    [ucNotifyState |-> taskNOTIFICATION_RECEIVED,
                     ulNotifiedValue |-> Updated(r, @.ulNotifiedValue)]]
    /\ unseen' = [unseen EXCEPT ![r.to] = Updated(r, @)]
    /\ UNCHANGED <<lastWake, since>>

xTaskGenericNotify(r) ==
    /\ At("run") /\ r.by = cur
    /\ Notify(r)
    /\ IF state(r.to) = taskWAITING_NOTIFICATION
       THEN /\ k' = prvAddTaskToReadyList(RemoveState(k, r.to), r.to)
            /\ yieldReq' = Preempts(k, r.to)
            /\ Forget(r.to)
       ELSE UNCHANGED <<k, yieldReq, left>>
    /\ Stay /\ UNCHANGED tcb

Released(t) ==
    IF Unlocked THEN prvAddTaskToReadyList(RemoveState(k, t), t)
    ELSE [k EXCEPT !.xPendingReadyList = Append(@, t)]

xTaskGenericNotifyFromISR(r) ==
    /\ Notify(r)
    /\ IF state(r.to) = taskWAITING_NOTIFICATION
       THEN LET higher == Preempts(k, r.to)
            IN  /\ HandlerEnd([Released(r.to) EXCEPT !.xYieldPending = @ \/ higher], higher)
                /\ Forget(r.to)
       ELSE HandlerEnd(k, FALSE) /\ UNCHANGED left
    /\ Stay /\ UNCHANGED tcb

vTaskGenericNotifyGiveFromISR(r) ==     \* a function of its own, which increments
    r.action = "eIncrement" /\ xTaskGenericNotifyFromISR(r)

xTaskGenericNotifyStateClear(t) ==
    /\ Call("clear") /\ state(t) = taskNOTIFICATION_RECEIVED
    /\ notify' = [notify EXCEPT ![t].ucNotifyState = taskNOT_WAITING_NOTIFICATION]
    /\ unseen' = [unseen EXCEPT ![t] = 0]
    /\ Stay /\ UNCHANGED <<k, yieldReq, tcb, left, lastWake, since>>

ulTaskGenericNotifyValueClear(t, v) ==
    /\ Call("clear")
    /\ notify' = [notify EXCEPT ![t].ulNotifiedValue = AndNot(@, v)]
    /\ unseen' = [unseen EXCEPT ![t] = AndNot(@, v)]
    /\ Stay /\ UNCHANGED <<k, yieldReq, tcb, left, lastWake, since>>

-----------------------------------------------------------------------------
(***************************************************************************)
(* Suspension: a suspended task waits for no notification any more.        *)
(***************************************************************************)
SuspendTask(t) ==
    /\ vTaskSuspend(t)
    /\ notify' = [notify EXCEPT ![t].ucNotifyState =
                    IF @ = taskWAITING_NOTIFICATION THEN taskNOT_WAITING_NOTIFICATION ELSE @]
    /\ UNCHANGED <<lastWake, unseen, since>>

xTaskResumeFromISR(t) ==
    /\ "isrResume" \in Calls /\ prvTaskIsTaskSuspended(k, t)
    /\ LET yields == Unlocked /\ ResumeYields(t)
       IN  HandlerEnd([Released(t) EXCEPT !.xYieldPending = @ \/ yields], yields)
    /\ Stay /\ UNCHANGED <<tcb, left, nvars>>

-----------------------------------------------------------------------------
(***************************************************************************)
(* Periodic tasks.                                                         *)
(***************************************************************************)
DelayUntil(n) ==
    /\ At("run") /\ Unlocked /\ n \in Periods[cur]
    /\ k' = [k EXCEPT !.uxSchedulerSuspended = @ + 1]
    /\ Goto("until", [by |-> cur, op |-> "until", ticks |-> n])
    /\ UNCHANGED <<yieldReq, tcb, left, nvars>>

\* the time to wake is in the future, whichever of the two has wrapped
ShouldDelay_plain(last, wake, now) == wake > now
ShouldDelay(last, wake, now) ==
    IF now < last THEN wake < last /\ wake > now ELSE wake < last \/ wake > now

xTaskDelayUntil ==
    /\ At("until")
    /\ LET n == arg[cur].ticks
           now == k.xTickCount
           wake == (lastWake[cur] + n) % Wrap
           remaining == n - since[cur]
       IN  /\ k' = IF ShouldDelay(lastWake[cur], wake, now)
                   THEN prvAddCurrentTaskToDelayedList(k, (wake - now) % Wrap, FALSE)
                   ELSE k
           /\ lastWake' = [lastWake EXCEPT ![cur] = wake]
           /\ since' = [since EXCEPT ![cur] = @ - n]
           /\ left' = [left EXCEPT ![cur] = IF remaining > 0 THEN remaining ELSE 0]
    /\ Goto("resume", NoArg)
    /\ UNCHANGED <<yieldReq, tcb, notify, unseen>>

\* a bound: no periodic task is late by as much as the tick count can tell
Periodic(t) == Periods[t] # {}
NotifyTick ==
    /\ \A t \in Tasks : Periodic(t) => since[t] + 1 < Wrap
    /\ TickIsr
    /\ since' = [t \in Tasks |-> IF Periodic(t) THEN since[t] + 1 ELSE 0]
    /\ UNCHANGED <<notify, lastWake, unseen>>

-----------------------------------------------------------------------------
NotifyInit ==
    /\ notify = [t \in Tasks |-> [ucNotifyState |-> taskNOT_WAITING_NOTIFICATION,
                                  ulNotifiedValue |-> 0]]
    /\ lastWake = [t \in Tasks |-> 0]
    /\ unseen = [t \in Tasks |-> 0]
    /\ since = [t \in Tasks |-> 0]

NotifyNext ==
    \/ \E c \in Awaits : AwaitBlocked(c) \/ AwaitNoTime(c) \/ AwaitAtOnce(c)
    \/ ulTaskGenericNotifyTake \/ xTaskGenericNotifyWait \/ ReturnAnswer
    \/ \E r \in Notifies : xTaskGenericNotify(r)
    \/ \E r \in IsrNotifies : \/ vTaskGenericNotifyGiveFromISR(r)
                              \/ r.action # "eIncrement" /\ xTaskGenericNotifyFromISR(r)
    \/ \E t \in Tasks : \/ xTaskGenericNotifyStateClear(t) \/ xTaskResumeFromISR(t)
                        \/ SuspendTask(t)
                        \/ \E v \in Values : ulTaskGenericNotifyValueClear(t, v)
                        \/ \E n \in Periods[t] : t = cur /\ DelayUntil(n)
    \/ xTaskDelayUntil \/ NotifyTick
    \/ /\ \/ \E n \in Delays : vTaskDelay(n)
          \/ AddToDelayedList \/ ResumeAndYield \/ portYIELD_WITHIN_API
          \/ vTaskSuspendAll \/ ResumeAll \/ SuspendReset \/ IdleYield \/ YieldIsr
          \/ \E t \in Tasks : vTaskResume(t)
       /\ UNCHANGED nvars

-----------------------------------------------------------------------------
(***************************************************************************)
(* Properties.                                                             *)
(***************************************************************************)

\* Nothing notified is lost: a call reports that nothing came only when all that
\* came has been returned before, and a task is not blocked, or left blocked, in a
\* wait while something it has not seen is there, whether task or interrupt sent
\* it, before, between or after the two critical sections of the wait.
Sleeps(t) == t \in (Delayed \cup k.xSuspendedTaskList) \ PendingReady
NotificationSeen ==
    \A t \in Tasks :
        /\ BitsIn(unseen[t]) # {} => value(t) # 0
        /\ kpc[t] = "done" => ~arg[t].missed
        /\ kpc[t] = "awaited" /\ Sleeps(t) /\ "suspend" \notin Calls => unseen[t] = 0
=============================================================================
