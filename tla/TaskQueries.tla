----------------------------- MODULE TaskQueries -----------------------------
(***************************************************************************)
(* The calls of tasks.c that look at other tasks or take them out of a     *)
(* wait: eTaskGetState, vTaskGetInfo, uxTaskGetSystemState,                *)
(* xTaskGetHandle, xTaskAbortDelay and xTaskCatchUpTicks.                  *)
(*                                                                         *)
(* Each of the last four suspends the scheduler, which keeps the tick off  *)
(* the lists of the state items.  Interrupts still move event items, set   *)
(* notifications and count ticks, between any two of its steps.            *)
(***************************************************************************)
EXTENDS TaskNotify

QueryCall == [by : Tasks, op : {"abort", "find"}, task : Threads]
             \cup [by : Tasks, op : {"status"}, size : Nat]
             \cup [by : Tasks, op : {"catchUp"}, ticks : 1..portMAX_DELAY]

ASSUME QueryAssumption ==
    \A n \in DOMAIN Workloads : Workloads[n].queries \subseteq QueryCall

Queries == Workloads[load].queries

VARIABLE ucDelayAborted     \* the tasks with the flag set

-----------------------------------------------------------------------------
(***************************************************************************)
(* The state of a task, from the list its state item is in and, read       *)
(* later, the list of its event item and what it waits for.                *)
(***************************************************************************)
StateList(t) == CASE t \in Delayed -> "delayed"
                  [] t \in k.xSuspendedTaskList -> "suspended"
                  [] t \in Ready -> "ready"
                  [] OTHER -> "none"        \* or xTasksWaitingTermination

HasEvent(t) == t \in PendingReady \/ \E e \in Events : t \in WaitingOn(e)

eTaskGetState(t, list) ==
    CASE list = "running" -> "eRunning"
      [] list = "delayed" -> "eBlocked"
      [] list = "suspended" -> IF HasEvent(t) \/ state(t) = taskWAITING_NOTIFICATION
                               THEN "eBlocked" ELSE "eSuspended"
      [] list = "none" -> "eDeleted"
      [] list = "ready" -> "eReady"

uxTaskPriorityGet(t) == k.uxPriority[t]

\* with a state given; a wait for a notification counts as suspended here
vTaskGetInfo(t, is) ==
    [task |-> t, priority |-> uxTaskPriorityGet(t),
     is |-> IF t = cur THEN "eRunning"
            ELSE IF is = "eSuspended" /\ HasEvent(t) THEN "eBlocked" ELSE is]

prvListTasksWithinSingleList(s, is) == [i \in DOMAIN s |-> vTaskGetInfo(s[i], is)]
OwnersOf(s) == [i \in DOMAIN s |-> s[i].owner]

\* once round the list and one further, which leaves pxIndex one further
WalkAll(l) == IF l.items = <<>> THEN l ELSE [l EXCEPT !.index = NextIndex(l)]
prvSearchForNameWithinSingleList(l, t) ==
    IF t \in ToSet(l.items) THEN [l EXCEPT !.index = Position(l.items, t)] ELSE WalkAll(l)

-----------------------------------------------------------------------------
(***************************************************************************)
(* The calls: suspend the scheduler, look and act, resume it.              *)
(***************************************************************************)
QueryAt(pc) == At(pc) /\ UNCHANGED <<yieldReq, tcb>>

Suspending_not(s) == s              \* the scheduler goes on
Suspending(s) == [s EXCEPT !.uxSchedulerSuspended = @ + 1]

StartQuery(c) ==
    /\ QueryAt("run") /\ c.by = cur /\ k.uxSchedulerSuspended < MaxSuspended
    /\ c.op = "catchUp" => Unlocked
    /\ k' = Suspending(k)
    /\ Goto(c.op, IF c.op = "status" THEN [op |-> c.op, size |-> c.size, report |-> <<>>] ELSE c)
    /\ UNCHANGED <<left, nvars, ucDelayAborted>>

Answers(answer) == Goto("answered", [op |-> arg[cur].op, asked |-> arg[cur], answer |-> answer])

\* every list of ready tasks, each with its pxIndex moved; nothing without space for all
uxTaskGetSystemState ==
    /\ QueryAt("status")
    /\ LET p(i) == MaxPriority + 1 - i
           reports == [i \in 1..(MaxPriority + 1) |->
               prvListTasksWithinSingleList(k.pxReadyTasksLists[p(i)].items, "eReady")]
       IN  IF arg[cur].size < Cardinality({t \in Threads : tcb[t] # "free"})
           THEN Answers(<<>>) /\ UNCHANGED k
           ELSE /\ k' = [k EXCEPT !.pxReadyTasksLists = [q \in Priorities |-> WalkAll(@[q])]]
                /\ Goto("blocked", [arg[cur] EXCEPT !.report = FlattenSeq(reports)])
    /\ UNCHANGED <<left, nvars, ucDelayAborted>>

ListBlocked ==
    /\ QueryAt("blocked")
    /\ Goto("suspended", [arg[cur] EXCEPT !.report = @
            \o prvListTasksWithinSingleList(OwnersOf(k.pxDelayedTaskList), "eBlocked")
            \o prvListTasksWithinSingleList(OwnersOf(k.pxOverflowDelayedTaskList), "eBlocked")
            \o prvListTasksWithinSingleList(k.xTasksWaitingTermination, "eDeleted")])
    /\ UNCHANGED <<k, left, nvars, ucDelayAborted>>

ListSuspended ==
    /\ QueryAt("suspended")
    /\ Answers(arg[cur].report
            \o prvListTasksWithinSingleList(SetToSeq(k.xSuspendedTaskList), "eSuspended"))
    /\ UNCHANGED <<k, left, nvars, ucDelayAborted>>

\* the lists from the highest priority down to the one that holds the task
xTaskGetHandle ==
    /\ QueryAt("find")
    /\ LET t == arg[cur].task
           searched == {p \in Priorities : t \in Ready => p >= k.uxPriority[t]}
       IN  /\ k' = [k EXCEPT !.pxReadyTasksLists = [p \in Priorities |->
                        IF p \in searched THEN prvSearchForNameWithinSingleList(@[p], t)
                        ELSE @[p]]]
           /\ Answers(StateList(t) # "none" \/ t \in ToSet(k.xTasksWaitingTermination))
    /\ UNCHANGED <<left, nvars, ucDelayAborted>>

\* the critical section of eTaskGetState, and the answer, which is used after it
ReadState ==
    /\ QueryAt("abort")
    /\ LET t == arg[cur].task
       IN  Goto("stateRead", [op |-> "abort", task |-> t,
                              list |-> IF t = cur THEN "running" ELSE StateList(t)])
    /\ UNCHANGED <<k, left, nvars, ucDelayAborted>>

IfBlocked ==
    /\ QueryAt("stateRead")
    /\ IF eTaskGetState(arg[cur].task, arg[cur].list) = "eBlocked"
       THEN Goto("unblock", arg[cur])
       ELSE Answers(FALSE)
    /\ UNCHANGED <<k, left, nvars, ucDelayAborted>>

xTaskAbortDelay ==
    /\ QueryAt("unblock")
    /\ LET t == arg[cur].task
       IN  /\ k' = [prvAddTaskToReadyList(Unlink(k, t), t) EXCEPT
                        !.xYieldPending = @ \/ Preempts(k, t)]
           /\ ucDelayAborted' = IF HasEvent(t) THEN ucDelayAborted \cup {t}
                                ELSE ucDelayAborted
           /\ Forget(t)
    /\ Answers(TRUE)
    /\ UNCHANGED nvars

\* ticks to be counted when the scheduler is resumed
xTaskCatchUpTicks ==
    /\ QueryAt("catchUp")
    /\ LET n == arg[cur].ticks
       IN  /\ \A t \in Tasks : Periodic(t) => since[t] + n < Wrap     \* a bound
           /\ k' = [k EXCEPT !.xPendedTicks = @ + n]
           /\ left' = [t \in Threads |-> IF left[t] > n THEN left[t] - n ELSE 0]
           /\ since' = [t \in Tasks |-> IF Periodic(t) THEN since[t] + n ELSE 0]
    /\ Answers(TRUE)
    /\ UNCHANGED <<notify, lastWake, unseen, ucDelayAborted>>

ResumeQuery ==
    /\ At("answered")
    /\ \E r \in {xTaskResumeAll(k)} : k' = r.s /\ yieldReq' = r.yielded
    /\ Return
    /\ UNCHANGED <<tcb, left, nvars, ucDelayAborted>>

-----------------------------------------------------------------------------
QueryInit == ucDelayAborted = {}

\* prvAddCurrentTaskToDelayedList takes the running task off its ready list and clears
\* its flag; vTaskSuspend takes it off too and leaves the flag
CallBlocks == /\ cur \in Ready /\ cur \notin Ready'
              /\ cur \in Delayed' \/ (cur \in k'.xSuspendedTaskList /\ kpc'[cur] # "reset")
ClearDelayAborted ==
    ucDelayAborted' = IF CallBlocks THEN ucDelayAborted \ {cur} ELSE ucDelayAborted

QueryNext ==
    \/ \E c \in Queries : StartQuery(c)
    \/ uxTaskGetSystemState \/ ListBlocked \/ ListSuspended \/ xTaskGetHandle
    \/ ReadState \/ IfBlocked \/ xTaskAbortDelay \/ xTaskCatchUpTicks \/ ResumeQuery

-----------------------------------------------------------------------------
(***************************************************************************)
(* Properties.                                                             *)
(***************************************************************************)

\* A report of uxTaskGetSystemState names every task once, in a state and with the
\* priority it has when the report is complete, though its lists are read one after
\* the other; a handle is found for every task; and an aborted task is ready, waits
\* on nothing, and nothing counts on its delay.  The flag that tells it so does not
\* reach into a later wait (xTaskCheckForTimeOut would end that one).
Reported(t, r) ==
    CASE r.is = "eRunning" -> t = cur
      [] r.is = "eReady" -> t \in Ready
      [] r.is = "eBlocked" -> t \in Delayed \/ t \in k.xSuspendedTaskList
      [] r.is = "eSuspended" -> t \in k.xSuspendedTaskList
      [] r.is = "eDeleted" -> tcb[t] = "dead"
FlagOfThisWait == \A t \in ucDelayAborted : t \notin Delayed /\ \A e \in Events : t \notin WaitingOn(e)
AnswersSound ==
    /\ FlagOfThisWait
    /\ \A u \in Tasks : kpc[u] = "answered" =>
           LET a == arg[u]
           IN  CASE a.op = "status" -> a.answer # <<>> =>
                       /\ \A t \in Threads : tcb[t] # "free" =>
                            Cardinality({i \in DOMAIN a.answer : a.answer[i].task = t}) = 1
                       /\ \A i \in DOMAIN a.answer :
                            /\ Reported(a.answer[i].task, a.answer[i])
                            /\ a.answer[i].priority = k.uxPriority[a.answer[i].task]
                 [] a.op = "find" -> a.answer = (tcb[a.asked.task] # "free")
                 [] a.op = "abort" -> a.answer =>
                       /\ a.asked.task \in Ready /\ left[a.asked.task] = 0
                       /\ \A e \in Events : a.asked.task \notin WaitingOn(e)
                 [] OTHER -> TRUE
=============================================================================
