---------------------------- MODULE EventGroups -----------------------------
(***************************************************************************)
(* Event groups (event_groups.c) on top of the scheduler, with the event   *)
(* list functions of tasks.c that only they use.                           *)
(*                                                                         *)
(* A call suspends the scheduler, does its work in one step, since only    *)
(* tasks use a group (an interrupt pends the call to the timer daemon),    *)
(* and resumes it.  A task that waits keeps what it waits for, and finds   *)
(* the answer, in the value of its event list item.  The event lists of    *)
(* Scheduler are the groups'.                                              *)
(***************************************************************************)
EXTENDS Scheduler

CONSTANTS
    Groups,
    Bits,           \* the bits of a group, without the control bits
    Freed           \* a group whose memory is free again

GroupCall == [by : Tasks, op : {"setBits", "clearBits"}, group : Groups,
              set : SUBSET Bits]
             \cup [by : Tasks, op : {"waitBits"}, group : Groups, want : SUBSET Bits,
                   all : BOOLEAN, clear : BOOLEAN, ticks : 0..portMAX_DELAY]
             \cup [by : Tasks, op : {"sync"}, group : Groups, set : SUBSET Bits,
                   want : SUBSET Bits, ticks : 0..portMAX_DELAY]
             \cup [by : Tasks, op : {"delete"}, group : Groups]

ASSUME GroupAssumption ==
    /\ Events = Groups
    /\ \A n \in DOMAIN Workloads :
          /\ Workloads[n].groupCalls \subseteq GroupCall
          /\ \A c \in Workloads[n].groupCalls : c.op \in {"waitBits", "sync"} => c.want # {}

GroupCalls == Workloads[load].groupCalls

VARIABLES
    uxEventBits,    \* of each group, or Freed
    itemValue       \* the value of each task's xEventListItem

gvars == <<uxEventBits, itemValue>>

\* the value that holds the priority, and is of use to queues only
PriorityValue == [bits |-> {}, all |-> FALSE, clear |-> FALSE, unblocked |-> FALSE]

-----------------------------------------------------------------------------
(***************************************************************************)
(* The functions.                                                          *)
(***************************************************************************)
prvTestWaitCondition(bits, want, all) ==
    IF all THEN want \subseteq bits ELSE want \cap bits # {}

vTaskPlaceOnUnorderedEventList(g, n) ==
    prvAddCurrentTaskToDelayedList(
        [k EXCEPT !.xTasksWaiting[g] = Append(@, cur)], n, TRUE)

vTaskRemoveFromUnorderedEventList(s, t) ==
    [prvAddTaskToReadyList(Unlink(s, t), t) EXCEPT !.xYieldPending = @ \/ Preempts(s, t)]

\* the waiting tasks that bits now satisfy, and the bits that they clear
Matched(g, bits) ==
    {t \in WaitingOn(g) : prvTestWaitCondition(bits, itemValue[t].bits, itemValue[t].all)}
ToClear(g, bits) ==
    UNION {itemValue[t].bits : t \in {u \in Matched(g, bits) : itemValue[u].clear}}

\* every waiting task sees the bits before any of them are cleared
SetBits_firstClears(g, b) ==
    LET bits == uxEventBits[g] \cup b
        first == SelectInSeq(k.xTasksWaiting[g], LAMBDA t : t \in Matched(g, bits))
        t == k.xTasksWaiting[g][first]
    IN  IF first = 0 THEN [s |-> k, bits |-> bits, items |-> itemValue]
        ELSE [s |-> vTaskRemoveFromUnorderedEventList(k, t),
              bits |-> IF itemValue[t].clear THEN bits \ itemValue[t].bits ELSE bits,
              items |-> [itemValue EXCEPT ![t] = [PriorityValue EXCEPT
                            !.bits = bits, !.unblocked = TRUE]]]
SetBits(g, b) ==
    LET bits == uxEventBits[g] \cup b
        woken == SelectSeq(k.xTasksWaiting[g], LAMBDA t : t \in Matched(g, bits))
    IN  [s |-> FoldLeft(vTaskRemoveFromUnorderedEventList, k, woken),
         bits |-> bits \ ToClear(g, bits),
         items |-> [t \in Tasks |->
            IF t \in ToSet(woken)
            THEN [PriorityValue EXCEPT !.bits = bits, !.unblocked = TRUE]
            ELSE itemValue[t]]]

-----------------------------------------------------------------------------
(***************************************************************************)
(* A call: suspend the scheduler, work, resume it, and, where the call has *)
(* blocked, look at what woke it.                                          *)
(***************************************************************************)
GroupAt(op) == At("group") /\ arg[cur].op = op
Answered(c, bits, failed) ==
    Goto("resumeGroup", [op |-> c.op, asked |-> c, waits |-> FALSE, bits |-> bits,
                         failed |-> failed])
Blocks(c) == Goto("resumeGroup", [op |-> c.op, asked |-> c, waits |-> TRUE,
                                  bits |-> {}, failed |-> FALSE])
\* the history left: cur blocks for n ticks, and the waits that items answers end
Lefts(items, n) == left' = [t \in Threads |->
    IF t = cur /\ n > 0 THEN IF n = portMAX_DELAY THEN 0 ELSE NotLate(n)
    ELSE IF t \in Tasks /\ items[t].unblocked THEN 0 ELSE left[t]]

StartGroupCall(c) ==
    /\ At("run") /\ c.by = cur /\ c.op # "clearBits" /\ uxEventBits[c.group] # Freed
    /\ c.op \in {"waitBits", "sync"} /\ c.ticks > 0 => Unlocked
    /\ k.uxSchedulerSuspended < MaxSuspended
    /\ k' = [k EXCEPT !.uxSchedulerSuspended = @ + 1]
    /\ Goto("group", c)
    /\ UNCHANGED <<yieldReq, tcb, left, gvars>>

xEventGroupSetBits ==
    /\ GroupAt("setBits")
    /\ LET c == arg[cur]
       IN  \E r \in {SetBits(c.group, c.set)} :
           /\ k' = r.s /\ itemValue' = r.items
           /\ uxEventBits' = [uxEventBits EXCEPT ![c.group] = r.bits]
           /\ Answered(c, {}, FALSE) /\ Lefts(r.items, 0)
    /\ UNCHANGED <<yieldReq, tcb>>

WaitBitsMet ==
    /\ GroupAt("waitBits")
    /\ LET c == arg[cur]
           bits == uxEventBits[c.group]
       IN  /\ prvTestWaitCondition(bits, c.want, c.all)
           /\ uxEventBits' = [uxEventBits EXCEPT ![c.group] =
                                IF c.clear THEN bits \ c.want ELSE bits]
           /\ Answered(c, bits, FALSE)
    /\ UNCHANGED <<k, yieldReq, tcb, left, itemValue>>

WaitBitsUnmet ==
    /\ GroupAt("waitBits")
    /\ LET c == arg[cur]
           bits == uxEventBits[c.group]
       IN  /\ ~prvTestWaitCondition(bits, c.want, c.all)
           /\ \/ /\ c.ticks = 0
                 /\ Answered(c, bits, TRUE)
                 /\ UNCHANGED <<k, left, itemValue>>
              \/ /\ c.ticks > 0
                 /\ k' = vTaskPlaceOnUnorderedEventList(c.group, c.ticks)
                 /\ itemValue' = [itemValue EXCEPT ![cur] =
                        [bits |-> c.want, all |-> c.all, clear |-> c.clear,
                         unblocked |-> FALSE]]
                 /\ Lefts(itemValue, c.ticks) /\ Blocks(c)
    /\ UNCHANGED <<yieldReq, tcb, uxEventBits>>

xEventGroupSync ==
    /\ GroupAt("sync")
    /\ LET c == arg[cur]
           now == uxEventBits[c.group] \cup c.set
           becomes(bits) == uxEventBits' = [uxEventBits EXCEPT ![c.group] = bits]
       IN  \E r \in {SetBits(c.group, c.set)} :
           \/ /\ c.want \subseteq now
              /\ k' = r.s /\ itemValue' = r.items
              /\ becomes(r.bits \ c.want)
              /\ Answered(c, now, FALSE) /\ Lefts(r.items, 0)
           \/ /\ ~(c.want \subseteq now) /\ c.ticks = 0
              /\ k' = r.s /\ itemValue' = r.items /\ becomes(r.bits)
              /\ Answered(c, r.bits, TRUE) /\ Lefts(r.items, 0)
           \/ /\ ~(c.want \subseteq now) /\ c.ticks > 0
              /\ k' = prvAddCurrentTaskToDelayedList(
                        [r.s EXCEPT !.xTasksWaiting[c.group] = Append(@, cur)], c.ticks, TRUE)
              /\ itemValue' = [r.items EXCEPT ![cur] =
                    [bits |-> c.want, all |-> TRUE, clear |-> TRUE, unblocked |-> FALSE]]
              /\ becomes(r.bits)
              /\ Lefts(r.items, c.ticks) /\ Blocks(c)
    /\ UNCHANGED <<yieldReq, tcb>>

vEventGroupDelete ==
    /\ GroupAt("delete")
    /\ LET g == arg[cur].group
       IN  /\ k' = FoldLeft(vTaskRemoveFromUnorderedEventList, k, k.xTasksWaiting[g])
           /\ itemValue' = [t \in Tasks |-> IF t \in WaitingOn(g)
                              THEN [PriorityValue EXCEPT !.unblocked = TRUE] ELSE itemValue[t]]
           /\ uxEventBits' = [uxEventBits EXCEPT ![g] = Freed]
           /\ Answered(arg[cur], {}, FALSE) /\ Lefts(itemValue', 0)
    /\ UNCHANGED <<yieldReq, tcb>>

ResumeGroup ==
    /\ At("resumeGroup")
    /\ \E r \in {xTaskResumeAll(k)} :
       LET c == arg[cur]
       IN  /\ k' = r.s /\ yieldReq' = r.yielded
           /\ Goto(IF ~c.waits THEN "groupDone"
                   ELSE IF r.yielded THEN "woken" ELSE "yieldGroup", c)
    /\ UNCHANGED <<tcb, left, gvars>>

YieldGroup ==
    /\ At("yieldGroup")
    /\ yieldReq' = TRUE
    /\ Goto("woken", arg[cur])
    /\ UNCHANGED <<k, tcb, left, gvars>>

uxTaskResetEventItemValue ==
    /\ At("woken")
    /\ LET v == itemValue[cur]
       IN  IF v.unblocked THEN Goto("groupDone", [arg[cur] EXCEPT !.bits = v.bits])
           ELSE Goto("timedOut", arg[cur])
    /\ itemValue' = [itemValue EXCEPT ![cur] = PriorityValue]
    /\ UNCHANGED <<k, yieldReq, tcb, left, uxEventBits>>

\* the bits may have been set since its time was over
TimedOut ==
    /\ At("timedOut")
    /\ LET c == arg[cur].asked
           bits == uxEventBits[c.group]
           met == prvTestWaitCondition(bits, c.want, c.op = "sync" \/ c.all)
           consumes == met /\ (c.op = "sync" \/ c.clear)
       IN  /\ uxEventBits' = [uxEventBits EXCEPT ![c.group] =
                                IF consumes THEN bits \ c.want ELSE bits]
           /\ Goto("groupDone", [arg[cur] EXCEPT !.bits = bits, !.failed = ~met])
    /\ UNCHANGED <<k, yieldReq, tcb, left, itemValue>>

GroupReturn ==
    /\ At("groupDone") /\ Return
    /\ UNCHANGED <<k, yieldReq, tcb, left, gvars>>

xEventGroupClearBits(c) ==
    /\ At("run") /\ c.by = cur /\ c.op = "clearBits" /\ uxEventBits[c.group] # Freed
    /\ uxEventBits' = [uxEventBits EXCEPT ![c.group] = @ \ c.set]
    /\ Stay /\ UNCHANGED <<k, yieldReq, tcb, left, itemValue>>

-----------------------------------------------------------------------------
GroupInit ==                        \* xEventGroupCreate
    /\ uxEventBits = [g \in Groups |-> {}]
    /\ itemValue = [t \in Tasks |-> PriorityValue]

GroupNext ==
    \/ \E c \in GroupCalls : StartGroupCall(c) \/ xEventGroupClearBits(c)
    \/ xEventGroupSetBits \/ WaitBitsMet \/ WaitBitsUnmet \/ xEventGroupSync
    \/ vEventGroupDelete \/ ResumeGroup \/ YieldGroup \/ uxTaskResetEventItemValue
    \/ TimedOut \/ GroupReturn
=============================================================================
