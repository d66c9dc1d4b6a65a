----------------------------- MODULE TaskEvents -----------------------------
(***************************************************************************)
(* Notifications, periodic tasks, event groups and the calls that look at  *)
(* other tasks, used side by side on one scheduler.                        *)
(***************************************************************************)
EXTENDS TaskQueries, EventGroups

eventVars == <<vars, nvars, gvars, ucDelayAborted>>

EventsInit == Init /\ NotifyInit /\ GroupInit /\ QueryInit
EventsNext == /\ \/ NotifyNext /\ ClearDelayAborted /\ UNCHANGED gvars
                 \/ GroupNext /\ ClearDelayAborted /\ UNCHANGED nvars
                 \/ QueryNext /\ UNCHANGED gvars
              /\ UNCHANGED load
EventsSpec == EventsInit /\ [][EventsNext]_eventVars

-----------------------------------------------------------------------------
(***************************************************************************)
(* Properties.                                                             *)
(***************************************************************************)

\* What Scheduler promises of delays and switches holds with notifications, periods
\* and event groups, too: a wait ends at its tick, xTaskDelayUntil returns at the
\* tick it was asked for, across the wrap of the tick count, and the highest ready
\* task runs, whoever made it ready.
ResumedInTime == WokenOnTime /\ HighestPriorityRuns

\* Event groups implement flags that are set and consumed at one time for all that
\* wait: a task is answered by bits that hold together, all tasks of a rendezvous
\* by the same, none is left waiting for bits that are set, and one whose time is
\* over finds bits that were set since.
Client(t) ==
    LET a == arg[t]
        r(is) == [is |-> is, group |-> a.asked.group, want |-> a.asked.want,
                  all |-> a.asked.op = "sync" \/ a.asked.all,
                  consume |-> a.asked.op = "sync" \/ a.asked.clear]
        answer(bits) == [is |-> "answer", flags |-> bits]
    IN  CASE kpc[t] = "groupDone" /\ a.op \in {"waitBits", "sync"} -> answer(a.bits)
          [] kpc[t] = "resumeGroup" /\ a.op \in {"waitBits", "sync"} /\ ~a.waits -> answer(a.bits)
          [] kpc[t] = "timedOut" -> r("expired")
          [] kpc[t] \in {"resumeGroup", "yieldGroup", "woken"} /\ a.waits ->
                IF t \in WaitingOn(a.asked.group) THEN r("waiting")
                ELSE IF itemValue[t].unblocked THEN answer(itemValue[t].bits)
                ELSE r("expired")
          [] OTHER -> [is |-> "idle"]
EF == INSTANCE EventFlags WITH
        Groups <- Groups, Flags <- Bits, Clients <- Tasks, Deleted <- Freed,
        flags <- uxEventBits,
        client <- [t \in Tasks |-> Client(t)]
IsEventFlags == EF!Spec
=============================================================================
