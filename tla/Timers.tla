------------------------------- MODULE Timers --------------------------------
(***************************************************************************)
(* timers.c: the daemon task that runs the callbacks of the software       *)
(* timers, the two lists of running timers it keeps (those that expire     *)
(* before xTickCount overflows and those that expire after it), and the    *)
(* queue of commands that tasks, interrupts and callbacks send to it.      *)
(*                                                                         *)
(* now is time itself, which does not wrap; the code sees TickCount only.  *)
(* Each step of the daemon is one between which ticks, interrupts and      *)
(* tasks may come.  A call of a task reads the tick count in one step and  *)
(* sends the command in another, as the xTimerStart macros do.  A pended   *)
(* function is run by the daemon, and may send commands as a callback may. *)
(***************************************************************************)
EXTENDS Integers, Sequences, FiniteSets, SequencesExt

CONSTANTS
    TimerIds, Tasks,
    Wrap,                       \* the tick count is modulo Wrap
    configTIMER_QUEUE_LENGTH,
    Workloads,                  \* a function from names to the records below
    MaxTime, MaxCalls           \* bounds: the last tick, all calls made

(***************************************************************************)
(* A workload: the period and the reload mode of each timer, the commands  *)
(* that tasks and interrupts send, those a callback or a pended function   *)
(* may send, the timers whose memory is static, who pends functions, and   *)
(* whether the tasks have priority over the daemon (TRUE) or run only      *)
(* while it is blocked.                                                    *)
(***************************************************************************)
ASSUME TimerAssumption ==
    /\ Wrap \in Nat \ {0, 1} /\ configTIMER_QUEUE_LENGTH \in Nat \ {0}
    /\ \A w \in DOMAIN Workloads :
          \A t \in TimerIds : Workloads[w].period[t] \in 1..(Wrap - 1)

VARIABLES
    load,           \* the workload
    now,            \* in ticks since the start
    timer,          \* period, auto-reload, active, and the list item's value
    cur, ovf,       \* *pxCurrentTimerList and *pxOverflowTimerList
    lastTime,       \* xLastTime, without its wrap
    queue,          \* the commands sent
    d,              \* the daemon: program counter and locals
    call,           \* the command each task is about to send, if any
    calls,          \* how many were made
    due             \* ghost: when each timer should expire next

vars == <<load, now, timer, cur, ovf, lastTime, queue, d, call, calls, due>>

None == -1
NoCall == [cmd |-> "none", t |-> None, value |-> None, at |-> None]
TickCount(n) == n % Wrap
Loads == Workloads[load]

vListInsert(l, t, v) ==
    SelectSeq(l, LAMBDA u : timer[u].value <= v) \o <<t>>
        \o SelectSeq(l, LAMBDA u : timer[u].value > v)
uxListRemove(l, t) == SelectSeq(l, LAMBDA u : u # t)

\* the daemon at the top of its loop
Fresh == [pc |-> "getNext", next |-> 0, empty |-> TRUE, wake |-> None, timeNow |-> 0,
          t |-> None, exp |-> 0, auto |-> FALSE, from |-> "loop", at |-> 0, msg |-> NoCall]

-----------------------------------------------------------------------------
(* Commands.  A start carries the tick count at which it was called. *)
Full == Len(queue) >= configTIMER_QUEUE_LENGTH
Message(c) ==
    [cmd |-> c.cmd, t |-> c.t, at |-> now,
     value |-> IF c.cmd = "start" THEN TickCount(now) ELSE c.value]

Suspended == d.pc = "switch" /\ d.from = "decide"
TasksRun == IF Loads.preempt THEN ~Suspended ELSE d.pc = "blocked"
\* the blocked daemon is made ready by a message
Woken == IF d.pc = "blocked" THEN [Fresh EXCEPT !.pc = "commands"] ELSE d
\* nobody uses a timer whose deletion was asked for
Deleting(t) ==
    \/ timer[t].deleted
    \/ \E i \in DOMAIN queue : queue[i].cmd = "delete" /\ queue[i].t = t
    \/ d.msg.cmd = "delete" /\ d.msg.t = t
MayCall(c) ==
    /\ calls < MaxCalls /\ calls' = calls + 1
    /\ c.t # None => ~Deleting(c.t)
    /\ c.cmd = "delete" => \A k \in Tasks : call[k].t # c.t
    /\ \A k \in Tasks : call[k].cmd = "delete" => call[k].t # c.t

BeginCall(k, c) ==
    /\ TasksRun /\ call[k] = NoCall /\ MayCall(c)
    /\ call' = [call EXCEPT ![k] = Message(c)]
    /\ UNCHANGED <<now, timer, cur, ovf, lastTime, queue, d, due>>
xTimerGenericCommand(k) ==          \* sent, or given up when the queue stays full
    /\ TasksRun /\ call[k] # NoCall
    /\ IF Full THEN UNCHANGED <<queue, d>>
       ELSE queue' = Append(queue, call[k]) /\ d' = Woken
    /\ call' = [call EXCEPT ![k] = NoCall]
    /\ UNCHANGED <<now, timer, cur, ovf, lastTime, calls, due>>
xTimerGenericCommandFromISR(c) ==
    /\ ~Full /\ MayCall(c)
    /\ queue' = Append(queue, Message(c)) /\ d' = Woken
    /\ UNCHANGED <<now, timer, cur, ovf, lastTime, call, due>>

PendedFunction == Message([cmd |-> "pend", t |-> None, value |-> None])
Pend(by) ==
    /\ by \in Loads.pends /\ calls < MaxCalls /\ calls' = calls + 1
    /\ queue' = Append(queue, PendedFunction) /\ d' = Woken
    /\ UNCHANGED <<now, timer, cur, ovf, lastTime, call, due>>
xTimerPendFunctionCall == TasksRun /\ ~Full /\ Pend("task")
xTimerPendFunctionCallFromISR == ~Full /\ Pend("isr")

\* what a task is told of a timer
xTimerIsTimerActive(t) == timer[t].active
xTimerGetExpiryTime(t) == timer[t].value
xTimerGetReloadMode(t) == timer[t].auto
xTimerGetPeriod(t) == timer[t].period

vTimerSetReloadMode(t, auto) ==
    /\ TasksRun /\ ~Deleting(t)
    /\ calls < MaxCalls /\ calls' = calls + 1
    /\ timer' = [timer EXCEPT ![t].auto = auto]
    /\ UNCHANGED <<now, cur, ovf, lastTime, queue, d, call, due>>

-----------------------------------------------------------------------------
(* The daemon.  d.auto is the reload bit of the ucStatus it has read. *)
Goto(l) == d' = [d EXCEPT !.pc = l]
Commands == [Fresh EXCEPT !.pc = "commands"]
Unchanged == UNCHANGED <<now, queue, call, calls>>

\* The item is set and inserted, unless the time it stands for is past already: then
\* processNow
AlreadyDue_before(t, next, timeNow, cmd) ==     \* a wrap since the command is ignored
    next <= timeNow /\ (timeNow - cmd) % Wrap >= timer[t].period
AlreadyDue(t, next, timeNow, cmd) ==
    IF next <= timeNow THEN (timeNow - cmd) % Wrap >= timer[t].period
    ELSE timeNow < cmd /\ next >= cmd
prvInsertTimerInActiveList(t, next, timeNow, cmd) ==
    LET now_ == AlreadyDue(t, next, timeNow, cmd)
    IN  /\ timer' = [timer EXCEPT ![t].value = next]
        /\ ovf' = IF ~now_ /\ next <= timeNow THEN vListInsert(ovf, t, next) ELSE ovf
        /\ cur' = IF ~now_ /\ next > timeNow THEN vListInsert(cur, t, next) ELSE cur

TickWrapped_orEqual == TickCount(now) <= TickCount(lastTime)
TickWrapped == TickCount(now) < TickCount(lastTime)

prvGetNextExpireTime ==
    /\ d.pc = "getNext"
    /\ d' = [d EXCEPT !.pc = "decide", !.empty = cur = <<>>,
                      !.next = IF cur = <<>> THEN 0 ELSE xTimerGetExpiryTime(Head(cur))]
    /\ UNCHANGED <<timer, cur, ovf, lastTime, due>> /\ Unchanged

WaitsForever_current == cur = <<>>
WaitsForever == cur = <<>> /\ ovf = <<>>
\* with the scheduler suspended: the lists are switched, a timer has expired, or the
\* daemon waits for a message until the next one does
prvProcessTimerOrBlockTask ==
    /\ d.pc = "decide"
    /\ LET timeNow == TickCount(now)
           ticks == (d.next - timeNow) % Wrap
       IN  d' = IF TickWrapped THEN [d EXCEPT !.pc = "switch", !.from = "decide", !.at = now]
                ELSE IF ~d.empty /\ d.next <= timeNow
                THEN [d EXCEPT !.pc = "expired", !.from = "loop", !.timeNow = timeNow]
                ELSE IF queue # <<>> THEN Commands
                ELSE [Fresh EXCEPT !.pc = "blocked",
                               !.wake = IF WaitsForever THEN None ELSE now + ticks]
    /\ lastTime' = IF TickWrapped THEN lastTime ELSE now
    /\ UNCHANGED <<timer, cur, ovf, due>> /\ Unchanged

\* the head of the current list is taken out; a one-shot timer becomes dormant
prvProcessExpiredTimer ==
    /\ d.pc = "expired"
    /\ LET t == Head(cur)
       IN  /\ cur' = Tail(cur)
           /\ d' = [d EXCEPT !.t = t, !.exp = d.next, !.auto = xTimerGetReloadMode(t),
                             !.pc = IF xTimerGetReloadMode(t) THEN "reload" ELSE "clear"]
    /\ UNCHANGED <<timer, ovf, lastTime, due>> /\ Unchanged
\* ucStatus is read in one step and written in another
ClearActive ==
    /\ d.pc = "clear"
    /\ timer' = [timer EXCEPT ![d.t].active = FALSE, ![d.t].auto = d.auto]
    /\ d' = IF d.from = "stop" THEN Commands ELSE [d EXCEPT !.pc = "callback"]
    /\ due' = IF d.from = "stop" THEN [due EXCEPT ![d.t] = None] ELSE due
    /\ UNCHANGED <<cur, ovf, lastTime>> /\ Unchanged
\* inserts the next expiry; those that are past are called at once
prvReloadTimer ==
    /\ d.pc = "reload"
    /\ LET next == (d.exp + xTimerGetPeriod(d.t)) % Wrap
       IN  /\ prvInsertTimerInActiveList(d.t, next, d.timeNow, d.exp)
           /\ d' = IF AlreadyDue(d.t, next, d.timeNow, d.exp)
                   THEN [d EXCEPT !.pc = "again", !.exp = next]
                   ELSE [d EXCEPT !.pc = "callback"]
    /\ UNCHANGED <<lastTime, due>> /\ Unchanged
\* what a callback or a function that was pended sends, without waiting
Sends(c) ==
    IF c = NoCall \/ Full THEN UNCHANGED <<queue, calls>>
    ELSE MayCall(c) /\ queue' = Append(queue, Message(c))
pxCallbackFunction(c) ==
    /\ d.pc \in {"again", "callback"}
    /\ due' = [due EXCEPT ![d.t] = IF d.auto THEN @ + timer[d.t].period ELSE None]
    /\ Sends(c)
    /\ d' = IF d.pc = "again" THEN [d EXCEPT !.pc = "reload"]
            ELSE IF d.from = "loop" THEN Commands
            ELSE [d EXCEPT !.pc = "switch", !.t = None, !.exp = 0, !.auto = FALSE, !.next = 0]
    /\ UNCHANGED <<now, timer, cur, ovf, lastTime, call>>
\* every timer left in the current list has expired; then the lists change places
prvSwitchTimerLists ==
    /\ d.pc = "switch"
    /\ IF cur # <<>>
       THEN /\ d' = [d EXCEPT !.pc = "expired", !.next = timer[Head(cur)].value,
                              !.timeNow = Wrap - 1]
            /\ UNCHANGED <<cur, ovf, lastTime>>
       ELSE /\ cur' = ovf /\ ovf' = <<>>
            /\ lastTime' = d.at
            /\ d' = IF d.from = "decide" THEN Commands
                    ELSE [d EXCEPT !.pc = "apply", !.timeNow = TickCount(d.at)]
    /\ UNCHANGED <<timer, due>> /\ Unchanged

\* the next command, and its timer out of its list
prvProcessReceivedCommands ==
    /\ d.pc = "commands"
    /\ IF queue = <<>> THEN d' = Fresh /\ UNCHANGED <<queue, cur, ovf, lastTime>>
       ELSE LET m == Head(queue)
            IN  /\ queue' = Tail(queue)
                /\ IF m.cmd = "pend"
                   THEN Goto("function") /\ UNCHANGED <<cur, ovf, lastTime>>
                   ELSE /\ cur' = uxListRemove(cur, m.t) /\ ovf' = uxListRemove(ovf, m.t)
                        /\ d' = [d EXCEPT !.msg = m, !.from = "command", !.at = now,
                                          !.timeNow = TickCount(now),
                                          !.pc = IF TickWrapped THEN "switch" ELSE "apply"]
                        /\ lastTime' = IF TickWrapped THEN lastTime ELSE now
    /\ UNCHANGED <<now, timer, call, calls, due>>
RunPended(c) ==
    /\ d.pc = "function"
    /\ Sends(c)
    /\ Goto("commands")
    /\ UNCHANGED <<now, timer, cur, ovf, lastTime, call, due>>
\* ucStatus is read; a deleted timer's memory is freed, unless it is static
Apply ==
    /\ d.pc = "apply"
    /\ LET m == d.msg
           d1 == [d EXCEPT !.t = m.t, !.auto = timer[m.t].auto]
       IN  /\ d' = CASE m.cmd = "stop" -> [d1 EXCEPT !.pc = "clear", !.from = "stop", !.msg = NoCall]
                     [] m.cmd = "delete" -> Commands
                     [] OTHER -> [d1 EXCEPT !.pc = "activate"]
           /\ IF m.cmd # "delete" THEN UNCHANGED <<timer, due>>
              ELSE /\ timer' = [timer EXCEPT ![m.t].deleted = ~timer[m.t].static, ![m.t].active = FALSE]
                   /\ due' = [due EXCEPT ![m.t] = None]
    /\ UNCHANGED <<cur, ovf, lastTime>> /\ Unchanged
SetActive ==
    /\ d.pc = "activate"
    /\ timer' = [timer EXCEPT ![d.t].active = TRUE, ![d.t].auto = d.auto,
                              ![d.t].period = IF d.msg.cmd = "change" THEN d.msg.value ELSE @]
    /\ due' = [due EXCEPT ![d.t] = IF d.msg.cmd = "change" THEN d.at + d.msg.value
                                   ELSE d.msg.at + timer[d.t].period]
    /\ Goto("insert")
    /\ UNCHANGED <<cur, ovf, lastTime>> /\ Unchanged
\* from the time of the command, or from now for a new period
InsertStarted ==
    /\ d.pc = "insert"
    /\ LET t == d.t
           from == IF d.msg.cmd = "change" THEN d.timeNow ELSE d.msg.value
           next == (from + timer[t].period) % Wrap
       IN  /\ prvInsertTimerInActiveList(t, next, d.timeNow, from)
           /\ d' = IF d.msg.cmd = "change" \/ ~AlreadyDue(t, next, d.timeNow, from)
                   THEN Commands
                   ELSE [d EXCEPT !.msg = NoCall, !.from = "loop", !.exp = next,
                                  !.auto = timer[t].auto,
                                  !.pc = IF timer[t].auto THEN "reload" ELSE "clear"]
    /\ UNCHANGED <<lastTime, due>> /\ Unchanged

-----------------------------------------------------------------------------
(***************************************************************************)
(* Time.  The tick count stands still for the daemon while it has          *)
(* suspended the scheduler.  The tick count cannot tell times a full wrap  *)
(* apart: the daemon runs at least once in Wrap - 1 ticks, no command      *)
(* waits longer than that and no callback is later.                        *)
(***************************************************************************)
InTime(n) ==
    /\ d.pc # "blocked" /\ cur \o ovf # <<>> => n - lastTime < Wrap
    /\ \A t \in TimerIds : due[t] # None => n - due[t] < Wrap
    /\ \A m \in ToSet(queue) \cup {call[k] : k \in Tasks} \cup {d.msg} :
          m # NoCall => n - m.at < Wrap

Tick ==
    /\ now < MaxTime /\ InTime(now + 1) /\ ~Suspended
    /\ now' = now + 1
    /\ d' = IF d.pc = "blocked" /\ d.wake # None /\ now' >= d.wake
            THEN Commands ELSE d
    /\ UNCHANGED <<timer, cur, ovf, lastTime, queue, call, calls, due>>

NewTimer(t) == [period |-> Loads.period[t], auto |-> Loads.auto[t],
                static |-> t \in Loads.static,
                active |-> FALSE, deleted |-> FALSE, value |-> 0]
Init ==
    /\ load \in DOMAIN Workloads
    /\ now = 0
    /\ timer = [t \in TimerIds |-> NewTimer(t)]
    /\ cur = <<>> /\ ovf = <<>> /\ lastTime = 0
    /\ queue = <<>>
    /\ d = Fresh
    /\ call = [k \in Tasks |-> NoCall] /\ calls = 0
    /\ due = [t \in TimerIds |-> None]

Daemon ==
    \/ prvGetNextExpireTime \/ prvProcessTimerOrBlockTask
    \/ prvProcessExpiredTimer \/ ClearActive \/ prvReloadTimer
    \/ \E c \in Loads.callback \cup {NoCall} : pxCallbackFunction(c) \/ RunPended(c)
    \/ prvSwitchTimerLists
    \/ prvProcessReceivedCommands \/ Apply \/ SetActive \/ InsertStarted
Callers ==
    \/ \E k \in Tasks : xTimerGenericCommand(k) \/ \E c \in Loads.task : BeginCall(k, c)
    \/ \E c \in Loads.isr : xTimerGenericCommandFromISR(c)
    \/ xTimerPendFunctionCall \/ xTimerPendFunctionCallFromISR
    \/ \E t \in Loads.modes, b \in BOOLEAN : vTimerSetReloadMode(t, b)

Next == (Daemon \/ Callers \/ Tick) /\ UNCHANGED load
Spec == Init /\ [][Next]_vars

-----------------------------------------------------------------------------
(***************************************************************************)
(* Properties.                                                             *)
(***************************************************************************)
Epoch(n) == n \div Wrap
InHand == (IF d.msg = NoCall THEN {} ELSE {d.msg.t})
          \cup IF d.pc \in {"clear", "reload", "again", "callback"} THEN {d.t} ELSE {}

\* Whatever the order of expiries, late commands, late callbacks and overflows of the
\* tick count: each running timer waits in the list of the epoch it expires in, at
\* the tick it was due at when it was started, restarted or given a new period, plus
\* whole periods, one for each callback made; a dormant or freed one is in none.
OnSchedule ==
    \A t \in TimerIds \ InHand :
        /\ xTimerIsTimerActive(t) = (due[t] # None)
        /\ t \in ToSet(cur) <=> due[t] # None /\ Epoch(due[t]) = Epoch(lastTime)
        /\ t \in ToSet(ovf) <=> due[t] # None /\ Epoch(due[t]) = Epoch(lastTime) + 1
        /\ due[t] # None => Epoch(due[t]) - Epoch(lastTime) \in {0, 1}
                            /\ xTimerGetExpiryTime(t) = TickCount(due[t])
        /\ timer[t].deleted => \A i \in DOMAIN queue : queue[i].t # t

\* No callback runs before its timer is due, not even those made when the lists are
\* switched, nor one of a timer that was stopped.
CallbackWhenDue ==
    d.pc \in {"again", "callback"} => due[d.t] # None /\ due[d.t] <= now

\* The daemon sleeps through no command and no expiry, one beyond the overflow included.
SleepsNoLonger ==
    d.pc = "blocked" => queue = <<>> /\ \A t \in TimerIds : due[t] # None => now < due[t]
=============================================================================
