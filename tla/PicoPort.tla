------------------------------- MODULE PicoPort -------------------------------
(***************************************************************************)
(* The FreeRTOS port to the PicoRV32 core (port.c, portASM.S) composed     *)
(* with the two pieces of hardware it stands on: the tick timer of the     *)
(* board's top module (top_uart_hello.v) and the interrupt logic of the    *)
(* core (picorv32.v).                                                      *)
(*                                                                         *)
(* Every step is one clock: the peripheral, the pending latch of the core  *)
(* and one micro-step of the program advance together, as the registers of *)
(* the one clock domain do.  A label of pc stands for a short run of       *)
(* instructions; Stall lets any of them take longer.  The scheduler behind *)
(* xTaskIncrementTick and vTaskSwitchContext is an arbitrary choice here.  *)
(***************************************************************************)
EXTENDS Integers

CONSTANTS
    Tasks,          \* the tasks main() creates before it starts the scheduler
    NoTask,         \* a null TCB pointer, and the owner of main()'s stack
    Period,         \* configCPU_CLOCK_HZ / configTICK_RATE_HZ, in clocks
    ResetPeriod,    \* the period the timer has at power-up
    LaunchCycles,   \* clocks from the store that enables the tick to the first
                    \* instruction of the first task, at most
    MaxNest         \* the deepest nesting of critical sections

ASSUME TasksAssumption == Tasks # {}          \* the idle task at least
ASSUME NoTaskAssumption == NoTask \notin Tasks
ASSUME LaunchAssumption == LaunchCycles \in Nat /\ LaunchCycles >= 3
\* 270000 clocks against a launch of some forty instructions
ASSUME PeriodAssumption == Period \in Nat /\ Period >= LaunchCycles
ASSUME ResetPeriodAssumption == ResetPeriod \in Nat
ASSUME MaxNestAssumption == MaxNest \in Nat /\ MaxNest >= 1

TIMER == "irq_5"                    \* level: timer_irq_pending
YIELD == "irq_6"                    \* one-clock pulse: soft_irq
IRQs == {TIMER, YIELD}

VARIABLES
    timer_irq_enable, timer_irq_pending, timer_irq_period,
    timer_irq_countdown, soft_irq,                \* the peripheral's registers
    irq_pending, irq_mask, irq_active, irq_delay, irq_state,      \* the core's
    pc, x3, x4,     \* control point, and the registers the core writes on entry
    sp, regs,       \* stack pointer, and whose x1, x5..x31 the core holds
    uxCriticalNesting,
    pxCurrentTCB,
    pxTopOfStack,   \* the field of that name of every TCB
    frame,          \* the context frame saved on every stack
    launch,         \* clocks since the tick was enabled, until the first task
    uncounted,      \* history: timer events minus calls of xTaskIncrementTick
    yieldWanted,    \* history: a yield was requested and not yet acted upon
    depth,          \* history: critical sections each task is inside of
    stoppedAt       \* history: where each task was when it was interrupted

timer == <<timer_irq_enable, timer_irq_pending, timer_irq_period,
           timer_irq_countdown, soft_irq>>
entry == <<irq_state, x4, stoppedAt>>                \* written on entry only
stacks == <<sp, regs, pxTopOfStack, frame>>
critical == <<uxCriticalNesting, depth>>
\* what no code outside the start and the handler writes
kept == <<irq_active, x3, stacks, pxCurrentTCB, launch>>
vars == <<timer, irq_pending, irq_mask, irq_delay, entry, kept, critical, pc,
          uncounted, yieldWanted>>

(***************************************************************************)
(* Control points.                                                         *)
(***************************************************************************)
CriticalPcs == {"enterInc", "exitUnmask"}
YieldPcs == {"yieldBus", "yieldNop", "yieldRet"}
TaskPcs == {"run"} \cup CriticalPcs \cup YieldPcs
StartPcs == {"setPeriod", "clearPending", "resetPort", "unmask", "enableTick"}
LaunchPcs == {"launchSp", "launchRegs", "launchJump"}
BootPcs == {"main"} \cup StartPcs \cup LaunchPcs
HandlerPcs == {"irqSave", "irqSaveSp", "hTimer", "hTick", "hYield", "hSwitch",
               "irqRestore", "irqRet"}
Pcs == TaskPcs \cup BootPcs \cup HandlerPcs
Owners == Tasks \cup {NoTask}

\* where the code that calls the port is: main() until the launch, then a task
Home == IF sp.stack = NoTask THEN "main" ELSE "run"

-----------------------------------------------------------------------------
(***************************************************************************)
(* The hardware.  w names the store the program makes to the peripheral in *)
(* this clock, if any; ticks the number of calls of xTaskIncrementTick.    *)
(***************************************************************************)
Fires == timer_irq_enable = 1 /\ timer_irq_pending = 0 /\ timer_irq_countdown = 0

TickPeriod == Period

TimerClock(w) ==
    /\ timer_irq_pending' = IF w = "ack" THEN 0
                            ELSE IF Fires THEN 1 ELSE timer_irq_pending
    /\ timer_irq_countdown' =
          IF w = "period" THEN TickPeriod
          ELSE IF Fires THEN timer_irq_period
          ELSE IF timer_irq_enable = 1 /\ timer_irq_pending = 0
               THEN timer_irq_countdown - 1 ELSE timer_irq_countdown
    /\ timer_irq_period' = IF w = "period" THEN TickPeriod ELSE timer_irq_period
    /\ timer_irq_enable' = IF w = "enable" THEN 1 ELSE timer_irq_enable
    /\ soft_irq' = IF w = "soft" THEN 1 ELSE 0

Lines == (IF timer_irq_pending = 1 THEN {TIMER} ELSE {})
            \cup (IF soft_irq = 1 THEN {YIELD} ELSE {})

LATCHED_IRQ_all == IRQs             \* the core's default: the level is latched
LATCHED_IRQ_none == {}
LATCHED_IRQ == {YIELD}

Sampled == (irq_pending \cap LATCHED_IRQ) \cup Lines

Clock(w, ticks) ==
    /\ TimerClock(w)
    /\ irq_pending' = IF irq_state = 2 THEN Sampled \cap irq_mask ELSE Sampled
    /\ uncounted' = uncounted + (IF Fires THEN 1 ELSE 0) - ticks

\* an unmasked request is seen at an instruction boundary
TakesIrq == irq_active = 0 /\ irq_delay = 0 /\ irq_pending \ irq_mask # {}

\* the second clock of the store that pulses the line is not a boundary
AtBoundary == irq_state = 0 /\ pc # "yieldBus"

IrqRequest ==
    /\ AtBoundary /\ TakesIrq
    /\ irq_state' = 1
    /\ Clock("none", 0)
    /\ UNCHANGED <<irq_mask, irq_delay, x4, stoppedAt, kept, critical, pc,
                   yieldWanted>>

IrqVector ==
    /\ irq_state = 1
    /\ irq_state' = 2
    /\ irq_active' = 1
    /\ x3' = pc
    /\ pc' = "irqSave"
    /\ stoppedAt' = [stoppedAt EXCEPT ![pxCurrentTCB] = pc]
    /\ Clock("none", 0)
    /\ UNCHANGED <<irq_mask, irq_delay, x4, stacks, critical, pxCurrentTCB,
                   launch, yieldWanted>>

IrqBitmap ==
    /\ irq_state = 2
    /\ irq_state' = 0
    /\ x4' = irq_pending \ irq_mask
    /\ Clock("none", 0)
    /\ UNCHANGED <<irq_mask, irq_delay, stoppedAt, kept, critical, pc,
                   yieldWanted>>

Entry == IrqRequest \/ IrqVector \/ IrqBitmap

-----------------------------------------------------------------------------
(***************************************************************************)
(* Program steps.  Instr(from, to) executes at `from', where no request    *)
(* preempts it, and goes on at `to'.                                       *)
(***************************************************************************)
Instr(from, to) ==
    /\ irq_state = 0
    /\ AtBoundary => ~TakesIrq
    /\ pc = from
    /\ pc' = to
    /\ irq_delay' = irq_active
    /\ UNCHANGED entry

\* an instruction goes on for another clock; the launch has a budget of them
Stall ==
    /\ AtBoundary /\ ~TakesIrq
    /\ pc \in LaunchPcs => launch < LaunchCycles - 3
    /\ launch' = IF pc \in LaunchPcs THEN launch + 1 ELSE launch
    /\ Clock("none", 0)
    /\ UNCHANGED <<irq_mask, irq_delay, entry, irq_active, x3, stacks,
                   pxCurrentTCB, critical, pc, yieldWanted>>

\* code of the application or of the kernel that touches none of this
Work ==
    /\ Instr("run", "run")
    /\ Clock("none", 0)
    /\ UNCHANGED <<irq_mask, kept, critical, yieldWanted>>

(***************************************************************************)
(* vPortEnterCritical and vPortExitCritical, called by tasks and by main().*)
(***************************************************************************)
EnterCritical ==
    /\ uxCriticalNesting < MaxNest
    /\ Instr(Home, "enterInc")
    /\ irq_mask' = IRQs
    /\ Clock("none", 0)
    /\ UNCHANGED <<kept, critical, yieldWanted>>

EnterCriticalInc ==
    /\ Instr("enterInc", Home)
    /\ uxCriticalNesting' = uxCriticalNesting + 1
    /\ depth' = [depth EXCEPT ![sp.stack] = @ + 1]
    /\ Clock("none", 0)
    /\ UNCHANGED <<irq_mask, kept, yieldWanted>>

UnmasksAt_any(nesting) == TRUE      \* every exit unmasks
UnmasksAt_one(nesting) == nesting = 1     \* tested before the decrement
UnmasksAt(nesting) == nesting = 0

ExitCritical ==
    /\ depth[sp.stack] > 0
    /\ Instr(Home, IF UnmasksAt(uxCriticalNesting - 1) THEN "exitUnmask" ELSE Home)
    /\ uxCriticalNesting' = uxCriticalNesting - 1
    /\ depth' = [depth EXCEPT ![sp.stack] = @ - 1]
    /\ Clock("none", 0)
    /\ UNCHANGED <<irq_mask, kept, yieldWanted>>

ExitCriticalUnmask ==
    /\ Instr("exitUnmask", Home)
    /\ irq_mask' = {}
    /\ Clock("none", 0)
    /\ UNCHANGED <<kept, critical, yieldWanted>>

(***************************************************************************)
(* vPortYield.  The pulse the store causes is sampled in its second clock; *)
(* the kernel yields inside its critical sections, too.                    *)
(***************************************************************************)
YieldStore ==
    /\ Instr("run", "yieldBus")
    /\ yieldWanted' = 1
    /\ Clock("soft", 0)
    /\ UNCHANGED <<irq_mask, kept, critical>>

Advance(from, to) ==
    /\ Instr(from, to)
    /\ Clock("none", 0)
    /\ UNCHANGED <<irq_mask, kept, critical, yieldWanted>>

YieldBus == Advance("yieldBus", "yieldNop")
YieldNops == Advance("yieldNop", "yieldRet")
YieldReturn == Advance("yieldRet", "run")

TaskStep == \/ Work \/ EnterCritical \/ EnterCriticalInc \/ ExitCritical
            \/ ExitCriticalUnmask \/ YieldStore \/ YieldBus \/ YieldNops
            \/ YieldReturn

-----------------------------------------------------------------------------
(***************************************************************************)
(* main() creates the tasks and starts the scheduler.                      *)
(***************************************************************************)
\* xTaskCreate: pxPortInitialiseStack, and the new task may become the current
CreateTask(t) ==
    /\ uxCriticalNesting = 1
    /\ frame[t].pc = "none"
    /\ Instr("main", "main")
    /\ frame' = [frame EXCEPT ![t] = [pc |-> "run", regs |-> t]]
    /\ pxTopOfStack' = [pxTopOfStack EXCEPT ![t] = [stack |-> t, depth |-> 1]]
    /\ pxCurrentTCB' \in {t} \cup ({pxCurrentTCB} \ {NoTask})
    /\ Clock("none", 0)
    /\ UNCHANGED <<irq_mask, irq_active, x3, sp, regs, launch, critical,
                   yieldWanted>>

\* vTaskStartScheduler: portDISABLE_INTERRUPTS, then xPortStartScheduler
StartScheduler ==
    /\ uxCriticalNesting = 0
    /\ \A t \in Tasks : frame[t].pc # "none"
    /\ Instr("main", "setPeriod")
    /\ irq_mask' = IRQs
    /\ Clock("none", 0)
    /\ UNCHANGED <<kept, critical, yieldWanted>>

StartStore(from, to, w) ==
    /\ Instr(from, to)
    /\ Clock(w, 0)
    /\ UNCHANGED <<irq_mask, kept, critical, yieldWanted>>

SetPeriod == StartStore("setPeriod", "clearPending", "period")
ClearPending == StartStore("clearPending", "resetPort", "ack")
EnableTick == StartStore("enableTick", "launchSp", "enable")

ResetPort ==
    /\ Instr("resetPort", "unmask")
    /\ uxCriticalNesting' = 0
    /\ Clock("none", 0)
    /\ UNCHANGED <<irq_mask, kept, depth, yieldWanted>>

Unmask ==
    /\ Instr("unmask", "enableTick")
    /\ irq_mask' = {}
    /\ Clock("none", 0)
    /\ UNCHANGED <<kept, critical, yieldWanted>>

\* vPortStartFirstTask: portRESTORE_CONTEXT, then a plain jump
LaunchSp ==
    /\ Instr("launchSp", "launchRegs")
    /\ sp' = pxTopOfStack[pxCurrentTCB]
    /\ launch' = launch + 1
    /\ Clock("none", 0)
    /\ UNCHANGED <<irq_mask, irq_active, x3, regs, pxTopOfStack, frame,
                   pxCurrentTCB, critical, yieldWanted>>

PopFrame ==
    /\ x3' = frame[sp'.stack].pc
    /\ regs' = frame[sp'.stack].regs

LaunchRegs ==
    /\ Instr("launchRegs", "launchJump")
    /\ sp' = [sp EXCEPT !.depth = @ - 1]
    /\ PopFrame
    /\ launch' = launch + 1
    /\ Clock("none", 0)
    /\ UNCHANGED <<irq_mask, irq_active, pxTopOfStack, frame, pxCurrentTCB,
                   critical, yieldWanted>>

LaunchJump ==
    /\ Instr("launchJump", x3)
    /\ launch' = 0
    /\ Clock("none", 0)
    /\ UNCHANGED <<irq_mask, irq_active, x3, stacks, pxCurrentTCB, critical,
                   yieldWanted>>

BootStep == \/ \E t \in Tasks : CreateTask(t)
            \/ StartScheduler \/ SetPeriod \/ ClearPending \/ ResetPort
            \/ Unmask \/ EnableTick \/ LaunchSp \/ LaunchRegs \/ LaunchJump

-----------------------------------------------------------------------------
(***************************************************************************)
(* freertos_irq_entry and vPortHandleInterrupt.                            *)
(***************************************************************************)
IrqSave ==
    /\ Instr("irqSave", "irqSaveSp")
    /\ sp' = [sp EXCEPT !.depth = @ + 1]
    /\ frame' = [frame EXCEPT ![sp.stack] = [pc |-> x3, regs |-> regs]]
    /\ Clock("none", 0)
    /\ UNCHANGED <<irq_mask, irq_active, x3, regs, pxTopOfStack, pxCurrentTCB,
                   launch, critical, yieldWanted>>

\* from the call on, C code has the registers
IrqSaveSp ==
    /\ Instr("irqSaveSp", "hTimer")
    /\ pxTopOfStack' = [pxTopOfStack EXCEPT ![pxCurrentTCB] = sp]
    /\ regs' = NoTask
    /\ Clock("none", 0)
    /\ UNCHANGED <<irq_mask, irq_active, x3, sp, frame, pxCurrentTCB, launch,
                   critical, yieldWanted>>

Handler(from, to, w, ticks) ==
    /\ Instr(from, to)
    /\ Clock(w, ticks)
    /\ UNCHANGED <<irq_mask, kept, critical, yieldWanted>>

HandleTimer ==
    \/ TIMER \in x4 /\ Handler("hTimer", "hTick", "ack", 0)
    \/ TIMER \notin x4 /\ Handler("hTimer", "hYield", "none", 0)

\* xTaskIncrementTick asks for a switch, or does not
HandleTick == \E to \in {"hSwitch", "hYield"} : Handler("hTick", to, "none", 1)

HandleYield ==
    \/ YIELD \in x4 /\ Handler("hYield", "hSwitch", "none", 0)
    \/ YIELD \notin x4 /\ Handler("hYield", "irqRestore", "none", 0)

\* vTaskSwitchContext; with the scheduler suspended it leaves the task
HandleSwitch ==
    /\ Instr("hSwitch", "irqRestore")
    /\ pxCurrentTCB' \in Tasks
    /\ yieldWanted' = IF YIELD \in x4 THEN 0 ELSE yieldWanted
    /\ Clock("none", 0)
    /\ UNCHANGED <<irq_mask, irq_active, x3, stacks, launch, critical>>

IrqRestore_sameSp ==                \* sp is not reloaded from the new TCB
    /\ Instr("irqRestore", "irqRet")
    /\ sp' = [sp EXCEPT !.depth = @ - 1]
    /\ PopFrame
    /\ Clock("none", 0)
    /\ UNCHANGED <<irq_mask, irq_active, pxTopOfStack, frame, pxCurrentTCB,
                   launch, critical, yieldWanted>>

IrqRestore ==
    /\ Instr("irqRestore", "irqRet")
    /\ sp' = [pxTopOfStack[pxCurrentTCB] EXCEPT !.depth = @ - 1]
    /\ PopFrame
    /\ Clock("none", 0)
    /\ UNCHANGED <<irq_mask, irq_active, pxTopOfStack, frame, pxCurrentTCB,
                   launch, critical, yieldWanted>>

IrqRet ==
    /\ Instr("irqRet", x3)
    /\ irq_active' = 0
    /\ Clock("none", 0)
    /\ UNCHANGED <<irq_mask, x3, stacks, pxCurrentTCB, launch, critical,
                   yieldWanted>>

HandlerStep == \/ IrqSave \/ IrqSaveSp \/ HandleTimer \/ HandleTick
               \/ HandleYield \/ HandleSwitch \/ IrqRestore \/ IrqRet

-----------------------------------------------------------------------------
\* power-up: the core masks everything, the start-up code has cleared memory
Init ==
    /\ timer_irq_enable = 0 /\ timer_irq_pending = 0 /\ soft_irq = 0
    /\ timer_irq_period = ResetPeriod /\ timer_irq_countdown = ResetPeriod
    /\ irq_pending = {} /\ irq_mask = IRQs
    /\ irq_active = 0 /\ irq_delay = 0 /\ irq_state = 0
    /\ pc = "main" /\ x3 = "none" /\ x4 = {}
    /\ sp = [stack |-> NoTask, depth |-> 0] /\ regs = NoTask
    /\ uxCriticalNesting = 0 /\ pxCurrentTCB = NoTask
    /\ pxTopOfStack = [t \in Owners |-> [stack |-> NoTask, depth |-> 0]]
    /\ frame = [t \in Owners |-> [pc |-> "none", regs |-> NoTask]]
    /\ launch = 0 /\ uncounted = 0 /\ yieldWanted = 0
    /\ depth = [t \in Owners |-> 0]
    /\ stoppedAt = [t \in Owners |-> "run"]

Program == BootStep \/ TaskStep \/ HandlerStep
Next == Entry \/ Stall \/ Program

Spec == Init /\ [][Next]_vars

\* leaving a critical section of that depth, for the fairness of PortableLayer
ExitFrom(n) == uxCriticalNesting = n /\ ExitCritical

-----------------------------------------------------------------------------
(***************************************************************************)
(* Properties.                                                             *)
(***************************************************************************)
InHandler == irq_active = 1
InTask == irq_active = 0 /\ pc \in TaskPcs /\ sp.stack # NoTask

\* The types; and the port never nests an interrupt frame on another.
TypeOK ==
    /\ timer_irq_enable \in 0..1 /\ timer_irq_pending \in 0..1
    /\ soft_irq \in 0..1
    /\ timer_irq_period \in Nat /\ timer_irq_countdown \in Nat
    /\ irq_pending \in SUBSET IRQs /\ irq_mask \in SUBSET IRQs
    /\ irq_active \in 0..1 /\ irq_delay \in 0..1 /\ irq_state \in 0..2
    /\ pc \in Pcs /\ x3 \in TaskPcs \cup {"none"} /\ x4 \in SUBSET IRQs
    /\ sp \in [stack : Owners, depth : 0..1] /\ regs \in Owners
    /\ uxCriticalNesting \in 0..MaxNest
    /\ pxCurrentTCB \in Owners
    /\ pxTopOfStack \in [Owners -> [stack : Owners, depth : 0..1]]
    /\ frame \in [Owners -> [pc : TaskPcs \cup {"none"}, regs : Owners]]
    /\ launch \in 0..LaunchCycles
    /\ uncounted \in Int /\ yieldWanted \in 0..1
    /\ depth \in [Owners -> 0..MaxNest]
    /\ stoppedAt \in [Owners -> Pcs]

\* Every timer event is passed to xTaskIncrementTick exactly once: an event
\* not yet counted is either pending in the timer or acknowledged by the
\* handler that is about to count it (vPortHandleInterrupt; this is what the
\* level-triggered setting of irq_5 in LATCHED_IRQ is for).
OneTickPerEvent ==
    uncounted = timer_irq_pending + (IF pc = "hTick" THEN 1 ELSE 0)

\* The launch runs with interrupts unmasked and x3 in use; no interrupt comes
\* before the first task has its context (vPortStartFirstTask).
NoIrqBeforeFirstTask ==
    irq_state # 0 \/ InHandler => pc \notin BootPcs /\ sp.stack # NoTask

\* No interrupt is entered and no task is switched out inside a critical
\* section, so the one global uxCriticalNesting is always the running task's
\* own depth and every other task is outside (the comment at port.c:34).  Nor is
\* one entered during the launch.
CriticalExclusion ==
    /\ NoIrqBeforeFirstTask
    /\ irq_state # 0 \/ InHandler => uxCriticalNesting = 0
    /\ \A t \in Tasks : depth[t] > 0 =>
          t = sp.stack /\ t = pxCurrentTCB /\ depth[t] = uxCriticalNesting

\* A task runs on its own stack, at the depth it was interrupted at, with its
\* own registers, and resumes where it stopped (portASM.S saves before the
\* switch and restores from the TCB chosen by it).
ContextIntegrity ==
    /\ InTask => sp = [stack |-> pxCurrentTCB, depth |-> 0] /\ regs = pxCurrentTCB
    /\ pc = "irqRet" => /\ sp = [stack |-> pxCurrentTCB, depth |-> 0]
                        /\ regs = pxCurrentTCB
                        /\ x3 = stoppedAt[pxCurrentTCB]
    /\ \A t \in Tasks : frame[t].pc # "none" /\ t # sp.stack =>
          /\ pxTopOfStack[t] = [stack |-> t, depth |-> 1]
          /\ frame[t] = [pc |-> stoppedAt[t], regs |-> t]

\* vPortYield does not return to a caller outside a critical section before
\* the switch it asked for was made (the nops at port.c:157 are for this).
YieldServedOnReturn ==
    pc = "yieldRet" /\ irq_active = 0 /\ uxCriticalNesting = 0 => yieldWanted = 0

\* A requested yield is never lost: until vTaskSwitchContext acts upon it, the
\* request is on the line, latched in the core, or in the bitmap of the handler
\* that is running (vPortYield, also from inside a critical section); outside one
\* it is acted upon before vPortYield returns.
YieldNotLost ==
    /\ YieldServedOnReturn
    /\ yieldWanted = 1 =>
          \/ soft_irq = 1 \/ YIELD \in irq_pending
          \/ YIELD \in x4 /\ pc \in HandlerPcs \ {"irqRestore", "irqRet"}

\* Every timer event reaches xTaskIncrementTick eventually, whatever critical
\* sections and yields it falls into (freertos_irq_entry, vPortHandleInterrupt).
TickServed == timer_irq_pending = 1 ~> pc = "hTick"
=============================================================================
