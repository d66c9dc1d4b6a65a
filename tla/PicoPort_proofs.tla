---------------------------- MODULE PicoPort_proofs ----------------------------
(***************************************************************************)
(* Proofs about PicoPort for any number of tasks, any period that exceeds  *)
(* the launch, and any nesting bound.  IInv is the inductive invariant.    *)
(***************************************************************************)
EXTENDS PicoPort, TLAPS

USE NoTaskAssumption, LaunchAssumption, PeriodAssumption,
    ResetPeriodAssumption, MaxNestAssumption, TasksAssumption

-----------------------------------------------------------------------------
(***************************************************************************)
(* The inductive invariant, part by part.                                  *)
(***************************************************************************)
Interruptible == {"run", "yieldNop", "yieldRet"}
Saving == {"irqSave", "irqSaveSp", "hTimer"}        \* the tick is still to ack
Switching == {"hTimer", "hTick", "hYield", "hSwitch", "irqRestore"}

IClock ==
    /\ timer_irq_enable \in 0..1 /\ timer_irq_pending \in 0..1 /\ soft_irq \in 0..1
    /\ timer_irq_period \in Nat /\ timer_irq_countdown \in Nat
    /\ irq_pending \in SUBSET IRQs
    /\ uncounted \in Int

\* the vocabulary of control points, visible in every step
USE DEF TIMER, YIELD, IRQs, CriticalPcs, YieldPcs, TaskPcs, StartPcs, LaunchPcs,
        BootPcs, HandlerPcs, Pcs, Owners, Interruptible, Saving, Switching

IType ==
    /\ irq_mask \in {{}, IRQs}
    /\ irq_active \in 0..1 /\ irq_delay \in 0..1 /\ irq_state \in 0..2
    /\ pc \in Pcs /\ x3 \in Interruptible \cup {"none"} /\ x4 \in SUBSET IRQs
    /\ sp \in [stack : Owners, depth : 0..1] /\ regs \in Owners
    /\ uxCriticalNesting \in 0..MaxNest
    /\ pxCurrentTCB \in Owners
    /\ pxTopOfStack \in [Owners -> [stack : Owners, depth : 0..1]]
    /\ frame \in [Owners -> [pc : Interruptible \cup {"none"}, regs : Owners]]
    /\ launch \in 0..LaunchCycles
    /\ yieldWanted \in 0..1
    /\ depth \in [Owners -> 0..MaxNest]
    /\ stoppedAt \in [Owners -> Interruptible]

\* irq_active is set exactly while the handler runs, and an entry in progress
\* interrupts a task at an interruptible point with interrupts unmasked
IEntry ==
    /\ irq_active = 1 <=> pc \in HandlerPcs
    /\ irq_state = 1 => pc \in Interruptible
    /\ irq_state = 2 => pc = "irqSave"
    /\ irq_state # 0 \/ irq_active = 1 =>
          irq_mask = {} /\ uxCriticalNesting = 0 /\ sp.stack # NoTask

\* until the tick is enabled nothing requests an interrupt, and the launch
\* ends before the first tick can
IBoot ==
    /\ pc \in {"main", "launchSp"} \cup StartPcs => sp.stack = NoTask
    /\ sp.stack = NoTask =>
          /\ pc \in {"main", "launchSp", "enterInc", "exitUnmask"} \cup StartPcs
          /\ sp.depth = 0
    /\ sp.stack = NoTask \/ pc \in LaunchPcs =>
          /\ irq_active = 0 /\ irq_state = 0 /\ soft_irq = 0
          /\ timer_irq_pending = 0 /\ irq_pending = {} /\ yieldWanted = 0
    /\ sp.stack = NoTask /\ pc # "launchSp" => timer_irq_enable = 0
    /\ pc \in StartPcs \ {"setPeriod"} => timer_irq_countdown = Period
    /\ pc \in LaunchPcs =>
          /\ timer_irq_enable = 1
          /\ timer_irq_countdown = Period - launch
          /\ launch <= LaunchCycles - (IF pc = "launchSp" THEN 3
                                       ELSE IF pc = "launchRegs" THEN 2 ELSE 1)
    /\ pc \notin LaunchPcs => launch = 0

\* the depth is the running task's; nesting and transitions are masked
ICritical ==
    /\ \A t \in Owners : depth[t] = IF t = sp.stack THEN uxCriticalNesting ELSE 0
    /\ uxCriticalNesting > 0 \/ pc \in CriticalPcs => irq_mask = IRQs
    /\ pc \in StartPcs \cup LaunchPcs => uxCriticalNesting = 0
    /\ pc = "enterInc" => uxCriticalNesting < MaxNest
    /\ pc = "exitUnmask" => uxCriticalNesting = 0
    /\ pc \in {"run"} \cup YieldPcs /\ uxCriticalNesting = 0 => irq_mask = {}
    /\ pc \in {"enableTick"} \cup LaunchPcs => irq_mask = {}

\* the live context is that of the current task, the others are on their stacks
OnStack(t) == /\ pxTopOfStack[t] = [stack |-> t, depth |-> 1]
              /\ frame[t] = [pc |-> stoppedAt[t], regs |-> t]
IContext ==
    /\ sp.stack = NoTask => \A t \in Tasks : stoppedAt[t] = "run"
    /\ sp.stack # NoTask => \A t \in Tasks : frame[t].pc # "none"
    /\ pc \in StartPcs \cup LaunchPcs => \A t \in Tasks : frame[t].pc # "none"
    /\ \A t \in Tasks : frame[t].pc # "none" =>
          /\ pxCurrentTCB # NoTask
          /\ t # sp.stack \/ pc \in Switching \cup {"launchRegs"} => OnStack(t)
    /\ pxCurrentTCB # NoTask => frame[pxCurrentTCB].pc # "none"
    /\ pc \in TaskPcs \cup {"irqSave", "irqRet", "launchJump"} /\ sp.stack # NoTask =>
          sp = [stack |-> pxCurrentTCB, depth |-> 0] /\ regs = pxCurrentTCB
    /\ pc = "launchRegs" => sp = [stack |-> pxCurrentTCB, depth |-> 1]
    /\ pc \in {"irqSave", "irqSaveSp", "irqRet", "launchJump"} =>
          x3 = stoppedAt[pxCurrentTCB]
    /\ pc = "irqSaveSp" =>
          /\ sp = [stack |-> pxCurrentTCB, depth |-> 1]
          /\ frame[pxCurrentTCB] = [pc |-> stoppedAt[pxCurrentTCB], regs |-> pxCurrentTCB]

\* an event is counted once: the handler acknowledges a pending event, and the
\* core shows none that is not pending but the one just acknowledged
ITick ==
    /\ uncounted = timer_irq_pending + (IF pc = "hTick" THEN 1 ELSE 0)
    /\ TIMER \in irq_pending => timer_irq_pending = 1 \/ pc = "hTick"
    /\ pc \in Saving /\ irq_state = 0 /\ TIMER \in x4 => timer_irq_pending = 1

\* where a requested yield is
IYield ==
    /\ soft_irq = 1 => pc = "yieldBus"
    /\ pc = "yieldBus" => irq_state = 0 /\ soft_irq = 1 /\ yieldWanted = 1
    /\ yieldWanted = 1 =>
          \/ pc = "yieldBus"
          \/ pc \notin HandlerPcs /\ YIELD \in irq_pending
          \/ irq_state = 2 /\ YIELD \in irq_pending
          \/ irq_state = 0 /\ pc \in HandlerPcs \ {"irqRestore", "irqRet"} /\ YIELD \in x4
    /\ pc = "yieldBus" \/ (pc = "yieldNop" /\ yieldWanted = 1) => irq_delay = 0
    /\ pc = "yieldRet" /\ uxCriticalNesting = 0 => yieldWanted = 0

IInv == IClock /\ IType /\ IEntry /\ IBoot /\ ICritical /\ IContext /\ ITick /\ IYield

-----------------------------------------------------------------------------
(***************************************************************************)
(* What one clock does to the peripheral and to the pending latch.         *)
(***************************************************************************)
Stores == {"none", "ack", "period", "enable", "soft"}

\* Facts about the sets of requests that the steps below use.
LEMMA RequestSets ==
    ASSUME NEW P \in SUBSET IRQs, NEW M \in {{}, IRQs}
    PROVE  /\ P \ M \in SUBSET IRQs
           /\ P \cap M \in SUBSET IRQs
           /\ P \ M # {} => M = {}
           /\ M = {} => P \ M = P
  OBVIOUS

\* A clock keeps the types of what it drives.
LEMMA ClockType ==
    ASSUME IClock,
           \/ Clock("none", 0) \/ Clock("none", 1) \/ Clock("ack", 0)
           \/ Clock("period", 0) \/ Clock("enable", 0) \/ Clock("soft", 0)
    PROVE  IClock'
<1>1. PICK w \in Stores, k \in 0..1 : Clock(w, k)
  BY DEF Stores
<1>2. Sampled \in SUBSET IRQs
  BY DEF IClock, Sampled, Lines
<1>3. irq_pending' \in SUBSET IRQs
  BY <1>1, <1>2 DEF Clock
<1> QED
  BY <1>1, <1>3 DEF IClock, Clock, TimerClock, Fires, TickPeriod, Stores

\* Before the tick is enabled, a clock without a yield requests nothing.
LEMMA QuietClock ==
    ASSUME IInv, timer_irq_enable = 0, sp.stack = NoTask,
           NEW w \in Stores \ {"soft"}, Clock(w, 0)
    PROVE  /\ soft_irq' = 0 /\ timer_irq_pending' = 0 /\ irq_pending' = {}
           /\ timer_irq_enable' = IF w = "enable" THEN 1 ELSE 0
           /\ w # "period" => timer_irq_countdown' = timer_irq_countdown
<1>1. soft_irq = 0 /\ timer_irq_pending = 0 /\ irq_pending = {} /\ irq_state = 0
  BY DEF IInv, IBoot
<1>2. Sampled = {}
  BY <1>1 DEF Sampled, Lines
<1>3. ~Fires
  BY DEF Fires
<1> QED
  BY <1>1, <1>2, <1>3 DEF IInv, IClock, Clock, TimerClock, Stores

\* During the launch the countdown is still running.
LEMMA LaunchClock ==
    ASSUME IInv, pc \in LaunchPcs, Clock("none", 0)
    PROVE  /\ soft_irq' = 0 /\ timer_irq_pending' = 0 /\ irq_pending' = {}
           /\ timer_irq_enable' = 1
           /\ timer_irq_countdown' = Period - (launch + 1)
<1>1. /\ soft_irq = 0 /\ timer_irq_pending = 0 /\ irq_pending = {} /\ irq_state = 0
      /\ timer_irq_enable = 1 /\ timer_irq_countdown = Period - launch
      /\ launch < Period
  BY DEF IInv, IClock, IType, IBoot
<1>2. Sampled = {}
  BY <1>1 DEF Sampled, Lines
<1>3. ~Fires
  BY <1>1 DEF Fires, IInv, IClock, IType
<1> QED
  BY <1>1, <1>2, <1>3 DEF IInv, IClock, IType, Clock, TimerClock

\* A request is taken from a task at an interruptible point only.
LEMMA TakenFromTask ==
    ASSUME IInv, AtBoundary, TakesIrq
    PROVE  /\ irq_mask = {} /\ uxCriticalNesting = 0 /\ sp.stack # NoTask
           /\ pc \in Interruptible
<1>1. irq_mask = {}
  BY RequestSets DEF IInv, IClock, IType, TakesIrq
<1>2. irq_pending # {}
  BY DEF TakesIrq
<1>3. sp.stack # NoTask /\ pc \notin LaunchPcs
  BY <1>2 DEF IInv, IBoot
<1> QED
  BY <1>1, <1>3 DEF IInv, IType, IEntry, IBoot, ICritical, AtBoundary, TakesIrq

-----------------------------------------------------------------------------
(***************************************************************************)
(* Every action preserves the invariant.                                   *)
(***************************************************************************)
\* IrqRequest preserves the invariant.
LEMMA IrqRequestStep == IInv /\ IrqRequest => IInv'
<1> SUFFICES ASSUME IInv, IrqRequest PROVE IInv'
  OBVIOUS
<1>1. IClock'
  BY ClockType DEF IInv, IrqRequest
<1>2. IType'
  BY DEF IInv, IType, critical, kept, stacks, IrqRequest
<1>3. IEntry'
  BY TakenFromTask DEF IInv, IEntry, critical, kept, stacks, Fires,
     TimerClock, Lines, LATCHED_IRQ, Sampled, Clock, TakesIrq, AtBoundary,
     IrqRequest
<1>4. IBoot'
  BY QuietClock, LaunchClock, TakenFromTask DEF IInv, IBoot, critical, kept,
     stacks, Stores, IrqRequest
<1>5. ICritical'
  BY DEF IInv, ICritical, critical, kept, stacks, IrqRequest
<1>6. IContext'
  BY DEF IInv, IContext, OnStack, critical, kept, stacks, IrqRequest
<1>7. ITick'
  BY DEF IInv, ITick, critical, kept, stacks, Fires, TimerClock, Lines,
     LATCHED_IRQ, Sampled, Clock, IrqRequest
<1>8. IYield'
  BY DEF IInv, IEntry, IYield, critical, kept, stacks, Fires, TimerClock,
     Lines, LATCHED_IRQ, Sampled, Clock, TakesIrq, AtBoundary, IrqRequest
<1> QED
  BY <1>1, <1>2, <1>3, <1>4, <1>5, <1>6, <1>7, <1>8 DEF IInv

\* IrqVector preserves the invariant.
LEMMA IrqVectorStep == IInv /\ IrqVector => IInv'
<1> SUFFICES ASSUME IInv, IrqVector PROVE IInv'
  OBVIOUS
<1>1. IClock'
  BY ClockType DEF IInv, IrqVector
<1>2. IType'
  BY DEF IInv, IType, IEntry, stacks, critical, IrqVector
<1>3. IEntry'
  BY DEF IInv, IEntry, stacks, critical, Fires, TimerClock, Lines,
     LATCHED_IRQ, Sampled, Clock, TakesIrq, AtBoundary, IrqVector
<1>4. IBoot'
  BY QuietClock, LaunchClock DEF IInv, IBoot, stacks, critical, Stores,
     IrqVector
<1>5. ICritical'
  BY DEF IInv, ICritical, stacks, critical, IrqVector
<1>6. IContext'
  BY DEF IInv, IType, IEntry, IContext, OnStack, stacks, critical, IrqVector
<1>7. ITick'
  BY DEF IInv, IEntry, ITick, stacks, critical, Fires, TimerClock, Lines,
     LATCHED_IRQ, Sampled, Clock, IrqVector
<1>8. IYield'
  BY DEF IInv, IYield, stacks, critical, Fires, TimerClock, Lines,
     LATCHED_IRQ, Sampled, Clock, TakesIrq, AtBoundary, IrqVector
<1> QED
  BY <1>1, <1>2, <1>3, <1>4, <1>5, <1>6, <1>7, <1>8 DEF IInv

\* IrqBitmap preserves the invariant.
LEMMA IrqBitmapStep == IInv /\ IrqBitmap => IInv'
<1> SUFFICES ASSUME IInv, IrqBitmap PROVE IInv'
  OBVIOUS
<1>1. IClock'
  BY ClockType DEF IInv, IrqBitmap
<1>2. IType'
  BY RequestSets DEF IInv, IClock, IType, IEntry, ITick, critical, kept,
     stacks, IrqBitmap
<1>3. IEntry'
  BY DEF IInv, IEntry, critical, kept, stacks, Fires, TimerClock, Lines,
     LATCHED_IRQ, Sampled, Clock, TakesIrq, AtBoundary, IrqBitmap
<1>4. IBoot'
  BY QuietClock, LaunchClock DEF IInv, IBoot, critical, kept, stacks, Stores,
     IrqBitmap
<1>5. ICritical'
  BY DEF IInv, ICritical, critical, kept, stacks, IrqBitmap
<1>6. IContext'
  BY DEF IInv, IContext, OnStack, critical, kept, stacks, IrqBitmap
<1>7. ITick'
  BY DEF IInv, ITick, critical, kept, stacks, Fires, TimerClock, Lines,
     LATCHED_IRQ, Sampled, Clock, IrqBitmap
<1>8. IYield'
  BY DEF IInv, IEntry, IYield, critical, kept, stacks, Fires, TimerClock,
     Lines, LATCHED_IRQ, Sampled, Clock, TakesIrq, AtBoundary, IrqBitmap
<1> QED
  BY <1>1, <1>2, <1>3, <1>4, <1>5, <1>6, <1>7, <1>8 DEF IInv

\* Stall preserves the invariant.
LEMMA StallStep == IInv /\ Stall => IInv'
<1> SUFFICES ASSUME IInv, Stall PROVE IInv'
  OBVIOUS
<1>1. IClock'
  BY ClockType DEF IInv, Stall
<1>2. IType'
  BY DEF IInv, IType, entry, stacks, critical, Stall
<1>3. IEntry'
  BY DEF IInv, IEntry, entry, stacks, critical, Fires, TimerClock, Lines,
     LATCHED_IRQ, Sampled, Clock, TakesIrq, AtBoundary, Stall
<1>4. IBoot'
  BY QuietClock, LaunchClock DEF IInv, IType, IBoot, entry, stacks, critical,
     Stores, Stall
<1>5. ICritical'
  BY DEF IInv, ICritical, entry, stacks, critical, Stall
<1>6. IContext'
  BY DEF IInv, IContext, OnStack, entry, stacks, critical, Stall
<1>7. ITick'
  BY DEF IInv, ITick, entry, stacks, critical, Fires, TimerClock, Lines,
     LATCHED_IRQ, Sampled, Clock, Stall
<1>8. IYield'
  BY DEF IInv, IYield, entry, stacks, critical, Fires, TimerClock, Lines,
     LATCHED_IRQ, Sampled, Clock, TakesIrq, AtBoundary, Stall
<1> QED
  BY <1>1, <1>2, <1>3, <1>4, <1>5, <1>6, <1>7, <1>8 DEF IInv

\* Work preserves the invariant.
LEMMA WorkStep == IInv /\ Work => IInv'
<1> SUFFICES ASSUME IInv, Work PROVE IInv'
  OBVIOUS
<1>1. IClock'
  BY ClockType DEF IInv, Instr, Work
<1>2. IType'
  BY DEF IInv, IType, Instr, entry, critical, kept, stacks, Work
<1>3. IEntry'
  BY DEF IInv, IEntry, Instr, entry, critical, kept, stacks, Fires,
     TimerClock, Lines, LATCHED_IRQ, Sampled, Clock, TakesIrq, AtBoundary,
     Work
<1>4. IBoot'
  BY QuietClock, LaunchClock DEF IInv, IBoot, Instr, entry, critical, kept,
     stacks, Stores, Work
<1>5. ICritical'
  BY DEF IInv, ICritical, Instr, entry, critical, kept, stacks, Work
<1>6. IContext'
  BY DEF IInv, IContext, OnStack, Instr, entry, critical, kept, stacks, Work
<1>7. ITick'
  BY DEF IInv, ITick, Instr, entry, critical, kept, stacks, Fires, TimerClock,
     Lines, LATCHED_IRQ, Sampled, Clock, Work
<1>8. IYield'
  BY DEF IInv, IYield, Instr, entry, critical, kept, stacks, Fires,
     TimerClock, Lines, LATCHED_IRQ, Sampled, Clock, TakesIrq, AtBoundary,
     Work
<1> QED
  BY <1>1, <1>2, <1>3, <1>4, <1>5, <1>6, <1>7, <1>8 DEF IInv

\* EnterCritical preserves the invariant.
LEMMA EnterCriticalStep == IInv /\ EnterCritical => IInv'
<1> SUFFICES ASSUME IInv, EnterCritical PROVE IInv'
  OBVIOUS
<1>1. IClock'
  BY ClockType DEF IInv, Instr, Home, EnterCritical
<1>2. IType'
  BY DEF IInv, IType, Instr, Home, entry, critical, kept, stacks,
     EnterCritical
<1>3. IEntry'
  BY DEF IInv, IEntry, Instr, Home, entry, critical, kept, stacks, Fires,
     TimerClock, Lines, LATCHED_IRQ, Sampled, Clock, TakesIrq, AtBoundary,
     EnterCritical
<1>4. IBoot'
  BY QuietClock, LaunchClock DEF IInv, IBoot, Instr, Home, entry, critical,
     kept, stacks, Stores, EnterCritical
<1>5. ICritical'
  BY DEF IInv, ICritical, Instr, Home, entry, critical, kept, stacks,
     EnterCritical
<1>6. IContext'
  BY DEF IInv, IContext, OnStack, Instr, Home, entry, critical, kept, stacks,
     EnterCritical
<1>7. ITick'
  BY DEF IInv, ITick, Instr, Home, entry, critical, kept, stacks, Fires,
     TimerClock, Lines, LATCHED_IRQ, Sampled, Clock, EnterCritical
<1>8. IYield'
  BY DEF IInv, IYield, Instr, Home, entry, critical, kept, stacks, Fires,
     TimerClock, Lines, LATCHED_IRQ, Sampled, Clock, TakesIrq, AtBoundary,
     EnterCritical
<1> QED
  BY <1>1, <1>2, <1>3, <1>4, <1>5, <1>6, <1>7, <1>8 DEF IInv

\* EnterCriticalInc preserves the invariant.
LEMMA EnterCriticalIncStep == IInv /\ EnterCriticalInc => IInv'
<1> SUFFICES ASSUME IInv, EnterCriticalInc PROVE IInv'
  OBVIOUS
<1>1. IClock'
  BY ClockType DEF IInv, Instr, Home, EnterCriticalInc
<1>2. IType'
  BY DEF IInv, IType, IEntry, ICritical, Instr, Home, entry, kept, stacks,
     EnterCriticalInc
<1>3. IEntry'
  BY DEF IInv, IEntry, Instr, Home, entry, kept, stacks, Fires, TimerClock,
     Lines, LATCHED_IRQ, Sampled, Clock, TakesIrq, AtBoundary,
     EnterCriticalInc
<1>4. IBoot'
  BY QuietClock, LaunchClock DEF IInv, IBoot, Instr, Home, entry, kept,
     stacks, Stores, EnterCriticalInc
<1>5. ICritical'
  BY DEF IInv, IType, ICritical, Instr, Home, entry, kept, stacks,
     EnterCriticalInc
<1>6. IContext'
  BY DEF IInv, IContext, OnStack, Instr, Home, entry, kept, stacks,
     EnterCriticalInc
<1>7. ITick'
  BY DEF IInv, ITick, Instr, Home, entry, kept, stacks, Fires, TimerClock,
     Lines, LATCHED_IRQ, Sampled, Clock, EnterCriticalInc
<1>8. IYield'
  BY DEF IInv, IYield, Instr, Home, entry, kept, stacks, Fires, TimerClock,
     Lines, LATCHED_IRQ, Sampled, Clock, TakesIrq, AtBoundary,
     EnterCriticalInc
<1> QED
  BY <1>1, <1>2, <1>3, <1>4, <1>5, <1>6, <1>7, <1>8 DEF IInv

\* ExitCritical preserves the invariant.
LEMMA ExitCriticalStep == IInv /\ ExitCritical => IInv'
<1> SUFFICES ASSUME IInv, ExitCritical PROVE IInv'
  OBVIOUS
<1>1. IClock'
  BY ClockType DEF IInv, Instr, Home, UnmasksAt, ExitCritical
<1>2. IType'
  BY DEF IInv, IType, IEntry, ICritical, Instr, Home, UnmasksAt, entry, kept,
     stacks, ExitCritical
<1>3. IEntry'
  BY DEF IInv, IEntry, Instr, Home, UnmasksAt, entry, kept, stacks, Fires,
     TimerClock, Lines, LATCHED_IRQ, Sampled, Clock, TakesIrq, AtBoundary,
     ExitCritical
<1>4. IBoot'
  BY QuietClock, LaunchClock DEF IInv, IBoot, Instr, Home, UnmasksAt, entry,
     kept, stacks, Stores, ExitCritical
<1>5. ICritical'
  BY DEF IInv, IType, ICritical, Instr, Home, UnmasksAt, entry, kept, stacks,
     ExitCritical
<1>6. IContext'
  BY DEF IInv, IContext, OnStack, Instr, Home, UnmasksAt, entry, kept, stacks,
     ExitCritical
<1>7. ITick'
  BY DEF IInv, ITick, Instr, Home, UnmasksAt, entry, kept, stacks, Fires,
     TimerClock, Lines, LATCHED_IRQ, Sampled, Clock, ExitCritical
<1>8. IYield'
  BY DEF IInv, IYield, Instr, Home, UnmasksAt, entry, kept, stacks, Fires,
     TimerClock, Lines, LATCHED_IRQ, Sampled, Clock, TakesIrq, AtBoundary,
     ExitCritical
<1> QED
  BY <1>1, <1>2, <1>3, <1>4, <1>5, <1>6, <1>7, <1>8 DEF IInv

\* ExitCriticalUnmask preserves the invariant.
LEMMA ExitCriticalUnmaskStep == IInv /\ ExitCriticalUnmask => IInv'
<1> SUFFICES ASSUME IInv, ExitCriticalUnmask PROVE IInv'
  OBVIOUS
<1>1. IClock'
  BY ClockType DEF IInv, Instr, Home, ExitCriticalUnmask
<1>2. IType'
  BY DEF IInv, IType, Instr, Home, entry, critical, kept, stacks,
     ExitCriticalUnmask
<1>3. IEntry'
  BY DEF IInv, IEntry, Instr, Home, entry, critical, kept, stacks, Fires,
     TimerClock, Lines, LATCHED_IRQ, Sampled, Clock, TakesIrq, AtBoundary,
     ExitCriticalUnmask
<1>4. IBoot'
  BY QuietClock, LaunchClock DEF IInv, IBoot, Instr, Home, entry, critical,
     kept, stacks, Stores, ExitCriticalUnmask
<1>5. ICritical'
  BY DEF IInv, ICritical, Instr, Home, entry, critical, kept, stacks,
     ExitCriticalUnmask
<1>6. IContext'
  BY DEF IInv, IContext, OnStack, Instr, Home, entry, critical, kept, stacks,
     ExitCriticalUnmask
<1>7. ITick'
  BY DEF IInv, ITick, Instr, Home, entry, critical, kept, stacks, Fires,
     TimerClock, Lines, LATCHED_IRQ, Sampled, Clock, ExitCriticalUnmask
<1>8. IYield'
  BY DEF IInv, IYield, Instr, Home, entry, critical, kept, stacks, Fires,
     TimerClock, Lines, LATCHED_IRQ, Sampled, Clock, TakesIrq, AtBoundary,
     ExitCriticalUnmask
<1> QED
  BY <1>1, <1>2, <1>3, <1>4, <1>5, <1>6, <1>7, <1>8 DEF IInv

\* YieldStore preserves the invariant.
LEMMA YieldStoreStep == IInv /\ YieldStore => IInv'
<1> SUFFICES ASSUME IInv, YieldStore PROVE IInv'
  OBVIOUS
<1>1. IClock'
  BY ClockType DEF IInv, Instr, YieldStore
<1>2. IType'
  BY DEF IInv, IType, Instr, entry, critical, kept, stacks, YieldStore
<1>3. IEntry'
  BY DEF IInv, IEntry, Instr, entry, critical, kept, stacks, Fires,
     TimerClock, Lines, LATCHED_IRQ, Sampled, Clock, TakesIrq, AtBoundary,
     YieldStore
<1>4. IBoot'
  BY QuietClock, LaunchClock DEF IInv, IBoot, Instr, entry, critical, kept,
     stacks, Stores, Fires, TimerClock, Lines, LATCHED_IRQ, Sampled, Clock,
     TickPeriod, YieldStore
<1>5. ICritical'
  BY DEF IInv, ICritical, Instr, entry, critical, kept, stacks, YieldStore
<1>6. IContext'
  BY DEF IInv, IContext, OnStack, Instr, entry, critical, kept, stacks,
     YieldStore
<1>7. ITick'
  BY DEF IInv, ITick, Instr, entry, critical, kept, stacks, Fires, TimerClock,
     Lines, LATCHED_IRQ, Sampled, Clock, YieldStore
<1>8. IYield'
  BY DEF IInv, IType, IEntry, IYield, Instr, entry, critical, kept, stacks,
     Fires, TimerClock, Lines, LATCHED_IRQ, Sampled, Clock, TakesIrq,
     AtBoundary, YieldStore
<1> QED
  BY <1>1, <1>2, <1>3, <1>4, <1>5, <1>6, <1>7, <1>8 DEF IInv

\* YieldBus preserves the invariant.
LEMMA YieldBusStep == IInv /\ YieldBus => IInv'
<1> SUFFICES ASSUME IInv, YieldBus PROVE IInv'
  OBVIOUS
<1>1. IClock'
  BY ClockType DEF IInv, Instr, Advance, YieldBus
<1>2. IType'
  BY DEF IInv, IType, Instr, Advance, entry, critical, kept, stacks, YieldBus
<1>3. IEntry'
  BY DEF IInv, IEntry, Instr, Advance, entry, critical, kept, stacks, Fires,
     TimerClock, Lines, LATCHED_IRQ, Sampled, Clock, TakesIrq, AtBoundary,
     YieldBus
<1>4. IBoot'
  BY QuietClock, LaunchClock DEF IInv, IBoot, Instr, Advance, entry, critical,
     kept, stacks, Stores, YieldBus
<1>5. ICritical'
  BY DEF IInv, ICritical, Instr, Advance, entry, critical, kept, stacks,
     YieldBus
<1>6. IContext'
  BY DEF IInv, IContext, OnStack, Instr, Advance, entry, critical, kept,
     stacks, YieldBus
<1>7. ITick'
  BY DEF IInv, ITick, Instr, Advance, entry, critical, kept, stacks, Fires,
     TimerClock, Lines, LATCHED_IRQ, Sampled, Clock, YieldBus
<1>8. IYield'
  BY DEF IInv, IType, IEntry, IYield, Instr, Advance, entry, critical, kept,
     stacks, Fires, TimerClock, Lines, LATCHED_IRQ, Sampled, Clock, TakesIrq,
     AtBoundary, YieldBus
<1> QED
  BY <1>1, <1>2, <1>3, <1>4, <1>5, <1>6, <1>7, <1>8 DEF IInv

\* YieldNops preserves the invariant.
LEMMA YieldNopsStep == IInv /\ YieldNops => IInv'
<1> SUFFICES ASSUME IInv, YieldNops PROVE IInv'
  OBVIOUS
<1>1. IClock'
  BY ClockType DEF IInv, Instr, Advance, YieldNops
<1>2. IType'
  BY DEF IInv, IType, Instr, Advance, entry, critical, kept, stacks, YieldNops
<1>3. IEntry'
  BY DEF IInv, IEntry, Instr, Advance, entry, critical, kept, stacks, Fires,
     TimerClock, Lines, LATCHED_IRQ, Sampled, Clock, TakesIrq, AtBoundary,
     YieldNops
<1>4. IBoot'
  BY QuietClock, LaunchClock DEF IInv, IBoot, Instr, Advance, entry, critical,
     kept, stacks, Stores, YieldNops
<1>5. ICritical'
  BY DEF IInv, ICritical, Instr, Advance, entry, critical, kept, stacks,
     YieldNops
<1>6. IContext'
  BY DEF IInv, IContext, OnStack, Instr, Advance, entry, critical, kept,
     stacks, YieldNops
<1>7. ITick'
  BY DEF IInv, ITick, Instr, Advance, entry, critical, kept, stacks, Fires,
     TimerClock, Lines, LATCHED_IRQ, Sampled, Clock, YieldNops
<1>8. IYield'
  BY DEF IInv, IType, IEntry, ICritical, IYield, Instr, Advance, entry,
     critical, kept, stacks, Fires, TimerClock, Lines, LATCHED_IRQ, Sampled,
     Clock, TakesIrq, AtBoundary, YieldNops
<1> QED
  BY <1>1, <1>2, <1>3, <1>4, <1>5, <1>6, <1>7, <1>8 DEF IInv

\* YieldReturn preserves the invariant.
LEMMA YieldReturnStep == IInv /\ YieldReturn => IInv'
<1> SUFFICES ASSUME IInv, YieldReturn PROVE IInv'
  OBVIOUS
<1>1. IClock'
  BY ClockType DEF IInv, Instr, Advance, YieldReturn
<1>2. IType'
  BY DEF IInv, IType, Instr, Advance, entry, critical, kept, stacks,
     YieldReturn
<1>3. IEntry'
  BY DEF IInv, IEntry, Instr, Advance, entry, critical, kept, stacks, Fires,
     TimerClock, Lines, LATCHED_IRQ, Sampled, Clock, TakesIrq, AtBoundary,
     YieldReturn
<1>4. IBoot'
  BY QuietClock, LaunchClock DEF IInv, IBoot, Instr, Advance, entry, critical,
     kept, stacks, Stores, YieldReturn
<1>5. ICritical'
  BY DEF IInv, ICritical, Instr, Advance, entry, critical, kept, stacks,
     YieldReturn
<1>6. IContext'
  BY DEF IInv, IContext, OnStack, Instr, Advance, entry, critical, kept,
     stacks, YieldReturn
<1>7. ITick'
  BY DEF IInv, ITick, Instr, Advance, entry, critical, kept, stacks, Fires,
     TimerClock, Lines, LATCHED_IRQ, Sampled, Clock, YieldReturn
<1>8. IYield'
  BY DEF IInv, IYield, Instr, Advance, entry, critical, kept, stacks, Fires,
     TimerClock, Lines, LATCHED_IRQ, Sampled, Clock, TakesIrq, AtBoundary,
     YieldReturn
<1> QED
  BY <1>1, <1>2, <1>3, <1>4, <1>5, <1>6, <1>7, <1>8 DEF IInv

\* StartScheduler preserves the invariant.
LEMMA StartSchedulerStep == IInv /\ StartScheduler => IInv'
<1> SUFFICES ASSUME IInv, StartScheduler PROVE IInv'
  OBVIOUS
<1>1. IClock'
  BY ClockType DEF IInv, Instr, StartScheduler
<1>2. IType'
  BY DEF IInv, IType, Instr, entry, critical, kept, stacks, StartScheduler
<1>3. IEntry'
  BY DEF IInv, IEntry, Instr, entry, critical, kept, stacks, Fires,
     TimerClock, Lines, LATCHED_IRQ, Sampled, Clock, TakesIrq, AtBoundary,
     StartScheduler
<1>4. IBoot'
  BY QuietClock, LaunchClock DEF IInv, IBoot, Instr, entry, critical, kept,
     stacks, Stores, StartScheduler
<1>5. ICritical'
  BY DEF IInv, ICritical, Instr, entry, critical, kept, stacks, StartScheduler
<1>6. IContext'
  BY DEF IInv, IContext, OnStack, Instr, entry, critical, kept, stacks,
     StartScheduler
<1>7. ITick'
  BY DEF IInv, IType, ITick, Instr, entry, critical, kept, stacks, Fires,
     TimerClock, Lines, LATCHED_IRQ, Sampled, Clock, StartScheduler
<1>8. IYield'
  BY DEF IInv, IYield, Instr, entry, critical, kept, stacks, Fires,
     TimerClock, Lines, LATCHED_IRQ, Sampled, Clock, TakesIrq, AtBoundary,
     StartScheduler
<1> QED
  BY <1>1, <1>2, <1>3, <1>4, <1>5, <1>6, <1>7, <1>8 DEF IInv

\* SetPeriod preserves the invariant.
LEMMA SetPeriodStep == IInv /\ SetPeriod => IInv'
<1> SUFFICES ASSUME IInv, SetPeriod PROVE IInv'
  OBVIOUS
<1>1. IClock'
  BY ClockType DEF IInv, Instr, StartStore, SetPeriod
<1>2. IType'
  BY DEF IInv, IType, Instr, StartStore, entry, critical, kept, stacks,
     SetPeriod
<1>3. IEntry'
  BY DEF IInv, IEntry, Instr, StartStore, entry, critical, kept, stacks,
     Fires, TimerClock, Lines, LATCHED_IRQ, Sampled, Clock, TakesIrq,
     AtBoundary, SetPeriod
<1>4. IBoot'
  BY QuietClock, LaunchClock DEF IInv, IBoot, Instr, StartStore, entry,
     critical, kept, stacks, Stores, Fires, TimerClock, Lines, LATCHED_IRQ,
     Sampled, Clock, TickPeriod, SetPeriod
<1>5. ICritical'
  BY DEF IInv, ICritical, Instr, StartStore, entry, critical, kept, stacks,
     SetPeriod
<1>6. IContext'
  BY DEF IInv, IContext, OnStack, Instr, StartStore, entry, critical, kept,
     stacks, SetPeriod
<1>7. ITick'
  BY DEF IInv, ITick, Instr, StartStore, entry, critical, kept, stacks, Fires,
     TimerClock, Lines, LATCHED_IRQ, Sampled, Clock, SetPeriod
<1>8. IYield'
  BY DEF IInv, IYield, Instr, StartStore, entry, critical, kept, stacks,
     Fires, TimerClock, Lines, LATCHED_IRQ, Sampled, Clock, TakesIrq,
     AtBoundary, SetPeriod
<1> QED
  BY <1>1, <1>2, <1>3, <1>4, <1>5, <1>6, <1>7, <1>8 DEF IInv

\* ClearPending preserves the invariant.
LEMMA ClearPendingStep == IInv /\ ClearPending => IInv'
<1> SUFFICES ASSUME IInv, ClearPending PROVE IInv'
  OBVIOUS
<1>1. IClock'
  BY ClockType DEF IInv, Instr, StartStore, ClearPending
<1>2. IType'
  BY DEF IInv, IType, Instr, StartStore, entry, critical, kept, stacks,
     ClearPending
<1>3. IEntry'
  BY DEF IInv, IEntry, Instr, StartStore, entry, critical, kept, stacks,
     Fires, TimerClock, Lines, LATCHED_IRQ, Sampled, Clock, TakesIrq,
     AtBoundary, ClearPending
<1>4. IBoot'
  BY QuietClock, LaunchClock DEF IInv, IBoot, Instr, StartStore, entry,
     critical, kept, stacks, Stores, ClearPending
<1>5. ICritical'
  BY DEF IInv, ICritical, Instr, StartStore, entry, critical, kept, stacks,
     ClearPending
<1>6. IContext'
  BY DEF IInv, IContext, OnStack, Instr, StartStore, entry, critical, kept,
     stacks, ClearPending
<1>7. ITick'
  BY DEF IInv, IEntry, IBoot, ITick, Instr, StartStore, entry, critical, kept,
     stacks, Fires, TimerClock, Lines, LATCHED_IRQ, Sampled, Clock,
     ClearPending
<1>8. IYield'
  BY DEF IInv, IYield, Instr, StartStore, entry, critical, kept, stacks,
     Fires, TimerClock, Lines, LATCHED_IRQ, Sampled, Clock, TakesIrq,
     AtBoundary, ClearPending
<1> QED
  BY <1>1, <1>2, <1>3, <1>4, <1>5, <1>6, <1>7, <1>8 DEF IInv

\* ResetPort preserves the invariant.
LEMMA ResetPortStep == IInv /\ ResetPort => IInv'
<1> SUFFICES ASSUME IInv, ResetPort PROVE IInv'
  OBVIOUS
<1>1. IClock'
  BY ClockType DEF IInv, Instr, ResetPort
<1>2. IType'
  BY DEF IInv, IType, Instr, entry, kept, stacks, ResetPort
<1>3. IEntry'
  BY DEF IInv, IEntry, Instr, entry, kept, stacks, Fires, TimerClock, Lines,
     LATCHED_IRQ, Sampled, Clock, TakesIrq, AtBoundary, ResetPort
<1>4. IBoot'
  BY QuietClock, LaunchClock DEF IInv, IBoot, Instr, entry, kept, stacks,
     Stores, ResetPort
<1>5. ICritical'
  BY DEF IInv, ICritical, Instr, entry, kept, stacks, ResetPort
<1>6. IContext'
  BY DEF IInv, IContext, OnStack, Instr, entry, kept, stacks, ResetPort
<1>7. ITick'
  BY DEF IInv, ITick, Instr, entry, kept, stacks, Fires, TimerClock, Lines,
     LATCHED_IRQ, Sampled, Clock, ResetPort
<1>8. IYield'
  BY DEF IInv, IYield, Instr, entry, kept, stacks, Fires, TimerClock, Lines,
     LATCHED_IRQ, Sampled, Clock, TakesIrq, AtBoundary, ResetPort
<1> QED
  BY <1>1, <1>2, <1>3, <1>4, <1>5, <1>6, <1>7, <1>8 DEF IInv

\* Unmask preserves the invariant.
LEMMA UnmaskStep == IInv /\ Unmask => IInv'
<1> SUFFICES ASSUME IInv, Unmask PROVE IInv'
  OBVIOUS
<1>1. IClock'
  BY ClockType DEF IInv, Instr, Unmask
<1>2. IType'
  BY DEF IInv, IType, Instr, entry, critical, kept, stacks, Unmask
<1>3. IEntry'
  BY DEF IInv, IEntry, Instr, entry, critical, kept, stacks, Fires,
     TimerClock, Lines, LATCHED_IRQ, Sampled, Clock, TakesIrq, AtBoundary,
     Unmask
<1>4. IBoot'
  BY QuietClock, LaunchClock DEF IInv, IBoot, Instr, entry, critical, kept,
     stacks, Stores, Unmask
<1>5. ICritical'
  BY DEF IInv, ICritical, Instr, entry, critical, kept, stacks, Unmask
<1>6. IContext'
  BY DEF IInv, IContext, OnStack, Instr, entry, critical, kept, stacks, Unmask
<1>7. ITick'
  BY DEF IInv, ITick, Instr, entry, critical, kept, stacks, Fires, TimerClock,
     Lines, LATCHED_IRQ, Sampled, Clock, Unmask
<1>8. IYield'
  BY DEF IInv, IYield, Instr, entry, critical, kept, stacks, Fires,
     TimerClock, Lines, LATCHED_IRQ, Sampled, Clock, TakesIrq, AtBoundary,
     Unmask
<1> QED
  BY <1>1, <1>2, <1>3, <1>4, <1>5, <1>6, <1>7, <1>8 DEF IInv

\* EnableTick preserves the invariant.
LEMMA EnableTickStep == IInv /\ EnableTick => IInv'
<1> SUFFICES ASSUME IInv, EnableTick PROVE IInv'
  OBVIOUS
<1>1. IClock'
  BY ClockType DEF IInv, Instr, StartStore, EnableTick
<1>2. IType'
  BY DEF IInv, IType, Instr, StartStore, entry, critical, kept, stacks,
     EnableTick
<1>3. IEntry'
  BY DEF IInv, IEntry, Instr, StartStore, entry, critical, kept, stacks,
     Fires, TimerClock, Lines, LATCHED_IRQ, Sampled, Clock, TakesIrq,
     AtBoundary, EnableTick
<1>4. IBoot'
  BY QuietClock, LaunchClock DEF IInv, IBoot, Instr, StartStore, entry,
     critical, kept, stacks, Stores, Fires, TimerClock, Lines, LATCHED_IRQ,
     Sampled, Clock, TickPeriod, EnableTick
<1>5. ICritical'
  BY DEF IInv, ICritical, Instr, StartStore, entry, critical, kept, stacks,
     EnableTick
<1>6. IContext'
  BY DEF IInv, IContext, OnStack, Instr, StartStore, entry, critical, kept,
     stacks, EnableTick
<1>7. ITick'
  BY DEF IInv, ITick, Instr, StartStore, entry, critical, kept, stacks, Fires,
     TimerClock, Lines, LATCHED_IRQ, Sampled, Clock, EnableTick
<1>8. IYield'
  BY DEF IInv, IYield, Instr, StartStore, entry, critical, kept, stacks,
     Fires, TimerClock, Lines, LATCHED_IRQ, Sampled, Clock, TakesIrq,
     AtBoundary, EnableTick
<1> QED
  BY <1>1, <1>2, <1>3, <1>4, <1>5, <1>6, <1>7, <1>8 DEF IInv

\* LaunchSp preserves the invariant.
LEMMA LaunchSpStep == IInv /\ LaunchSp => IInv'
<1> SUFFICES ASSUME IInv, LaunchSp PROVE IInv'
  OBVIOUS
<1>1. IClock'
  BY ClockType DEF IInv, Instr, LaunchSp
<1>2. IType'
  BY DEF IInv, IType, IEntry, IBoot, Instr, entry, critical, LaunchSp
<1>3. IEntry'
  BY DEF IInv, IEntry, Instr, entry, critical, Fires, TimerClock, Lines,
     LATCHED_IRQ, Sampled, Clock, TakesIrq, AtBoundary, LaunchSp
<1>4. IBoot'
  BY QuietClock, LaunchClock DEF IInv, IType, IBoot, IContext, OnStack, Instr,
     entry, critical, Stores, LaunchSp
<1>5. ICritical'
  BY DEF IInv, ICritical, Instr, entry, critical, LaunchSp
<1>6. IContext'
  BY DEF IInv, IType, IEntry, IBoot, IContext, OnStack, Instr, entry,
     critical, LaunchSp
<1>7. ITick'
  BY DEF IInv, ITick, Instr, entry, critical, Fires, TimerClock, Lines,
     LATCHED_IRQ, Sampled, Clock, LaunchSp
<1>8. IYield'
  BY DEF IInv, IYield, Instr, entry, critical, Fires, TimerClock, Lines,
     LATCHED_IRQ, Sampled, Clock, TakesIrq, AtBoundary, LaunchSp
<1> QED
  BY <1>1, <1>2, <1>3, <1>4, <1>5, <1>6, <1>7, <1>8 DEF IInv

\* LaunchRegs preserves the invariant.
LEMMA LaunchRegsStep == IInv /\ LaunchRegs => IInv'
<1> SUFFICES ASSUME IInv, LaunchRegs PROVE IInv'
  OBVIOUS
<1>1. IClock'
  BY ClockType DEF IInv, Instr, PopFrame, LaunchRegs
<1>2. IType'
  BY DEF IInv, IType, IEntry, IBoot, IContext, OnStack, Instr, PopFrame,
     entry, critical, LaunchRegs
<1>3. IEntry'
  BY DEF IInv, IEntry, Instr, PopFrame, entry, critical, Fires, TimerClock,
     Lines, LATCHED_IRQ, Sampled, Clock, TakesIrq, AtBoundary, LaunchRegs
<1>4. IBoot'
  BY QuietClock, LaunchClock DEF IInv, IType, IBoot, Instr, PopFrame, entry,
     critical, Stores, LaunchRegs
<1>5. ICritical'
  BY DEF IInv, ICritical, Instr, PopFrame, entry, critical, LaunchRegs
<1>6. IContext'
  BY DEF IInv, IType, IContext, OnStack, Instr, PopFrame, entry, critical,
     LaunchRegs
<1>7. ITick'
  BY DEF IInv, IEntry, IBoot, ITick, Instr, PopFrame, entry, critical, Fires,
     TimerClock, Lines, LATCHED_IRQ, Sampled, Clock, LaunchRegs
<1>8. IYield'
  BY DEF IInv, IYield, Instr, PopFrame, entry, critical, Fires, TimerClock,
     Lines, LATCHED_IRQ, Sampled, Clock, TakesIrq, AtBoundary, LaunchRegs
<1> QED
  BY <1>1, <1>2, <1>3, <1>4, <1>5, <1>6, <1>7, <1>8 DEF IInv

\* LaunchJump preserves the invariant.
LEMMA LaunchJumpStep == IInv /\ LaunchJump => IInv'
<1> SUFFICES ASSUME IInv, LaunchJump PROVE IInv'
  OBVIOUS
<1>1. IClock'
  BY ClockType DEF IInv, Instr, LaunchJump
<1>2. IType'
  BY DEF IInv, IType, IContext, OnStack, Instr, entry, stacks, critical,
     LaunchJump
<1>3. IEntry'
  BY DEF IInv, IType, IEntry, Instr, entry, stacks, critical, Fires,
     TimerClock, Lines, LATCHED_IRQ, Sampled, Clock, TakesIrq, AtBoundary,
     LaunchJump
<1>4. IBoot'
  BY QuietClock, LaunchClock DEF IInv, IType, IBoot, Instr, entry, stacks,
     critical, Stores, LaunchJump
<1>5. ICritical'
  BY DEF IInv, IType, IEntry, IBoot, ICritical, Instr, entry, stacks,
     critical, LaunchJump
<1>6. IContext'
  BY DEF IInv, IType, IContext, OnStack, Instr, entry, stacks, critical,
     LaunchJump
<1>7. ITick'
  BY DEF IInv, IType, ITick, Instr, entry, stacks, critical, Fires,
     TimerClock, Lines, LATCHED_IRQ, Sampled, Clock, LaunchJump
<1>8. IYield'
  BY DEF IInv, IType, IEntry, IBoot, IYield, Instr, entry, stacks, critical,
     Fires, TimerClock, Lines, LATCHED_IRQ, Sampled, Clock, TakesIrq,
     AtBoundary, LaunchJump
<1> QED
  BY <1>1, <1>2, <1>3, <1>4, <1>5, <1>6, <1>7, <1>8 DEF IInv

\* IrqSave preserves the invariant.
LEMMA IrqSaveStep == IInv /\ IrqSave => IInv'
<1> SUFFICES ASSUME IInv, IrqSave PROVE IInv'
  OBVIOUS
<1>1. IClock'
  BY ClockType DEF IInv, Instr, IrqSave
<1>2. IType'
  BY DEF IInv, IType, IEntry, IContext, OnStack, Instr, entry, critical,
     IrqSave
<1>3. IEntry'
  BY DEF IInv, IEntry, Instr, entry, critical, Fires, TimerClock, Lines,
     LATCHED_IRQ, Sampled, Clock, TakesIrq, AtBoundary, IrqSave
<1>4. IBoot'
  BY QuietClock, LaunchClock DEF IInv, IBoot, Instr, entry, critical, Stores,
     IrqSave
<1>5. ICritical'
  BY DEF IInv, ICritical, Instr, entry, critical, IrqSave
<1>6. IContext'
  BY DEF IInv, IType, IEntry, IContext, OnStack, Instr, entry, critical,
     IrqSave
<1>7. ITick'
  BY DEF IInv, IClock, IType, IEntry, ITick, Instr, entry, critical, Fires,
     TimerClock, Lines, LATCHED_IRQ, Sampled, Clock, IrqSave
<1>8. IYield'
  BY DEF IInv, IYield, Instr, entry, critical, Fires, TimerClock, Lines,
     LATCHED_IRQ, Sampled, Clock, TakesIrq, AtBoundary, IrqSave
<1> QED
  BY <1>1, <1>2, <1>3, <1>4, <1>5, <1>6, <1>7, <1>8 DEF IInv

\* IrqSaveSp preserves the invariant.
LEMMA IrqSaveSpStep == IInv /\ IrqSaveSp => IInv'
<1> SUFFICES ASSUME IInv, IrqSaveSp PROVE IInv'
  OBVIOUS
<1>1. IClock'
  BY ClockType DEF IInv, Instr, IrqSaveSp
<1>2. IType'
  BY DEF IInv, IType, Instr, entry, critical, IrqSaveSp
<1>3. IEntry'
  BY DEF IInv, IEntry, Instr, entry, critical, Fires, TimerClock, Lines,
     LATCHED_IRQ, Sampled, Clock, TakesIrq, AtBoundary, IrqSaveSp
<1>4. IBoot'
  BY QuietClock, LaunchClock DEF IInv, IBoot, Instr, entry, critical, Stores,
     IrqSaveSp
<1>5. ICritical'
  BY DEF IInv, ICritical, Instr, entry, critical, IrqSaveSp
<1>6. IContext'
  BY DEF IInv, IType, IContext, OnStack, Instr, entry, critical, IrqSaveSp
<1>7. ITick'
  BY DEF IInv, ITick, Instr, entry, critical, Fires, TimerClock, Lines,
     LATCHED_IRQ, Sampled, Clock, IrqSaveSp
<1>8. IYield'
  BY DEF IInv, IYield, Instr, entry, critical, Fires, TimerClock, Lines,
     LATCHED_IRQ, Sampled, Clock, TakesIrq, AtBoundary, IrqSaveSp
<1> QED
  BY <1>1, <1>2, <1>3, <1>4, <1>5, <1>6, <1>7, <1>8 DEF IInv

\* HandleTimer preserves the invariant.
LEMMA HandleTimerStep == IInv /\ HandleTimer => IInv'
<1> SUFFICES ASSUME IInv, HandleTimer PROVE IInv'
  OBVIOUS
<1>1. IClock'
  BY ClockType DEF IInv, Instr, Handler, HandleTimer
<1>2. IType'
  <2>1. CASE TIMER \in x4 /\ Handler("hTimer", "hTick", "ack", 0)
    BY <2>1 DEF IInv, IType, Instr, Handler, entry, critical, kept, stacks
  <2>2. CASE TIMER \notin x4 /\ Handler("hTimer", "hYield", "none", 0)
    BY <2>2 DEF IInv, IType, Instr, Handler, entry, critical, kept, stacks
  <2> QED
    BY <2>1, <2>2 DEF HandleTimer
<1>3. IEntry'
  BY DEF IInv, IEntry, Instr, Handler, entry, critical, kept, stacks, Fires,
     TimerClock, Lines, LATCHED_IRQ, Sampled, Clock, TakesIrq, AtBoundary,
     HandleTimer
<1>4. IBoot'
  BY QuietClock, LaunchClock DEF IInv, IBoot, Instr, Handler, entry, critical,
     kept, stacks, Stores, HandleTimer
<1>5. ICritical'
  BY DEF IInv, ICritical, Instr, Handler, entry, critical, kept, stacks,
     HandleTimer
<1>6. IContext'
  BY DEF IInv, IContext, OnStack, Instr, Handler, entry, critical, kept,
     stacks, HandleTimer
<1>7. ITick'
  BY DEF IInv, ITick, Instr, Handler, entry, critical, kept, stacks, Fires,
     TimerClock, Lines, LATCHED_IRQ, Sampled, Clock, HandleTimer
<1>8. IYield'
  BY DEF IInv, IYield, Instr, Handler, entry, critical, kept, stacks, Fires,
     TimerClock, Lines, LATCHED_IRQ, Sampled, Clock, TakesIrq, AtBoundary,
     HandleTimer
<1> QED
  BY <1>1, <1>2, <1>3, <1>4, <1>5, <1>6, <1>7, <1>8 DEF IInv

\* HandleTick preserves the invariant.
LEMMA HandleTickStep == IInv /\ HandleTick => IInv'
<1> SUFFICES ASSUME IInv, HandleTick PROVE IInv'
  OBVIOUS
<1>1. IClock'
  BY ClockType DEF IInv, Instr, Handler, HandleTick
<1>2. IType'
  BY DEF IInv, IType, Instr, Handler, entry, critical, kept, stacks,
     HandleTick
<1>3. IEntry'
  BY DEF IInv, IEntry, Instr, Handler, entry, critical, kept, stacks, Fires,
     TimerClock, Lines, LATCHED_IRQ, Sampled, Clock, TakesIrq, AtBoundary,
     HandleTick
<1>4. IBoot'
  BY QuietClock, LaunchClock DEF IInv, IBoot, Instr, Handler, entry, critical,
     kept, stacks, Stores, HandleTick
<1>5. ICritical'
  BY DEF IInv, ICritical, Instr, Handler, entry, critical, kept, stacks,
     HandleTick
<1>6. IContext'
  BY DEF IInv, IContext, OnStack, Instr, Handler, entry, critical, kept,
     stacks, HandleTick
<1>7. ITick'
  BY DEF IInv, ITick, Instr, Handler, entry, critical, kept, stacks, Fires,
     TimerClock, Lines, LATCHED_IRQ, Sampled, Clock, HandleTick
<1>8. IYield'
  BY DEF IInv, IYield, Instr, Handler, entry, critical, kept, stacks, Fires,
     TimerClock, Lines, LATCHED_IRQ, Sampled, Clock, TakesIrq, AtBoundary,
     HandleTick
<1> QED
  BY <1>1, <1>2, <1>3, <1>4, <1>5, <1>6, <1>7, <1>8 DEF IInv

\* HandleYield preserves the invariant.
LEMMA HandleYieldStep == IInv /\ HandleYield => IInv'
<1> SUFFICES ASSUME IInv, HandleYield PROVE IInv'
  OBVIOUS
<1>1. IClock'
  BY ClockType DEF IInv, Instr, Handler, HandleYield
<1>2. IType'
  <2>1. CASE YIELD \in x4 /\ Handler("hYield", "hSwitch", "none", 0)
    BY <2>1 DEF IInv, IType, Instr, Handler, entry, critical, kept, stacks
  <2>2. CASE YIELD \notin x4 /\ Handler("hYield", "irqRestore", "none", 0)
    BY <2>2 DEF IInv, IType, Instr, Handler, entry, critical, kept, stacks
  <2> QED
    BY <2>1, <2>2 DEF HandleYield
<1>3. IEntry'
  BY DEF IInv, IEntry, Instr, Handler, entry, critical, kept, stacks, Fires,
     TimerClock, Lines, LATCHED_IRQ, Sampled, Clock, TakesIrq, AtBoundary,
     HandleYield
<1>4. IBoot'
  BY QuietClock, LaunchClock DEF IInv, IBoot, Instr, Handler, entry, critical,
     kept, stacks, Stores, HandleYield
<1>5. ICritical'
  BY DEF IInv, ICritical, Instr, Handler, entry, critical, kept, stacks,
     HandleYield
<1>6. IContext'
  BY DEF IInv, IContext, OnStack, Instr, Handler, entry, critical, kept,
     stacks, HandleYield
<1>7. ITick'
  BY DEF IInv, ITick, Instr, Handler, entry, critical, kept, stacks, Fires,
     TimerClock, Lines, LATCHED_IRQ, Sampled, Clock, HandleYield
<1>8. IYield'
  BY DEF IInv, IYield, Instr, Handler, entry, critical, kept, stacks, Fires,
     TimerClock, Lines, LATCHED_IRQ, Sampled, Clock, TakesIrq, AtBoundary,
     HandleYield
<1> QED
  BY <1>1, <1>2, <1>3, <1>4, <1>5, <1>6, <1>7, <1>8 DEF IInv

\* HandleSwitch preserves the invariant.
LEMMA HandleSwitchStep == IInv /\ HandleSwitch => IInv'
<1> SUFFICES ASSUME IInv, HandleSwitch PROVE IInv'
  OBVIOUS
<1>1. IClock'
  BY ClockType DEF IInv, Instr, HandleSwitch
<1>2. IType'
  BY DEF IInv, IType, Instr, entry, stacks, critical, HandleSwitch
<1>3. IEntry'
  BY DEF IInv, IEntry, Instr, entry, stacks, critical, Fires, TimerClock,
     Lines, LATCHED_IRQ, Sampled, Clock, TakesIrq, AtBoundary, HandleSwitch
<1>4. IBoot'
  BY QuietClock, LaunchClock DEF IInv, IBoot, Instr, entry, stacks, critical,
     Stores, HandleSwitch
<1>5. ICritical'
  BY DEF IInv, ICritical, Instr, entry, stacks, critical, HandleSwitch
<1>6. IContext'
  BY DEF IInv, IEntry, IContext, OnStack, Instr, entry, stacks, critical,
     HandleSwitch
<1>7. ITick'
  BY DEF IInv, ITick, Instr, entry, stacks, critical, Fires, TimerClock,
     Lines, LATCHED_IRQ, Sampled, Clock, HandleSwitch
<1>8. IYield'
  BY DEF IInv, IYield, Instr, entry, stacks, critical, Fires, TimerClock,
     Lines, LATCHED_IRQ, Sampled, Clock, TakesIrq, AtBoundary, HandleSwitch
<1> QED
  BY <1>1, <1>2, <1>3, <1>4, <1>5, <1>6, <1>7, <1>8 DEF IInv

\* IrqRestore preserves the invariant.
LEMMA IrqRestoreStep == IInv /\ IrqRestore => IInv'
<1> SUFFICES ASSUME IInv, IrqRestore PROVE IInv'
  OBVIOUS
<1>1. IClock'
  BY ClockType DEF IInv, Instr, PopFrame, IrqRestore
<1>2. IType'
  BY DEF IInv, IType, IEntry, IContext, OnStack, Instr, PopFrame, entry,
     critical, IrqRestore
<1>3. IEntry'
  BY DEF IInv, IType, IEntry, IContext, OnStack, Instr, PopFrame, entry,
     critical, Fires, TimerClock, Lines, LATCHED_IRQ, Sampled, Clock,
     TakesIrq, AtBoundary, IrqRestore
<1>4. IBoot'
  BY QuietClock, LaunchClock DEF IInv, IType, IBoot, IContext, OnStack, Instr,
     PopFrame, entry, critical, Stores, IrqRestore
<1>5. ICritical'
  BY DEF IInv, IEntry, ICritical, Instr, PopFrame, entry, critical, IrqRestore
<1>6. IContext'
  BY DEF IInv, IType, IEntry, IContext, OnStack, Instr, PopFrame, entry,
     critical, IrqRestore
<1>7. ITick'
  BY DEF IInv, IClock, IType, IEntry, ITick, Instr, PopFrame, entry, critical,
     Fires, TimerClock, Lines, LATCHED_IRQ, Sampled, Clock, IrqRestore
<1>8. IYield'
  BY DEF IInv, IYield, Instr, PopFrame, entry, critical, Fires, TimerClock,
     Lines, LATCHED_IRQ, Sampled, Clock, TakesIrq, AtBoundary, IrqRestore
<1> QED
  BY <1>1, <1>2, <1>3, <1>4, <1>5, <1>6, <1>7, <1>8 DEF IInv

\* IrqRet preserves the invariant.
LEMMA IrqRetStep == IInv /\ IrqRet => IInv'
<1> SUFFICES ASSUME IInv, IrqRet PROVE IInv'
  OBVIOUS
<1>1. IClock'
  BY ClockType DEF IInv, Instr, IrqRet
<1>2. IType'
  BY DEF IInv, IType, IContext, OnStack, Instr, entry, stacks, critical,
     IrqRet
<1>3. IEntry'
  BY DEF IInv, IType, IEntry, Instr, entry, stacks, critical, Fires,
     TimerClock, Lines, LATCHED_IRQ, Sampled, Clock, TakesIrq, AtBoundary,
     IrqRet
<1>4. IBoot'
  BY QuietClock, LaunchClock DEF IInv, IType, IBoot, Instr, entry, stacks,
     critical, Stores, IrqRet
<1>5. ICritical'
  BY DEF IInv, IType, IEntry, ICritical, Instr, entry, stacks, critical,
     IrqRet
<1>6. IContext'
  BY DEF IInv, IType, IContext, OnStack, Instr, entry, stacks, critical,
     IrqRet
<1>7. ITick'
  BY DEF IInv, IType, ITick, Instr, entry, stacks, critical, Fires,
     TimerClock, Lines, LATCHED_IRQ, Sampled, Clock, IrqRet
<1>8. IYield'
  BY DEF IInv, IType, IYield, Instr, entry, stacks, critical, Fires,
     TimerClock, Lines, LATCHED_IRQ, Sampled, Clock, TakesIrq, AtBoundary,
     IrqRet
<1> QED
  BY <1>1, <1>2, <1>3, <1>4, <1>5, <1>6, <1>7, <1>8 DEF IInv

\* CreateTask preserves the invariant.
LEMMA CreateTaskStep ==
    ASSUME IInv, NEW t \in Tasks, CreateTask(t)
    PROVE  IInv'
<1>0. pc = "main" /\ pc' = "main" /\ sp.stack = NoTask /\ timer_irq_enable = 0
  BY DEF CreateTask, Instr, IInv, IBoot
<1>1. IClock'
  BY ClockType DEF IInv, CreateTask
<1>2. IType'
  BY <1>0 DEF IInv, IType, IEntry, CreateTask, Instr, entry, critical
<1>3. IEntry'
  BY <1>0 DEF IInv, IType, IEntry, CreateTask, Instr, entry, critical
<1>4. IBoot'
  BY <1>0, QuietClock DEF IInv, IBoot, CreateTask, Instr, entry, critical, Stores
<1>5. ICritical'
  <2>1. UNCHANGED <<pc, sp, depth, uxCriticalNesting, irq_mask>>
    BY <1>0 DEF CreateTask, Instr, critical
  <2> QED
    BY <2>1 DEF IInv, ICritical
<1>6. IContext'
  <2>1. /\ frame' = [frame EXCEPT ![t] = [pc |-> "run", regs |-> t]]
        /\ pxTopOfStack' = [pxTopOfStack EXCEPT ![t] = [stack |-> t, depth |-> 1]]
        /\ pxCurrentTCB' = t \/ (pxCurrentTCB' = pxCurrentTCB /\ pxCurrentTCB # NoTask)
        /\ UNCHANGED <<sp, regs, x3, stoppedAt>>
    BY <1>0 DEF CreateTask, Instr, entry
  <2>2. stoppedAt[t] = "run" /\ t # NoTask
    BY <1>0 DEF IInv, IContext
  <2>3. \A u \in Tasks : frame'[u] = IF u = t THEN [pc |-> "run", regs |-> t] ELSE frame[u]
    BY <2>1 DEF IInv, IType
  <2>4. \A u \in Tasks : frame[u].pc # "none" => OnStack(u)
    BY <1>0 DEF IInv, IContext
  <2>5. \A u \in Tasks : frame'[u].pc # "none" => pxCurrentTCB' # NoTask /\ OnStack(u)'
    BY <2>1, <2>2, <2>3, <2>4 DEF IInv, IType, OnStack
  <2>6. pxCurrentTCB' \in Tasks /\ frame'[pxCurrentTCB'].pc # "none"
    BY <2>1, <2>2, <2>3 DEF IInv, IType, IContext
  <2> QED
    BY <1>0, <2>1, <2>5, <2>6 DEF IInv, IContext
<1>7. ITick'
  BY <1>0, QuietClock DEF IInv, IType, IBoot, ITick, CreateTask, Instr, entry, Clock, Fires, Stores
<1>8. IYield'
  BY <1>0, QuietClock DEF IInv, IBoot, IYield, CreateTask, Instr, entry, critical, Stores
<1> QED
  BY <1>1, <1>2, <1>3, <1>4, <1>5, <1>6, <1>7, <1>8 DEF IInv

-----------------------------------------------------------------------------
(***************************************************************************)
(* The invariant of the specification, and the properties it implies.      *)
(***************************************************************************)
\* The invariant holds at power-up.
LEMMA InitInv == Init => IInv
<1> SUFFICES ASSUME Init PROVE IInv
  OBVIOUS
<1>1. IClock /\ IType /\ IEntry /\ IBoot
  BY DEF Init, IClock, IType, IEntry, IBoot
<1>2. ICritical /\ ITick /\ IYield
  BY DEF Init, ICritical, ITick, IYield
<1>3. IContext
  BY DEF Init, IContext, OnStack
<1> QED
  BY <1>1, <1>2, <1>3 DEF IInv

\* Every step preserves the invariant.
LEMMA NextInv == IInv /\ [Next]_vars => IInv'
<1> SUFFICES ASSUME IInv, [Next]_vars PROVE IInv'
  OBVIOUS
<1>1. CASE Entry
  BY <1>1, IrqRequestStep, IrqVectorStep, IrqBitmapStep DEF Entry
<1>2. CASE Stall
  BY <1>2, StallStep
<1>3. CASE BootStep
  BY <1>3, CreateTaskStep, StartSchedulerStep, SetPeriodStep, ClearPendingStep,
     ResetPortStep, UnmaskStep, EnableTickStep, LaunchSpStep, LaunchRegsStep,
     LaunchJumpStep DEF BootStep
<1>4. CASE TaskStep
  BY <1>4, WorkStep, EnterCriticalStep, EnterCriticalIncStep, ExitCriticalStep,
     ExitCriticalUnmaskStep, YieldStoreStep, YieldBusStep, YieldNopsStep,
     YieldReturnStep DEF TaskStep
<1>5. CASE HandlerStep
  BY <1>5, IrqSaveStep, IrqSaveSpStep, HandleTimerStep, HandleTickStep,
     HandleYieldStep, HandleSwitchStep, IrqRestoreStep, IrqRetStep DEF HandlerStep
<1>6. CASE UNCHANGED vars
  <2>1. UNCHANGED <<irq_pending, irq_mask, irq_active, irq_delay, irq_state, pc,
                    x3, x4, sp, regs, uxCriticalNesting, pxCurrentTCB,
                    pxTopOfStack, frame, launch, uncounted, yieldWanted, depth,
                    stoppedAt>>
    BY <1>6 DEF vars, entry, stacks, critical, kept
  <2>2. UNCHANGED <<timer_irq_enable, timer_irq_pending, timer_irq_period,
                    timer_irq_countdown, soft_irq>>
    BY <1>6 DEF vars, timer
  <2>3. IClock' /\ IType' /\ IEntry' /\ IBoot'
    BY <2>1, <2>2 DEF IInv, IClock, IType, IEntry, IBoot
  <2>4. ICritical' /\ IContext' /\ ITick' /\ IYield'
    BY <2>1, <2>2 DEF IInv, ICritical, IContext, OnStack, ITick, IYield
  <2> QED
    BY <2>3, <2>4 DEF IInv
<1> QED
  BY <1>1, <1>2, <1>3, <1>4, <1>5, <1>6 DEF Next, Program

\* The inductive invariant holds throughout every behaviour.
THEOREM PortInvariant == Spec => []IInv
  BY InitInv, NextInv, PTL DEF Spec

\* Every variable keeps its type; interrupt frames never nest.
THEOREM PortTypeOK == Spec => []TypeOK
<1>1. IInv => TypeOK
  BY DEF IInv, IClock, IType, TypeOK
<1> QED
  BY <1>1, PortInvariant, PTL

\* Every timer event reaches xTaskIncrementTick exactly once (level-triggered
\* irq_5, acknowledged by vPortHandleInterrupt before it counts).
THEOREM PortOneTickPerEvent == Spec => []OneTickPerEvent
<1>1. IInv => OneTickPerEvent
  BY DEF IInv, ITick, OneTickPerEvent
<1> QED
  BY <1>1, PortInvariant, PTL

\* The single global uxCriticalNesting is enough: no interrupt and no switch
\* happens inside a critical section (vPortEnterCritical, vPortExitCritical).
THEOREM PortCriticalExclusion == Spec => []CriticalExclusion
<1>1. ASSUME IInv PROVE CriticalExclusion
  <2>1. irq_state # 0 \/ InHandler => uxCriticalNesting = 0
    BY <1>1 DEF IInv, IEntry, InHandler
  <2>2. ASSUME NEW t \in Tasks, depth[t] > 0
        PROVE  t = sp.stack /\ t = pxCurrentTCB /\ depth[t] = uxCriticalNesting
    <3>1. t = sp.stack /\ depth[t] = uxCriticalNesting
      BY <1>1, <2>2 DEF IInv, ICritical
    <3>2. irq_mask = IRQs /\ uxCriticalNesting > 0
      BY <1>1, <2>2, <3>1 DEF IInv, ICritical
    <3>3. pc \notin HandlerPcs /\ pc \notin StartPcs \cup LaunchPcs
      BY <1>1, <3>2 DEF IInv, IType, IEntry, ICritical
    <3>4. pc \in TaskPcs
      BY <1>1, <3>1, <3>3 DEF IInv, IType, IBoot
    <3> QED
      BY <1>1, <3>1, <3>4 DEF IInv, IContext
  <2>3. NoIrqBeforeFirstTask
    BY <1>1 DEF IInv, IEntry, IBoot, InHandler, NoIrqBeforeFirstTask
  <2> QED
    BY <2>1, <2>2, <2>3 DEF CriticalExclusion
<1> QED
  BY <1>1, PortInvariant, PTL

\* A task always runs with its own stack and registers and resumes where it was
\* interrupted (freertos_irq_entry, portRESTORE_CONTEXT, vPortStartFirstTask).
THEOREM PortContextIntegrity == Spec => []ContextIntegrity
<1>1. ASSUME IInv PROVE ContextIntegrity
  <2>1. InTask => sp = [stack |-> pxCurrentTCB, depth |-> 0] /\ regs = pxCurrentTCB
    BY <1>1 DEF IInv, IContext, InTask
  <2>2. pc = "irqRet" => sp.stack # NoTask
    BY <1>1 DEF IInv, IBoot
  <2>3. pc = "irqRet" => /\ sp = [stack |-> pxCurrentTCB, depth |-> 0]
                         /\ regs = pxCurrentTCB
                         /\ x3 = stoppedAt[pxCurrentTCB]
    BY <1>1, <2>2 DEF IInv, IContext
  <2>4. \A t \in Tasks : frame[t].pc # "none" /\ t # sp.stack => OnStack(t)
    BY <1>1 DEF IInv, IContext
  <2> QED
    BY <2>1, <2>3, <2>4 DEF ContextIntegrity, OnStack
<1> QED
  BY <1>1, PortInvariant, PTL

\* A yield stays on the line, in the core's latch or in the handler's bitmap
\* until vTaskSwitchContext has run for it (vPortYield).
THEOREM PortYieldNotLost == Spec => []YieldNotLost
<1>1. IInv => YieldNotLost
  BY DEF IInv, IEntry, IYield, YieldNotLost, YieldServedOnReturn
<1> QED
  BY <1>1, PortInvariant, PTL

\* Outside a critical section vPortYield returns after the switch it asked for.
THEOREM PortYieldServedOnReturn == Spec => []YieldServedOnReturn
<1>1. IInv => YieldServedOnReturn
  BY DEF IInv, IYield, YieldServedOnReturn
<1> QED
  BY <1>1, PortInvariant, PTL

\* With a period no shorter than the launch, no interrupt is entered before the
\* first task runs on its own stack (xPortStartScheduler, vPortStartFirstTask).
THEOREM PortNoIrqBeforeFirstTask == Spec => []NoIrqBeforeFirstTask
<1>1. IInv => NoIrqBeforeFirstTask
  BY DEF IInv, IEntry, IBoot, InHandler, NoIrqBeforeFirstTask
<1> QED
  BY <1>1, PortInvariant, PTL
=============================================================================
