# Verification of the FreeRTOS port to PicoRV32 and the system around it

The repository compares bare-metal and FreeRTOS designs on a PicoRV32 soft core
(Tang Nano 9K) and in a QEMU simulator. Its own core logic is the FreeRTOS port
(`src/FreeRTOS-TetriSaraj/2.sw/port`), the timer and interrupt wiring it was
designed together with (`1.hw/src`), the game and the measuring programs that run
on it (`2.sw`), the demonstrations of the simulator (`src/Code/simulator`), and a
second SoC with a core and a serial port of its own (`src/hardware`). It ships the
kernel it builds (`2.sw/freertos`: tasks.c, list.c, queue.c, timers.c, event_groups.c,
heap_4.c), on which every promise of the applications rests.

This directory holds TLA+ models of that code, the TLC runs that check them on
small instances, and theorems that TLAPS proves for every value of the constants.
Paths below are relative to `src/FreeRTOS-TetriSaraj/` unless they start with `src/`.

## 1. The system

| Component | State it keeps | Operations | Interacts with |
|---|---|---|---|
| Hardware timer (`1.hw/src/top_uart_hello.v`; the game's top has the same) | counter, `timer_irq_enable/pending/period/countdown`, `soft_irq` | counts each clock, fires when the countdown is 0 and no event is pending; bus stores acknowledge, set the period, enable, pulse `irq_6` | raises `irq_5` (level) and `irq_6` (one-clock pulse) to the core |
| PicoRV32 interrupt logic (`1.hw/src/ip.cpu/picorv32.v`, `picosoc_noflash.v`) | `irq_pending`, `irq_mask`, `irq_active`, `irq_delay`, `irq_state`, q-registers as x3/x4 | latches lines (not `irq_5`), enters the handler at an instruction boundary, `maskirq`, `retirq` | the port's handler |
| Port (`2.sw/port/port.c`, `portASM.S`) | `uxCriticalNesting` (one global), stacks, `pxTopOfStack` | critical sections, yield, first task, context save and restore, tick and yield handling | timer registers; `xTaskIncrementTick`, `vTaskSwitchContext` |
| Scheduler (`2.sw/freertos/tasks.c`, `list.c`) | ready/delayed/overflow/suspended/pending-ready/termination lists, tick count, pended ticks, next unblock time, yield pending, suspension depth, TCBs | tick, switch, delay, suspend/resume, priority set, create/delete, event lists, suspend/resume of the scheduler | called by tasks, by queues, and from the handler |
| Queues, semaphores, mutexes (`queue.c`) | ring buffer, waiting lists, rx/tx locks, holder, recursive count | send, receive, peek, overwrite, give/take, from tasks and from interrupts | event lists of the scheduler, priority inheritance in tasks.c |
| heap_4 (`portable/MemMang/heap_4.c`) | free list of blocks, byte counters | `pvPortMalloc`, `pvPortCalloc`, `vPortFree` | create and delete |
| Software timers (`timers.c`; on in the simulator's configuration) | two lists of running timers, command queue, the daemon's locals | start, stop, change of period, delete, pended functions, reload mode; expiry and callbacks | queues, tick count, list switch at its overflow |
| Notifications (`tasks.c`) and event groups (`event_groups.c`) | notification state and value of each task; flags and the waiting list of each group | notify, take, wait; set, clear, wait for bits, rendezvous, delete | delayed lists and event lists of the scheduler |
| Calls that look at other tasks (`tasks.c`) | `ucDelayAborted` of each task | state of one task or of all, handle by name, abort of a delay, catch-up of ticks | all lists of the scheduler |
| Applications (`freertos_game.c`, `freertos_game_headless.c`, `freertos_demo.c`, `freertos_ctxbench.c`) | input queue (length 1), game mutex, print mutex, game record, dirty flag; semaphores and worker counters | input, game, render and debug tasks; workers; two tasks that hand a semaphore round | queues and delays |
| Game logic (`tetrisaraj_game.c`) | 40 x 30 field, piece, score, lives, speed, flags | `tetrisaraj_game_init`, `_step`, `_render` | the game and render tasks |
| Bare-metal programs (`start.s`, `event_alert_demo.c`, `workload_sweep_demo.c`, `irq_benchmark.c`, `poll_benchmark.c`; `hello.c`, `timer_hello.c`) | `irq_count`, `irq_event_timestamp`, statistics | interrupt handler; main loops that wait for the count or poll the timer; printing | the timer; the serial port (`simpleuart.v`); the coprocessors of `picorv32.v` |
| SoC (`src/hardware/src`) | program counter, registers, the pipeline's latches; receive and transmit registers and their handshakes | fetch and execute; byte in, byte out, read-to-clear | programs: `echo.c`, the shell `os.c`, the text adventure |
| Simulator demonstrations (`src/Code/simulator`) | queues, semaphores, counters | tasks and timer callbacks | an external kernel (submodule, absent) |

Section 6 lists what is not modelled; `PROJECT.json` gives the reason for each.

### What is hard here

* **Interrupts against everything.** The tick may come between any two
  instructions. The port relies on details of the core: which lines are latched,
  how many instructions after a store its interrupt is taken, that an instruction
  always runs between two interrupts, and that x3/x4 are overwritten on entry.
* **One global for a per-task quantity.** `uxCriticalNesting` is not part of a
  context; that is right only because a critical section is never switched out of.
* **Deferred work.** Yields in critical sections, ticks and wake-ups while the
  scheduler is suspended, switches put off, TCBs freed later by the idle task.
* **Gaps between critical sections of one call**: a task that has suspended,
  deleted or delayed itself and has not yet yielded; a created task that runs
  before its creator reads its priority.
* **Wrap-around** of the tick count, and cached values (`xNextTaskUnblockTime`,
  `uxTopReadyPriority`, an event item's value) that can be stale.
* **Application level**: nested mutexes, a flag cleared before the work it
  announces, two related variables of a handler read one after the other, counters
  of a demonstration that the tick may split.
* **Failure half-way**: a creation that gets its stack and not its TCB, beside
  another caller of the allocator.
* **Late commands**: a timer command that reaches the daemon after its time has come,
  or after the tick count has wrapped; a notification between the two critical
  sections of a wait.
* **A pipeline**: an instruction that needs what the load before it has not written,
  a jump that must take back what is already fetched.

`PROJECT.json` lists every hazard with its line and the property that covers it.

## 2. The modules

| Module | What it is |
|---|---|
| `PicoPort` | The port composed with the timer and the core's interrupt logic, clock by clock |
| `PicoPort_proofs` | The inductive invariant `IInv` of `PicoPort` and the theorems |
| `Heap4` | heap_4.c as operators on a heap |
| `TaskMemory` | The callers of the heap: creation and deletion of tasks and queues, one step per call of the allocator |
| `Allocator` | What the callers of a heap may rely on; `TaskMemory` refines it |
| `MCBoards` | The two boards, each with one of its programs (`PicoPort` or `TaskMemory`; `Soc`, `PerformanceLab` or `Adventure`), and the instance |
| `Scheduler` | tasks.c and its lists: the scheduler, one action per critical section of a call |
| `Folding` | What a loop written as a fold does, step by step |
| `Scheduler_lemmas`, `Scheduler_proofs` | What each function of tasks.c does to the kernel's data; the inductive invariant of `Scheduler` and the theorems; what the calls of queue.c find in those functions |
| `MCScheduler` | Three tasks of two or three priorities, and the idle task |
| `Queue` | queue.c over `Scheduler`: the ring of items, blocking calls, locks, timeouts, priority inheritance |
| `BoundedBuffer` | What the callers of a queue may rely on; `Queue` refines it |
| `Queue_lemmas`, `Queue_proofs` | The ring holds a sequence, the invariant `QueueInv` and the kinds of steps, the counting of waiters; every action keeps `QueueInv` and refines `BoundedBuffer`; mutexes, timeouts and lost wake-ups |
| `MCQueue` | Three tasks above one another, one or two queues, semaphores or mutexes |
| `Timers`, `MCTimers` | timers.c: the daemon, its lists and its command queue; two timers, a tick count that overflows every four ticks |
| `TaskNotify` | Notifications and `xTaskDelayUntil` over `Scheduler` |
| `EventGroups` | event_groups.c over `Scheduler` |
| `EventFlags` | What the callers of an event group may rely on; `EventGroups` refines it |
| `TaskQueries` | The calls that look at other tasks or end their wait, over `TaskNotify` |
| `TaskEvents`, `MCTaskEvents` | The three side by side; their workloads |
| `TetriGame` | tetrisaraj_game.c as operators on a game |
| `GameTasks`, `MCGameTasks` | The four tasks of the two game programs over `TetriGame`; a field of 11 by 6, one piece |
| `GameTasks_proofs` | The invariant `GameInv` and the theorems |
| `IrqMonitor` | The bare-metal measuring programs with the handler of start.s and the timer |
| `IrqMonitor_proofs` | The inductive invariant of `IrqMonitor` and the theorems |
| `UartHello` | The two printing programs with the serial port of the PicoSoC |
| `PicoPcpi` | Multiplication and division: the core's coprocessor interface and the two coprocessors |
| `MCBareMetal` | A board with one of these programs, and the instance |
| `DemoKernel` | What the demonstrations need of a kernel: priorities, delays, queues, semaphores |
| `QueueDemos`, `SchedulerDemo`, `InterruptDemo`, `Benchmarks` | The demonstrations and tests over `DemoKernel` |
| `MCSimulatorDemos` | main.c, which starts one of them, and the instance |
| `Rv32Words`, `Rv32` | Words, and the instruction set as a machine that executes one instruction at a time |
| `SocIo`, `Soc` | The memory with the serial port; the core with both and a terminal; `Soc` refines `Rv32` |
| `PerformanceLab`, `Adventure` | The command shell and the text adventure |

`Scheduler` abstracts the port by what `PicoPort` shows of it (a critical section
is one step, a yield is served before the task goes on), and `Queue`, `TaskNotify`,
`TaskQueries` and `EventGroups` use the operators and the actions of `Scheduler` for the event lists, the
delays, the tick and the switch, so that one set of kernel data is shared as in the
code. `GameTasks` and `DemoKernel` take the kernel at the word these modules show it
keeps. A run of several components has one MC module, which composes them (a variable
says which one is looked at) and holds the instance.

### 2.1 PicoPort

One step is one clock of the single clock domain. `Clock` advances the timer
(`TimerClock`: the always block of the top module) and the pending latch
(`Sampled`: `next_irq_pending`), and one micro-step of the program happens with
it. `w` names the store the program makes to a timer register in that clock.
A value of `pc` is a short run of instructions between which nothing observable
happens; `Stall` lets any of them take more clocks, so no property depends on
instruction timing but two: the store of `vPortYield` is visible to the core two
instructions before the function returns (`YieldBus`, `YieldNops`), and the launch
(from the store that enables the tick to the jump into the first task) is bounded by
`LaunchCycles`, which is at most the tick period (`PeriodAssumption`; in the image
270000 clocks against some forty instructions).

* `IrqRequest`, `IrqVector`, `IrqBitmap` are the three clocks of an interrupt entry
  (`irq_state` 0, 1, 2): the return address in x3, `irq_active`, the bitmap in x4
  and the latch cleared of what is delivered.
* `EnterCritical ... ExitCriticalUnmask` are `vPortEnterCritical` and
  `vPortExitCritical`, split where the mask and the counter change.
* `IrqSave ... IrqRet` are `freertos_irq_entry`, `vPortHandleInterrupt` and
  `portRESTORE_CONTEXT`; `CreateTask`, `StartScheduler ... LaunchJump` the way from
  main() to the first task.
* The scheduler is abstract: `HandleTick` asks for a switch or not, `HandleSwitch`
  picks any task. The history variables `uncounted`, `yieldWanted`, `depth` and
  `stoppedAt` record what the properties compare; no guard but `ExitCritical`'s
  (a task leaves only what it entered) reads them.

### 2.2 Scheduler

`k` is a record of the globals of tasks.c and the TCB fields, under their names.
The functions of tasks.c are operators from `k` to `k`; the actions are the calls
of the running task (`pxCurrentTCB`) and the interrupts. A critical section is one
step, which is what `CriticalExclusion` of PicoPort allows. Where a call leaves a
critical section and goes on, `kpc` names the place, and `TickIsr`, `YieldIsr` and
`IsrSignal` may come in between. A task with a pending yield does not go on before
the interrupt (`At`), which is `YieldServedOnReturn` of PicoPort.

| Actions | Code |
|---|---|
| `vTaskDelay`, `AddToDelayedList`, `ResumeAndYield`, `portYIELD_WITHIN_API` | `vTaskDelay` |
| `Wait`, `PlaceOnEventList`, `prvUnlockQueue`, then as above | the blocking part of `xQueueReceive` |
| `Signal`, `IsrSignal` | a send, or a give from an interrupt, that finds a waiting task |
| `vTaskSuspendAll`, `ResumeAll` | the same, nested |
| `vTaskSuspend`, `SuspendReset`; `vTaskResume` | the two critical sections of `vTaskSuspend`; `vTaskResume` |
| `vTaskPrioritySet` | the same (no mutex held, so base and current priority agree) |
| `vTaskDelete`, `prvDeleteTCB`, `prvCheckTasksWaitingTermination`, `IdleYield` | deletion of oneself and others, the idle task |
| `xTaskCreate`, `CreatedYield` | `prvAddNewTaskToReadyList`, with the late read of the new priority |
| `TickIsr`, `YieldIsr`, `HandlerEnd` | `vPortHandleInterrupt` |

A list is a sequence with the position of `pxIndex` (0 for the end marker). A
deleted task's memory may be reused at once: the late read in `CreatedYield` returns
anything when the task's memory is free. No image of the repository gives
from an interrupt; `IsrSignal` models the kernel's interface for one that does.

### 2.3 Queue, BoundedBuffer

`q[x]` has the fields of `Queue_t` for each queue; `Buffers` are the queues with
items, the others are semaphores, and those in `Mutexes` have a holder. `call[t]`
holds the arguments and locals of the call task `t` is in, `held[t]` is its
`uxMutexesHeld`. The instance names the calls the tasks and the interrupts make
(`Requests`, `IsrRequests`).

| Actions | Code |
|---|---|
| `Start`, `Retry` with `xQueueGenericSend`, `xQueueReceive`, `xQueueSemaphoreTake`, `xQueuePeek`, `Refuse`, `GoToWait` | the critical section at the head of the for loop of each call |
| `SuspendAll`, `prvLockQueue`, `xTaskCheckForTimeOut`, `Recheck` | the way to the second look, each a critical section of its own |
| `Inherit`, `Place`, `UnlockTx`, `UnlockRx`, `ResumeCall`, `YieldCall` | the way into the event list, or back to the head of the loop |
| `Expired`, `DisinheritAfterTimeout`, `ReturnCall` | the end of a call that timed out; the return |
| `xQueueGenericSendFromISR`, `xQueueReceiveFromISR` | a use of the queue by an interrupt, at any of the places above |
| `Tick`, and in `Delaying` the actions of `Scheduler` | `xTaskIncrementTick` with the clock of the calls; delays, switches |

What is abstracted: `xNumOfOverflows` is kept for each call as the one bit
`overflowed`, which is all `xTaskCheckForTimeOut` asks of it; a call with
`portMAX_DELAY` keeps no entry time, which the code never reads; the history
variable `waited` counts the timer interrupts since the call began and stops at
`Wrap`. A task's base priority is `InitialPriority`, as no task of these instances
calls `vTaskPrioritySet`. Only the holder gives a mutex (the code asserts it) and
nobody takes a mutex it holds (`Permitted`); recursive mutexes are configured off.
The sender and the receiver of the code are one loop with different tests; the
model shares one action per step of it, selected by `op`.

`BoundedBuffer` knows sequences and answers, and nothing of tasks that wait. The
refinement maps a queue to `Contents`, the items from the read position on, and an
answer to what the call returns at the end of its critical section, so a receive
that is woken, finds the item gone and waits again is a stutter.

### 2.4 Heap4, TaskMemory, Allocator

A heap is the free list, the set of blocks in use and the count of free bytes;
`pvPortMalloc`, `vPortFree` and `prvInsertBlockIntoFreeList` are operators on it, with the
width of `size_t` (`SizeBits`) for the overflow checks. The scheduler is suspended in
the allocator, so a call is one step; `TaskMemory` has a step for each call that
`xTaskCreate`, `prvDeleteTCB`, `xQueueGenericCreate` and `vQueueDelete` make, with
those of another caller in between. `Allocator` knows which client owns
which block and nothing of the free list: it may answer NULL only when no gap between
the owned blocks is large enough.

### 2.5 Timers

Every step of the daemon between which a tick, an interrupt or another task
may come is an action; `d` holds its program counter and locals. `now` is
time that does not wrap; the code sees `TickCount(now)`. The tasks either preempt
the daemon or run only while it is blocked, by workload. A read-modify-write of
`ucStatus` is two steps, as it is outside any critical section. `due` is
history: when each timer should expire next. The queue of
commands keeps the order of sending; a command whose queue stays full is given up.
A timer whose deletion was asked for is not used again (`Deleting`), which the
documentation of the functions requires of their callers. A timer may be created in memory
of the caller's, which a deletion does not free; a function pended from a task or an
interrupt goes through the same queue of commands. The getters are operators, which the daemon
uses as well.

### 2.6 TaskNotify, TaskQueries, EventGroups, EventFlags

A wait for a notification is two critical sections with a switch between them, and
each is an action; `xTaskDelayUntil` suspends the scheduler, looks at the clock and goes on as
`vTaskDelay`. A call on an event group suspends the scheduler, does its work in one step and
resumes it. The value of a waiting task's event item is `itemValue`. `EventFlags` has flags
and clients that ask, wait and are answered; it answers in the step that sets the
flags all clients whose condition holds, and only then clears what they consume. The
`FromISR` forms of event_groups.c are functions pended to the timer daemon (`Timers`).
A group is deleted only while the tasks that wait for it wait for ever, as the
others would wake up into freed memory. event_groups.c is compiled into the simulator's
images (`src/Code/simulator/build/gcc/Makefile:57`) although no demonstration calls it.

`TaskQueries` has `eTaskGetState`, `vTaskGetInfo`, `uxTaskGetSystemState`, `xTaskGetHandle`,
`xTaskAbortDelay` and `xTaskCatchUpTicks`. The lists are read one after the other with
the scheduler suspended, and interrupts may move event items and notify between two of them.
`AnswersSound` says that the report names every task once and is right when it is complete.
What the source shows when read this closely is kept in the model:

* `uxTaskGetSystemState` and `xTaskGetHandle` walk the lists with `listGET_OWNER_OF_NEXT_ENTRY`
  and so move `pxIndex` of the ready lists, which decides whose turn is next (`WalkAll`).
* `vTaskGetInfo` reports a task that waits for a notification for ever as suspended, where
  `eTaskGetState` says blocked.
* `eTaskGetState` notes the state list in a critical section and reads the event item and the
  notification state after it.
* `xTaskAbortDelay` sets `ucDelayAborted` only of a task that waits for an event. Which calls
  block, and so clear it (`prvAddCurrentTaskToDelayedList`), is said once, of any step of the
  other modules (`ClearDelayAborted`).

### 2.7 TetriGame, GameTasks

`TetriGame` has the field as a function from cells to what they hold and the functions of
tetrisaraj_game.c as operators on the record `xGame`, at any size; the
glyphs, the score and its digits (which lie below the border, where no piece comes) are left
out. `GameTasks` has the four tasks of each program: a step for each call of the kernel
and for each part of the work between. The ready task of the highest priority runs, the
holder of a mutex at the priority of those that wait. The mailbox is a sequence of at most
one press. `drawn` is history: which parts of the screen show the game as it is. The debug
task of freertos_game.c only prints and ends at once here.

### 2.8 IrqMonitor, UartHello, PicoPcpi

One step of `IrqMonitor` is one clock of the timer together with one step of the handler or
of main(). `program` selects among the four programs, which share the handler, the timer and
most of their loop: `Wait ... print_event_line` are the loop of event_alert_demo.c and
workload_sweep_demo.c, `CollectSamples` that of irq_benchmark.c, `Poll ... PollUpdate`
that of poll_benchmark.c. Each store to a timer register is a step, in the order of the
source. An interrupt is entered within `MaxDelay` clocks of its event (`Main` may not
go on past that), and main() stands still until the handler returns. How long work and
printing take is any value of `Work` (`Spend`); run_level prints for `ReportClocks`, longer
than `MaxDelay`. The programs end within seconds of power-up, so the 32-bit counter,
counts and sums do not wrap and are plain numbers. `times` is history: when each event
since the timer was started fired.

`UartHello` has simpleuart.v bit by bit. The programs look at no status: a store to the
port waits on the bus while a byte is sent. The reader at the other end of the line is
external and takes each byte within `ReadClocks`.

`PicoPcpi` has the handshake of the core with its coprocessors, the carry-save multiplier
and the divider. The game's top sets `ENABLE_DIV` to 0 (`top_freertos_game.v:156`)
while the programs are compiled for rv32im (`2.sw/Makefile:42`): a division is an illegal
instruction there, and `ArithmeticExact` says that this is what happens.

### 2.9 The demonstrations

Each demonstration and test runs from its start, and a tick may come between any two of its
steps. A step is a call of the kernel or the access to a shared counter; a counter that
the code reads, changes and writes outside a critical section is read and written in two
steps. Of a measurement only what happened while it was taken is kept. `MeasurementsSound` says
what the stored figures are: the ticks from start to end of an execution (`ElapsedTimes`), both
ends of a message (`EndToEndComplete`), every iteration (`IterationsComplete`), and a round trip
that is over when its time is stored (`RoundTripsOver`), which with the two semaphores of
freertos_ctxbench.c holds both switches. It does not say that a report is right about them. The scheduler
demonstration's prints the ticks as the task's own (`ExecutionTimesOwn`), which finding 3 refutes,
and a round trip of test_context_switch.c may hold no switch (section 3). Their kernel is a submodule that is not in the repository, so `DemoKernel` is
external: what `Scheduler` and `Queue` show of the kernel of 2.sw.

### 2.10 Soc, Rv32 and the programs

`Soc` has the two stages of SoC.v, `SocIo` the byte lanes of RAMIO.v with receiver and
transmitter; both edges of a clock are actions, as the transmitter works on the falling
one. The first instruction executes twice after reset (SoC.v:236), so it must be one that may.
The refinement maps the pipeline to the machine of `Rv32`: the instruction that
executes is the next one, a bubble is a stutter, and a load that has not written its register
counts as having done so. Of the addresses near the top a byte read may be any
(`Volatile`). Not compared: misaligned accesses and `jalr` to an odd address, which the
hardware does not support, and in the passing run a load into register 0 (finding 2). The
shell and the adventure are as their C source has them, on whole words and characters.

## 3. Runs

| Run | Module, cfg | Instance | What it shows |
|---|---|---|---|
| `boards` | `MCBoards`, `Boards.cfg` | the port: 3 tasks, period 14, launch at most 12 clocks, nesting 2; a heap of 24 bytes of 2-byte alignment, `size_t` of 6 bits, two callers, requests that fit, fragment, exceed the heap or overflow. The SoC: bytes of 2 bits, 4 registers, 8 words, every sequence of 3 instructions of 18 kinds; the echo program; lists of 3 and 2 and a line of 3; counters of 20 bits | ticks counted once, critical sections exclusive, contexts intact, yields kept and served before return, no interrupt in the launch; every timer event is served. Every byte in exactly one block, nothing leaked by a creation that fails half-way; the callers see an allocator. The pipeline executes the instruction set; every byte typed comes back once and in order; a score depends on nothing run before; the adventure neither loses nor doubles a thing |
| `sched` | `MCScheduler`, `SchedulerSafety.cfg` | three workloads: delays, waits, nested scheduler locks and every priority change; suspension against waits, signals by tasks and interrupts, delays, yields; deletion and creation. Tick count modulo 3, 2 pended ticks | delays end exactly on time across the wrap; list membership; priority rule; memory freed only when unreferenced |
| `sched_waiters` | `MCScheduler`, `SchedulerWaiters.cfg` | priority changes of waiting tasks | **violation**: finding 1 |
| `queue_data` | `MCQueue`, `QueueData.cfg` | four workloads: a queue of two with a sender in front and one behind, two receivers, an interrupt that sends and receives; a mailbox (overwrites by a task and an interrupt, a timed send, a peek, a receive) beside a semaphore given by an interrupt and taken with a timeout; one mutex waited for with a timeout and for ever; two mutexes taken in either order, each wanted by one task above | a bounded buffer; nobody sleeps through a message or a free place; timeouts are exact; the holder has the priority of its waiters, and not longer than they wait; the highest ready task runs |
| `queue_mutex` | `MCQueue`, `QueueMutex.cfg` | three workloads: low and high share a mutex while mid computes or delays; low takes two mutexes in either order, each wanted by one task above it; two equals share a mutex and compute below a third | high gets the mutex; the count of held mutexes is right and the inheritance ends with the last of them; time slicing passes over nobody |
| `timers` | `MCTimers`, `Timers.cfg` | two timers, tick count modulo 4, time up to 9, 3 calls, a queue of 2 | expiries keep to their schedule, no callback is early, the daemon sleeps through nothing |
| `game` | `MCGameTasks`, `GameTasks.cfg` | both programs, a field of 11 by 6, one piece, one life, two sets of buttons | the field and the piece stay sound; no frame is torn or lost; the game is stepped for ever; held buttons take effect |
| `monitor` | `MCBareMetal`, `BareMetal.cfg` | four measuring programs, 3 samples, period 8, work of 1 or 18 clocks, interrupts up to 2 clocks late, 2 levels; two printing programs, a text of two bytes, 3 clocks to a bit; all operands of 3 bits | no event forgotten or counted twice; no latency of an older event; intervals longer than the period; what is printed arrives, a wait is not too short; products, quotients and remainders as RISC-V defines them |
| `demos` | `MCSimulatorDemos`, `SimulatorDemos.cfg` | each demonstration and test, a few messages or iterations each, time up to 10 ticks between ends | messages are taken in the order of their classes and counted; what is stored was measured (start to end, both ends, every iteration, whole round trips); the demonstration that ends itself does so and the lowest task gets its turn |
| `demos_times` | `MCSimulatorDemos`, `ExecutionTimes.cfg` | the same | **violation**: finding 3 |
| `events` | `MCTaskEvents`, `TaskEvents.cfg` | eight workloads: notifications counted, as values and as bits; periods; a group waited for, a rendezvous, a deletion; suspension of waiting tasks; reports, a search for a handle, aborted delays and ticks made up for. Tick count modulo 4, 3 flags, values of 2 bits | no notification is lost; delays, periods and priorities keep to the rules with them; reports agree with the lists, and an aborted task waits for nothing; an event group implements flags that are set and consumed in one step |
| `soc_zero` | `MCBoards`, `SocZero.cfg` | a load into register 0 | **violation**: finding 2 |

The bounds are where the cases are. Two tasks share a priority and one is above
them, so every comparison of priorities goes each way; the tick count wraps
within the longest delay, so that wake times fall on both sides of the wrap and on
it; two ticks can be pended, so a timeout can expire in the first or the last; one
event list with up to three waiters orders them in every way. A queue of two items
with three operations on either end passes through every position of the ring, full
and empty; a lock count of up to four (the number of tasks, its limit) is reached by
the interrupt between the lock and the unlock. The tick period of
14 clocks is longer than one interrupt service and shorter than
two, so that the next event fires while the handler of the last one still runs. The heap
holds at most four objects with gaps of every kind between them. The timers' time spans two
overflows of the tick count, with timers due in either list at each. The field leaves
room for the piece and one row to fill, so pieces land, clear a line, pile up
and end the game within few steps. Work of 18 clocks spans two periods, so events are
missed one and two at a time; work of 1 misses none. Three instructions are as many as the
pipeline holds with the one whose load is late. The terminal of the echo program owes at most two
bytes: a faster one would overrun the receive register, which holds one.

`Calls` selects the kernel calls of a workload, `Callers` the tasks that make those that
are not of a queue, `Requests` the calls of queues: everything at once
exceeds what TLC can enumerate, and each workload combines the calls that share data.
Only `timers` disables the deadlock check: its time stops at `MaxTime`.
In the others some task, the idle task or the timer always can go on, or the program
has ended (`Done`).

**Findings.**

1. `vTaskPrioritySet` on a task that waits for an event changes its
   event item's value but leaves it in place, so the list is no longer sorted
   and the comment in `xTaskRemoveFromEventList` ("the first in the list ... is
   known to be the highest priority") does not hold; `sched_waiters` shows the
   shortest such history. No image of the repository calls `vTaskPrioritySet`.
2. SoC.v:74-75 forwards the data of a load to the next instruction whenever the register
   numbers agree, and register 0 is a number like the others; `soc_zero` shows an
   instruction that reads the loaded byte from a register that Registers.v:23 says is
   hardwired to 0.
3. scheduler_validation_demo.c takes the ticks from the start of an execution to its end (:72, :141,
   :211), those of the tasks that preempt it included. Its monitor prints them as the task's
   average, minimum and maximum execution time ("WCET") and as its CPU utilization (:280-300), and
   adds the three up (:311-322), so that the time of a preempting task counts twice; :348-349
   announces "precise execution time measurements". `demos_times` shows MEDIUM preempted by HIGH and
   storing the ticks of both.

**Read in the code, without a run.** While modelling we met the following, which no
document of the repository contradicts or which lie outside the modelled part.

* queue.c:949 looks at what `xTaskPriorityDisinherit` returns only when nobody waits for the
  mutex, while tasks.c:4204-4211 says that a switch should occur whether a task waits or
  not. When the last mutex is given while a task below the holder waits for it, a ready task
  of higher priority waits for the next tick. `HolderInherits` therefore claims that the
  highest ready task runs only where waiters are above the holder (`WaitersAbove`).
* The daemon sets and clears the active bit of `ucStatus` outside any critical section
  (timers.c:559, 826, 838, 855, 860); `vTimerSetReloadMode` changes another bit of the same byte, so a
  task above the daemon can lose its change.
* workload_sweep_demo.c:73 divides by `BENCHMARK_SAMPLES` though missed events take none of
  the latencies, so the printed average can lie below the printed minimum (:91).
* test_context_switch.c: its two tasks share a priority and one semaphore. The give (:46) does not
  switch to a task of equal priority, and the take (:49) may take back the token just given, so a
  "round trip" may hold no switch although the comment at :109 counts two and the code divides by
  two. The mutant `ctxbench_main_asSimulated` gives freertos_ctxbench.c just this set-up, and TLC finds
  such a round trip. For this program `RoundTripsOver` claims only that the trip is over.
* test_memory_allocation.c: 200 blocks of 528 bytes exceed the heap of 79 824; the hook of
  a failed allocation stops the simulator before lines 67-71 are reached.
* interrupt_io_demo.c:516 counts one cycle more than `MAX_CYCLES`.
* os.c:77-78 says "every 5000 iterations", but the mask 0x1387 lets through 191 of
  them, and the score differs accordingly.
* tetrisaraj_game.c shifts the rows above a cleared line towards the centre column by
  column, and the outermost column keeps its blocks as well as passing them on.
* `xTaskResumeFromISR` of a task that only waits for a notification, with the scheduler
  suspended, followed by a notification from an interrupt, fails the assertion at tasks.c:5067.
* `xQueueGenericReset` wakes only one of several waiting senders (queue.c:318-329).

`InversionBounded` is claimed for one mutex only: a holder whose priority is still
raised by another mutex may take the first again before the woken waiter, of
equal priority, runs.

## 4. Fairness

* `MCBoards!BoardsSpec`: on the PicoRV32, weak fairness of an interrupt entry or a program step (no
  instruction takes for ever; the core always goes on), and strong fairness of
  leaving a critical section at each depth: the code between is finite, and a task
  in one cannot be switched out. Nothing is assumed of the timer, which
  advances with every clock, nor of the callers of the heap. The clock of the SoC does not
  stop; its terminal may stay silent, and `EchoComesBack` speaks of the bytes it has sent.
* `Scheduler!FairSpec`: the timer keeps firing, a pending yield interrupt is
  taken (PicoPort's `YieldServedOnReturn`), and a task inside a kernel call that has the
  processor goes on. Nothing is assumed of the tasks' own code: a task may compute
  for ever and never call the kernel. The formulas are weak fairness with ENABLED
  written out, which TLC evaluates much faster.
* `Queue!QueueFairSpec`: the same with the calls of queue.c, and strong fairness of
  giving back each mutex when its holder runs its own code: a task may delay while it
  holds one, and every take of the applications has its give a few statements
  later. Tasks between holder and waiter may still compute for ever.
* `GameTasks!FairSpec`: time goes on; the input task and the game task, of the higher
  priorities, get their work done and sleep (an assumption on the speed of the
  processor, without which nothing of lower priority would run); the render and
  the debug task, of equal priority, take turns in what is left, which is `RoundRobin`.
* `MCSimulatorDemos!Spec`: something goes on as long as something can.

## 5. Proofs

| Module | Theorem | Property it states |
|---|---|---|
| `PicoPort_proofs` | `PortTypeOK`, `PortOneTickPerEvent`, `PortCriticalExclusion`, `PortContextIntegrity`, `PortYieldNotLost`, `PortYieldServedOnReturn`, `PortNoIrqBeforeFirstTask` | the safety invariants of the port in `boards` (`YieldServedOnReturn` is a part of `YieldNotLost` there, `NoIrqBeforeFirstTask` of `CriticalExclusion`) |
| `Scheduler_proofs` | `SchedulerInvariant`, `SchedulerTypeOK`, `TasksInOneList`, `HighestReadyRuns`, `DelaysAreExact`, `FreedAreUnreferenced` | `IInv`, `TypeOK`, and the four of `sched` |
| `Queue_proofs` | `QueueInvariant`, `QueuesAreBuffers` | `QueueInv`; the refinement `IsBoundedBuffer` of `queue_data` |
| `Queue_proofs` | `WatchedInvariant`, `NoWakeupLost` | `Watched`; `NoLostWakeup` of `queue_data` |
| `Queue_proofs` | `TimeoutsExact` | `TimeoutExact` of `queue_data` |
| `Queue_proofs` | `DebtsInvariant`, `PrioritiesRestored` | `Debts`; `PriorityRestored` of `queue_mutex` |
| `Queue_lemmas` | `CopyToBackAppends`, `CopyToFrontPrepends`, `CopyFromTakesFirst`, `OverwriteReplaces`, `EmptyIsEmpty` | what the copies of queue.c do to the ring, at every length |
| `GameTasks_proofs` | `GameInvariant`, `GameIsSound`, `FrameIsShown` | `GameInv`; `GameSound` and `FrameShown` of `game` |
| `IrqMonitor_proofs` | `MonitorInvariant`, `MonitorEventsAccounted`, `MonitorStampNotOlder`, `MonitorIntervalsSpanPeriod`, `MonitorTimesSound` | `IInv`; the invariants of the measuring programs in `monitor` (`TimesSound` joins the two before) |

Each is a theorem of the specification for every value of the constants that the ASSUMEs
of its module allow, which TLC evaluates on the instances: the tick period is not
shorter than the launch, the idle task is none of the others, a queue has a place, a
request names a task and a queue of its kind, there are finitely many tasks
(`TasksAssumption`; the kernel counts them), no item is the answer of a failed call
(`ItemsAssumption`), and the like. None of the properties is
inductive by itself; TLC has checked each inductive invariant on the instance of its run before
it was proved.

### 5.1 The port

`IInv` of `PicoPort_proofs` has a part for each reason why the properties hold:

* `IClock`, `IType`: types; only interruptible points are ever saved in a frame.
* `IEntry`: `irq_active` is set exactly in the handler, and an entry in progress
  means interrupts unmasked, nesting 0, a task's stack.
* `IBoot`: until the tick is enabled nothing is pending, and in the launch the timer's
  countdown is `Period - launch`, so it cannot reach 0 before the launch ends.
  This is where `PeriodAssumption` is used.
* `ICritical`: the depth of every task but the running one is 0, and a positive
  nesting means everything is masked.
* `IContext`: where the live context and every saved one is, at each point of the
  handler.
* `ITick`: a timer line seen by the core is a pending event or the one just
  acknowledged, so the handler never acknowledges an event it will not count.
* `IYield`: where a requested yield is, at each point, and that the two instructions
  after the store end with the request taken.

There is one lemma per action (`...Step`), under it one step per part of `IInv`
the action can disturb; `ClockType`, `QuietClock` and `LaunchClock` say once what a clock
does to the timer and the latch. The theorems follow by PTL.

### 5.2 The scheduler

`Scheduler_lemmas` is about the functions of tasks.c as operators on the kernel's data:
what insertion, removal and the choice of the next task do to a list with `pxIndex`, that
each function leaves the lists consistent (`ListsOK`: every item in one list, delayed lists
sorted) and the wake times right (`TimesOK`, `LeftOK`: the wake time of a delayed task and the tick
count differ by the ticks left, in the list of its side of the wrap). `TickFacts` and `ResumeLast`
say which tasks `xTaskIncrementTick` and the outermost `xTaskResumeAll` wake. Their loops
are folds, and `Folding` proves once that a fold is the last of the states its operator goes
through (`FoldSteps`), so that a loop invariant is a plain lemma about one pass. It is instantiated
once per loop. To keep the instances small it extends no library of theorems: induction over the
natural numbers is a hypothesis of `FoldSteps`, which `Scheduler_lemmas` proves once (`Induct`) and
cites at each use.

`IInv`, which `Scheduler_lemmas` defines and every step of `Scheduler_proofs` keeps, is `Good` of the
variables and a workload:

* `Typed`; `Placed`: the live tasks are in the lists and no others.
* `Timed`: wake times against the delays that remain (`left`), pended ticks included; no tick and no
  task is held back unless the scheduler is suspended. `DelaysAreExact` needs it, since a wake time
  alone does not say on which side of the wrap it lies.
* `Called`: where the tasks are inside their calls; only the running task is where the
  scheduler must be suspended.
* `Running`: the running task is ready and the highest, or a switch is asked for, or it is on its
  way to one. `HighestReadyRuns` is the case in which none of the excuses holds.
* `Owned`: the memory of a deleted task is about to be freed by one task at most, in
  one place, which is what keeps the idle task from freeing it twice.

### 5.3 Queues

`Queue_lemmas` begins with the ring. `WellFormed` is its invariant: the write position is
where the read position and the count say. The arithmetic is in `ModSmall` and `Places`
(a position wraps at most once) and one lemma on positions per operation; the
four copies are then operations on the sequence `Contents`.

`QueueInv` is the invariant of queues in use:

* `KernelOK`: the lists and wake times of the kernel, as in 5.2. The two models share the operators of
  tasks.c, so the lemmas carry over; what a call of queue.c finds in each of them is at the end of
  `Scheduler_lemmas`.
* `InCalls`: a task inside queue.c is at a line of a call its workload makes, has time left wherever
  it is about to wait, and has no answer yet.
* `Suspension`: the scheduler is suspended exactly where the running task has done so in its call, once.
  Without it a task could find a queue locked by another.
* `Processor`: the running task is ready until it has blocked.
* `Stores`: every ring is well formed and within its length, and a mutex has a holder exactly when
  it cannot be taken.

Every action has a lemma that it keeps `QueueInv` and is, through the mapping to `Contents` and
answers, a step of `BoundedBuffer` or a stutter (`Kept`); `Silent`, `Ending` and
`Interrupt` say this once for the three kinds of steps (on the way, at the end of a call, in an interrupt).
`QueuesAreBuffers` follows: it is the whole safety of the data path, with second looks, locks, retries,
timeouts and interrupts in between, for any queues, tasks, priorities and requests.

Three more properties rest on `QueueInv`, each with an invariant of its own.

*Mutexes* (`PriorityRestored`). `Debts` says of each task that its count is the number of queues
that name it their holder, and that without one its priority is its own. Only three
functions change a priority, each of a holder or of a task that has just given its last mutex
back; the disinheritance after a timeout keeps the holder's debt because it stays the
holder. A count that missed a holder, or a holder raised after its last give, would leave a task
at a priority for ever.

*Timeouts* (`TimeoutExact`). `Ageing` relates, for every task in a call, what it asked for,
what remains (`Timely`: entry time, the clock and the bit `overflowed` give back the timer
interrupts that have passed, modulo the tick count, until a whole wrap has), and what has
passed (`waited`). `Dues` adds the delayed lists: the ticks left to a task that is blocked are those its
call still has. Both are needed, since a call that retries computes its new wait from the clock
while the old one ended in the lists. `Aged` and `Continued` carry this through the tick and
through `xTaskResumeAll`, which may count many ticks in one step.

*Wake-ups* (`NoLostWakeup`). The property is about unlocked queues and waiting tasks only, and it
breaks for reasons that lie earlier: a task has found the queue empty and is about to wait, or
an interrupt has only counted. `Watched` therefore speaks of both sides of a queue, receivers for messages
and senders for places, which are alike (`Sides`), and says of each

* it is locked exactly while a task is between `prvLockQueue` and `prvUnlockQueue` on it;
* whoever is in the event list has decided to wait and will look again (`Willing`);
* where somebody waits or is about to, what is there is no more than the tasks already roused, or, while
  it is locked, than those and the counted wake-ups together (`Enough`), unless the count has stopped at
  the number of tasks, which is enough for all that can wait.

`ShiftBalances` and `EnoughProvided` do the counting once: a step in which `g` tasks stop looking, `v`
leave the event list and the items grow by no more than they have to keeps `Enough`. Each action then only
says which of these it does. The unlock step is the one where the counts are made good
(`WakeForGentle`, by the loop of `prvUnlockQueue`). `NoLostWakeup` is `Enough` where the
lock is open.

The proof found a mistake in an earlier form of the model: the cases of
`prvCopyDataToQueue` overlapped for a send to a mutex, which no request makes but
nothing excluded; they are now disjoint and the requests are constrained by
`RequestAssumption`.

### 5.4 The game and the monitors

`GameInv` is `SoundGame`, `Typed`, `Exclusive` (a task between its take and its give holds the mutex),
`OfProgram` (each program draws at its own steps) and `Shown` (what is on the screen at each place of the
render task: the flag `dirty` is cleared before the drawing it announces). The proof does not look at
who runs, so it holds whatever the priorities are: a mixed frame would need two holders of the mutex, not
an unlucky schedule.

`SoundGame` is `FieldSound` made inductive: the borders and the wall in the middle stand exactly
where they were built, no column is full, and a piece that is in play *lies* in the field, each of its
cells free, between the borders and on the side of the wall where it entered. `xPieceFits` does not
look at cells outside the field, so "it fits" alone does not give this; the reasons are

* a move is one step and the wall is two columns thick, the borders as long as the field
  (`Shifted`);
* a rotation keeps a row and a column of the piece's box filled and leaves no row or column out between
  two filled ones (`PiecesConnected`, for the seven pieces and the four rotations), so a
  piece that ended beyond a wall would have a cell in it (`Turned`);
* a line that is full after a lock has a cell of the piece, so it is one of the four columns the code
  looks at and on the piece's side, and each shift moves columns of that side only
  (`LockedStands`, `MoveUpStands`). No column becomes full by a shift, since each
  takes over what another held.

The proof asked for a field of at least 10 columns: in a narrower one the box of a new piece at the edge
reaches the wall, and the first piece, which `tetrisaraj_game_init` does not test, could start in it. The
code has 40. `GameAssumption` says so now; it allowed 8 before.

`IInv` of `IrqMonitor_proofs` ties the place of the handler to the pending bit and the history of
events (`IHandler`, `ICount`, `IStamp`), that of main() to the counts it has read (`ISeen`), the countdown to
the interval measured last (`IInterval`), and says what is left over when a level ends (`ILate`).

### 5.5 Only model-checked

* Every liveness property (`TickServed`, `InversionBounded`, `RoundRobin`, `GameGoesOn`,
  `DemosProgress`, `EchoComesBack`): fairness and ENABLED are out of the prover's reach.
* Of the queues: `HolderInherits`, which depends on how a workload nests its mutexes, so that an
  invariant would have to speak of every order of takes, gives and timeouts that requests allow.
* `NothingLeaked` and `IsAllocator` of the heap: about sets of blocks, for which TLC's instance has
  every gap.
* The properties of `timers`, `events`, `demos` and of the SoC in `boards`, and `PrintedSound` and `ArithmeticExact`.
  `Rv32` and the products of `PicoPcpi` compute bit by bit, an induction over data that the
  installed provers cannot do.

## 6. Not modelled, and why

* In the port: `ulPortYieldPending` (no code of an image sets it) and
  `prvTaskExitError` (a task that returns stops in it with interrupts masked; no
  task of the repository returns). The start-up code before main().
* In tasks.c: run-time statistics and their printing, thread-local storage, trace.
* In queue.c: reset and deletion of a queue in use, peek from an interrupt,
  recursive mutexes and queue sets (both configured off), the registry. In heap_4.c:
  `vPortGetHeapStats`. In event_groups.c: the value `xEventGroupSetBits` returns, which may be
  stale by design.
* In the applications: the score and its digits; `irq_hello.c`, `test_suite.c`, `main_blinky.c` and
  `main_full.c`.
* In the hardware: decoding of bus addresses, the counter's readout, traps,
  interrupts of other lines (tied to 0 in the tops), the LED register, the video core.
* Components marked `not_modelled` in `PROJECT.json`, each with its reason.

## 7. Plan

1. Proofs about `TaskMemory` (`NothingLeaked`) and the timers (`OnSchedule`).
2. `HolderInherits` for tasks that take one mutex at a time.
3. `TaskStates`: an abstract scheduler (running, ready, blocked, suspended, deleted)
   that `Scheduler` refines.
4. `ListImpl`: the doubly linked lists of list.c, refining the sequences with
   `pxIndex` that `Scheduler` uses; proofs about insertion and removal.
