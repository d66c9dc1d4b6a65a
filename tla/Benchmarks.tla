----------------------------- MODULE Benchmarks ------------------------------
(***************************************************************************)
(* Programs that measure the kernel: test_context_switch.c ("switches") of *)
(* the simulator and freertos_ctxbench.c ("ctxbench") of 2.sw, which does  *)
(* the same with two semaphores; semaphore_mutex_test.c ("sync");          *)
(* test_interrupt_latency.c ("latency"); test_memory_allocation.c          *)
(* ("memory"); and freertos_demo.c of 2.sw ("workers"), which shows the    *)
(* scheduler at work.  A measurement is what the counter of cycles gives:  *)
(* here only what happened while it was taken is kept.                     *)
(***************************************************************************)
EXTENDS DemoKernel

CONSTANTS
    NUM_ROUND_TRIPS,            \* 1000 (CTXBENCH_ITERS: 500)
    NUM_SYNC_ITERATIONS,        \* 300
    NUM_INTERRUPT_ITERATIONS,   \* 50
    NUM_MEMORY_ITERATIONS,      \* 200
    BlockSize,                  \* of each size that is tried, the bytes heap_4 takes for it
    FreeHeap,                   \* xPortGetFreeHeapSize() when the task starts
    Settle, Pause,              \* the delays before a test and between two measurements
    WorkerDelay                 \* of the tasks of freertos_demo.c: 500, 750 and 1000 ms

-----------------------------------------------------------------------------
(* The round trip from A to B and back.  data.toB and data.toA are the semaphores it goes
   over; switched is a history variable: B has got the token since the measurement began. *)
AStarts == vTaskDelay("A", "start", Settle, "begin")
ABegins ==
    /\ Local("A", "begin", IF data.iteration < NUM_ROUND_TRIPS THEN "give" ELSE "report")
    /\ data' = [data EXCEPT !.switched = FALSE]
AGives == xQueueSend("A", "give", data.toB, Token, 0, "take", "take")
ATakes == xQueueReceive("A", "take", data.toA, Forever, "store", "take", data)
AStores ==
    /\ Local("A", "store", IF demo = "switches" THEN "pause" ELSE "begin")
    /\ data' = [data EXCEPT !.iteration = @ + 1]
APauses == vTaskDelay("A", "pause", Pause, "begin")
\* one deletes itself, the other delays by portMAX_DELAY for ever
AReports ==
    \/ demo = "switches" /\ Local("A", "report", "ended") /\ UNCHANGED data
    \/ demo = "ctxbench" /\ vTaskDelay("A", "report", Forever, "report")
TaskA == AStarts \/ ABegins \/ AGives \/ ATakes \/ AStores \/ APauses \/ AReports
TaskB ==
    \/ xQueueReceive("B", "take", data.toB, Forever, "give", "take",
           [data EXCEPT !.switched = TRUE])
    \/ xQueueSend("B", "give", data.toA, Token, 0, "take", "take")

RoundTrip(toB, toA) ==
    /\ pc = [A |-> "start", B |-> "take"]
    /\ data = [toB |-> toB, toA |-> toA, iteration |-> 0, switched |-> FALSE]
start_context_switch_test ==
    /\ demo = "switches"
    /\ Create([A |-> 1, B |-> 1], [one |-> 1], {})
    /\ RoundTrip("one", "one")
\* (altered: one priority and one semaphore, as in the simulator)
ctxbench_main_asSimulated ==
    /\ demo = "ctxbench"
    /\ Create([A |-> 2, B |-> 2], [one |-> 1], {})
    /\ RoundTrip("one", "one")
ctxbench_main ==
    /\ demo = "ctxbench"
    /\ Create([A |-> 2, B |-> 3], [a |-> 1, b |-> 1], {})
    /\ RoundTrip("a", "b")

-----------------------------------------------------------------------------
(* synchronization_test_task.  missed: the takes whose time is stored as 0 *)
NextIteration(t, from, n, again, over) ==
    /\ Local(t, from, IF data.i + 1 < n THEN again ELSE over)
    /\ data' = [data EXCEPT !.i = IF @ + 1 < n THEN @ + 1 ELSE 0]
test_binary_semaphore_performance ==
    \/ xQueueSend("sync", "semGive", "binary", Token, 0, "semTake", "semTake")
    \/ xQueueReceive("sync", "semTake", "binary", 0, "semNext", "semMissed", data)
    \/ Local("sync", "semMissed", "semNext") /\ data' = [data EXCEPT !.missed = @ + 1]
    \/ NextIteration("sync", "semNext", NUM_SYNC_ITERATIONS, "semGive", "settle")
test_mutex_performance ==
    \/ TakeMutex("sync", "mutexTake", "mutex", Forever, "mutexGive", "mutexTake")
    \/ GiveMutex("sync", "mutexGive", "mutex", "mutexNext")
    \/ NextIteration("sync", "mutexNext", NUM_SYNC_ITERATIONS, "mutexTake", "report")
\* its averages skip what is stored as 0 and divide by NUM_SYNC_ITERATIONS all the same
print_synchronization_statistics == Local("sync", "report", "ended") /\ UNCHANGED data
synchronization_test_task ==
    \/ vTaskDelay("sync", "start", Settle, "semGive") \/ test_binary_semaphore_performance
    \/ vTaskDelay("sync", "settle", Settle, "mutexTake") \/ test_mutex_performance
    \/ print_synchronization_statistics
start_synchronization_test ==
    /\ demo = "sync"
    /\ Create([sync |-> 1], [binary |-> 1, mutex |-> 1], {"mutex"})
    /\ pc = [sync |-> "start"] /\ data = [i |-> 0, missed |-> 0]

(* test_interrupt_latency.c *)
simple_interrupt_test_task ==
    \/ vTaskDelay("latency", "start", Settle, "send")
    \/ xQueueSend("latency", "send", "test", data.i, 0, "receive", "receive")
    \/ xQueueReceive("latency", "receive", "test", 0, "pause", "pause",
           [data EXCEPT !.test_data = Head(queue["test"])])
    \/ vTaskDelay("latency", "pause", Pause, "next")
    \/ NextIteration("latency", "next", NUM_INTERRUPT_ITERATIONS, "send", "ended")
start_interrupt_latency_test ==
    /\ demo = "latency"
    /\ Create([latency |-> 1], [test |-> 5], {})
    /\ pc = [latency |-> "start"] /\ data = [i |-> 0, test_data |-> 0]

(* test_memory_allocation.c.  A failed allocation calls vApplicationMallocFailedHook, which
   masks the interrupts and stays: the loop's own way out (lines 67 to 71) is not taken. *)
Allocate ==
    LET fits == BlockSize[data.size] <= data.free
    IN  /\ Local("memory", "malloc", IF ~fits THEN Halted
                                     ELSE IF data.i + 1 < NUM_MEMORY_ITERATIONS THEN "malloc"
                                     ELSE "release")
        /\ data' = IF fits THEN [data EXCEPT !.i = @ + 1, !.free = @ - BlockSize[data.size]]
                   ELSE data
Release ==
    /\ Local("memory", "release", IF data.i = 1 THEN "report" ELSE "release")
    /\ data' = [data EXCEPT !.i = @ - 1, !.free = @ + BlockSize[data.size]]
print_memory_statistics ==
    /\ Local("memory", "report", IF data.size < Len(BlockSize) THEN "settle" ELSE "ended")
    /\ UNCHANGED data
memory_performance_task ==
    \/ vTaskDelay("memory", "start", Settle, "malloc")
    \/ Allocate \/ Release \/ print_memory_statistics
    \/ /\ Goes("memory", "settle", "malloc")
       /\ delay' = [delay EXCEPT !["memory"] = Settle]
       /\ data' = [data EXCEPT !.size = @ + 1]
       /\ UNCHANGED <<waits, queue, holder>>
start_memory_allocation_test ==
    /\ demo = "memory"
    /\ Create([memory |-> 1], <<>>, {})
    /\ pc = [memory |-> "start"] /\ data = [size |-> 1, i |-> 0, free |-> FreeHeap]

-----------------------------------------------------------------------------
(* freertos_demo.c: A and B at one priority and a heartbeat below print lines under a mutex *)
prvLock(t) == TakeMutex(t, "lock", "print", Forever, "print", "lock")
prvUnlock(t) == GiveMutex(t, "printed", "print", "delay")
PrintLine(t) == Local(t, "print", "printed") /\ UNCHANGED data
Worker(t) ==
    \/ prvLock(t) \/ PrintLine(t) \/ prvUnlock(t)
    \/ vTaskDelay(t, "delay", WorkerDelay[t], "lock")
demo_main ==
    /\ demo = "workers"
    /\ Create([A |-> 2, B |-> 2, hb |-> 1], [print |-> 1], {"print"})
    /\ pc = [t \in {"A", "B", "hb"} |-> "lock"] /\ data = <<>>

-----------------------------------------------------------------------------
(* test_manager.c: run_selected_test *)
run_selected_test ==
    \/ start_context_switch_test \/ start_synchronization_test \/ start_interrupt_latency_test
    \/ start_memory_allocation_test
BenchmarkNext ==
    \/ /\ demo \in {"switches", "ctxbench"}
       /\ \/ \E t \in Running : (t = "A" /\ TaskA) \/ (t = "B" /\ TaskB)
          \/ Tick({}, queue, data)
    \/ /\ demo = "sync"
       /\ \/ "sync" \in Running /\ synchronization_test_task
          \/ Tick({}, queue, data)
    \/ /\ demo = "latency"
       /\ \/ "latency" \in Running /\ simple_interrupt_test_task
          \/ Tick({}, queue, data)
    \/ /\ demo = "memory"
       /\ \/ "memory" \in Running /\ memory_performance_task
          \/ pc["memory"] # Halted /\ Tick({}, queue, data)
          \/ pc["memory"] = Halted /\ UNCHANGED vars
    \/ /\ demo = "workers"
       /\ \/ \E t \in Running : Worker(t)
          \/ Tick({}, queue, data)

-----------------------------------------------------------------------------
\* A stores the time of a round trip only when it is over: it has both tokens back, none is
\* left in a semaphore, and B waits for the next.  In freertos_ctxbench.c the trip went to B
\* and back.  In test_context_switch.c it need not: a give to a task of one's own priority
\* does not switch, and A may take its own token; its report says two switches all the same
\* (line 109).
RoundTripsOver ==
    demo \in {"switches", "ctxbench"} /\ pc["A"] = "store" =>
        /\ pc["B"] = "take" /\ \A q \in DOMAIN queue : queue[q] = <<>>
        /\ demo = "ctxbench" => data.switched

\* What is averaged was measured in every iteration: no take of the semaphore is missed, the
\* queue gives back what the iteration sent, and the heap is whole when a size is reported.
IterationsComplete ==
    /\ demo = "sync" => data.missed = 0
    /\ demo = "latency" /\ pc["latency"] = "pause" => data.test_data = data.i
    /\ demo = "memory" /\ pc["memory"] = "report" => data.free = FreeHeap

\* The driver of freertos_ctxbench.c comes to its report, and the heartbeat of
\* freertos_demo.c, the lowest of the tasks, prints again and again.
BenchmarksProgress ==
    /\ <>(demo = "ctxbench" => pc["A"] = "report")
    /\ []<>(demo = "workers" => pc["hb"] = "print")
=============================================================================
