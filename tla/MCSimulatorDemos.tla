-------------------------- MODULE MCSimulatorDemos ---------------------------
(***************************************************************************)
(* main.c of the simulator: an image runs one of the demonstrations, or    *)
(* one of the tests of test_manager.c; and the two images of 2.sw that     *)
(* show and measure the kernel on the board.                               *)
(***************************************************************************)
EXTENDS QueueDemos, SchedulerDemo, InterruptDemo, Benchmarks, TLC

run_demo_applications ==
    \/ start_scheduler_validation_demo \/ start_queue_communication_demo
    \/ start_interrupt_driven_io_demo
    \/ start_ipc_test \/ run_selected_test
Next ==
    \/ SchedulerDemoNext \/ QueueDemoNext \/ InterruptDemoNext
    \/ IpcTestNext \/ BenchmarkNext
Spec == (run_demo_applications \/ ctxbench_main \/ demo_main) /\ [][Next]_vars /\ WF_vars(Next)

-----------------------------------------------------------------------------
\* What is stored was measured: the time from start to end of an execution (which the
\* report takes for the task's own, ExecutionTimesOwn), both ends of a message, every
\* iteration, and whole round trips.
MeasurementsSound ==
    ElapsedTimes /\ EndToEndComplete /\ IterationsComplete /\ RoundTripsOver

\* The interrupt demonstration ends, the round trips come to their report, and the lowest
\* task prints again and again.
DemosProgress == DemoEnds /\ BenchmarksProgress
-----------------------------------------------------------------------------
\* The instance.
MCLengths == <<1, 1, 1, 1>>
MCSendDelay == (0 :> 3 @@ 1 :> 2 @@ 2 :> 2 @@ 3 :> 1)
MCProcessingTime == (0 :> 1 @@ 1 :> 1 @@ 2 :> 1 @@ 3 :> 4)
MCLoad == [HIGH |-> {0, 1}, MEDIUM |-> {1, 2}, LOW |-> {2, 3}]
MCPeriodMs == [HIGH |-> 3, MEDIUM |-> 5, LOW |-> 7]
MCPeriod == [simulation |-> 4, periodic |-> 6, critical |-> 5, adaptive |-> 8]
MCBlockSize == <<48, 144, 528>>
MCWorkerDelay == [A |-> 2, B |-> 3, hb |-> 4]
MCMutexTimeout == [daemon |-> 2, monitor |-> 3]
=============================================================================
