----------------------------- MODULE QueueDemos ------------------------------
(***************************************************************************)
(* queue_communication_demo.c ("queues"): a producer sends messages of     *)
(* four priorities through four queues, a consumer polls them; and         *)
(* queue_test.c ("ipc"): a sender and a receiver each keep the time of     *)
(* what they do.  The checksums are left out: a queue hands over what it   *)
(* was given (module Queue).                                               *)
(***************************************************************************)
EXTENDS DemoKernel, FiniteSets

CONSTANTS
    CriticalEvery, HighEvery, NormalEvery,      \* 50, 10 and 3 cycles of the producer
    MAX_QUEUE_CYCLES, ReportEvery,              \* 500 and 100 cycles of the consumer
    QueueLengths,                               \* of the four queues
    SendDelay, ProcessingTime,                  \* of each class, in ticks
    SendTimeout, PollTimeout,                   \* 10 and 5 ticks
    NUM_IPC_ITERATIONS, QUEUE_LENGTH, IpcDelay, IpcEndDelay

Classes == 0..3                         \* MSG_CRITICAL to MSG_LOW
Critical == 0
Low == 3
TotalOf(f) == f[0] + f[1] + f[2] + f[3]

-----------------------------------------------------------------------------
(* vSmartProducerTask *)
ClassOf(cycle) ==
    IF cycle % CriticalEvery = 0 THEN Critical
    ELSE IF cycle % HighEvery = 0 THEN 1
    ELSE IF cycle % NormalEvery = 0 THEN 2 ELSE Low

ProducerStarts == vTaskDelay("producer", "start", SendDelay[Critical], "check")
ProducerChecks ==
    /\ Local("producer", "check", IF data.complete THEN "ended" ELSE "send")
    /\ data' = IF data.complete THEN data
               ELSE [data EXCEPT !.cycle = (@ + 1) % (CriticalEvery * HighEvery * NormalEvery)]
ProducerSends ==
    LET c == ClassOf(data.cycle)
    IN  xQueueSend("producer", "send", c, c, SendTimeout, "count", "full")
ProducerCounts ==
    /\ Local("producer", "count", "print")
    /\ data' = [data EXCEPT !.messages_sent[ClassOf(data.cycle)] = @ + 1]
\* (altered: what found no room is counted as sent)
ProducerFull_counts ==
    /\ Local("producer", "full", "print")
    /\ data' = [data EXCEPT !.messages_sent[ClassOf(data.cycle)] = @ + 1]
ProducerFull ==
    /\ Local("producer", "full", "print")
    /\ data' = [data EXCEPT !.queue_full_events[ClassOf(data.cycle)] = @ + 1]
ProducerDelays == vTaskDelay("producer", "print", SendDelay[ClassOf(data.cycle)], "check")
vSmartProducerTask ==
    ProducerStarts \/ ProducerChecks \/ ProducerSends \/ ProducerCounts \/ ProducerFull
    \/ ProducerDelays

(* vPriorityConsumerTask *)
ConsumerChecks ==
    /\ Local("consumer", "check", IF data.complete THEN "ended" ELSE "poll")
    /\ data' = IF data.complete THEN data
               ELSE [data EXCEPT !.demo_run_cycles = @ + 1, !.class = Critical]
\* the queues are polled in the order of their priority
\* (altered: in the opposite order)
Polled_lowFirst == Low - data.class
Polled == data.class
ConsumerPolls ==
    \/ xQueueReceive("consumer", "poll", Polled, IF data.class = Low THEN PollTimeout ELSE 0,
            "count", IF data.class = Low THEN "reportDue" ELSE "next",
            [data EXCEPT !.class = Polled])
    \/ /\ Local("consumer", "next", "poll")
       /\ data' = [data EXCEPT !.class = @ + 1]
ConsumerCounts ==
    /\ Local("consumer", "count", "print")
    /\ data' = [data EXCEPT !.messages_received[data.class] = @ + 1]
ConsumerProcesses == vTaskDelay("consumer", "print", ProcessingTime[data.class], "completeDue")
ConsumerCompletes ==
    /\ Local("consumer", "completeDue",
             IF data.demo_run_cycles >= MAX_QUEUE_CYCLES THEN "report" ELSE "reportDue")
    /\ data' = [data EXCEPT !.complete = data.demo_run_cycles >= MAX_QUEUE_CYCLES]
ConsumerReports ==
    /\ Local("consumer", "reportDue",
             IF data.demo_run_cycles % ReportEvery = 0 THEN "report" ELSE "check")
    /\ UNCHANGED data
print_queue_performance_report ==
    /\ Local("consumer", "report", IF data.complete THEN "ended" ELSE "check")
    /\ UNCHANGED data
vPriorityConsumerTask ==
    ConsumerChecks \/ ConsumerPolls \/ ConsumerCounts \/ ConsumerProcesses
    \/ ConsumerCompletes \/ ConsumerReports \/ print_queue_performance_report

DemoPriorities == [producer |-> 3, consumer |-> 4]
start_queue_communication_demo ==
    /\ demo = "queues"
    /\ Create(DemoPriorities, [c \in Classes |-> QueueLengths[c + 1]], {})
    /\ pc = [producer |-> "start", consumer |-> "check"]
    /\ data = [cycle |-> 0, demo_run_cycles |-> 0, complete |-> FALSE, class |-> Critical,
               messages_sent |-> [c \in Classes |-> 0],
               queue_full_events |-> [c \in Classes |-> 0],
               messages_received |-> [c \in Classes |-> 0]]

-----------------------------------------------------------------------------
(* queue_test.c.  queue_send_cycles and queue_receive_cycles are kept as the
   iterations they have been measured for. *)
SenderStarts == vTaskDelay("sender", "start", IpcEndDelay, "send")
SenderSends ==
    /\ data.ipc_iteration < NUM_IPC_ITERATIONS
    /\ xQueueSend("sender", "send", "test", data.ipc_iteration, Forever, "measured", "send")
SenderMeasures ==
    /\ Local("sender", "measured", "pause")
    /\ data' = [data EXCEPT !.send_cycles = @ \cup {data.ipc_iteration}]
SenderPauses ==
    /\ pc["sender"] = "pause" /\ Goes("sender", "pause", "next")
    /\ delay' = [delay EXCEPT !["sender"] = IpcDelay]
    /\ UNCHANGED <<waits, queue, holder, data>>
SenderLoops ==
    /\ Local("sender", "next", IF data.ipc_iteration + 1 < NUM_IPC_ITERATIONS
                               THEN "send" ELSE "end")
    /\ data' = [data EXCEPT !.ipc_iteration = @ + 1]
SenderEnds == vTaskDelay("sender", "end", IpcEndDelay, "report")
print_ipc_statistics == Local("sender", "report", "ended") /\ UNCHANGED data
ipc_sender_task ==
    SenderStarts \/ SenderSends \/ SenderMeasures \/ SenderPauses \/ SenderLoops
    \/ SenderEnds \/ print_ipc_statistics

ReceiverReceives ==
    xQueueReceive("receiver", "receive", "test", Forever, "measured", "receive",
        [data EXCEPT !.received = Head(queue["test"])])
ReceiverMeasures ==
    /\ Local("receiver", "measured",
             IF data.receive_iteration + 1 >= NUM_IPC_ITERATIONS THEN "ended" ELSE "receive")
    /\ data' = [data EXCEPT !.receive_iteration = @ + 1]
ipc_receiver_task == ReceiverReceives \/ ReceiverMeasures

IpcPriorities == [sender |-> 2, receiver |-> 1]
start_ipc_test ==
    /\ demo = "ipc"
    /\ Create(IpcPriorities, [test |-> QUEUE_LENGTH], {})
    /\ pc = [sender |-> "start", receiver |-> "receive"]
    /\ data = [ipc_iteration |-> 0, receive_iteration |-> 0, received |-> 0, send_cycles |-> {}]

-----------------------------------------------------------------------------
QueueDemoNext ==
    /\ demo = "queues"
    /\ \/ \E t \in Running :
            \/ t = "producer" /\ vSmartProducerTask
            \/ t = "consumer" /\ vPriorityConsumerTask
       \/ Tick({}, queue, data)
IpcTestNext ==
    /\ demo = "ipc"
    /\ \/ \E t \in Running :
            \/ t = "sender" /\ ipc_sender_task
            \/ t = "receiver" /\ ipc_receiver_task
       \/ Tick({}, queue, data)

\* No message is received while one of a higher priority waits, whenever it was sent.
HighestClassFirst ==
    [][demo = "queues" =>
        \A c \in Classes : Len(queue'[c]) < Len(queue[c])
                              => \A d \in Classes : d < c => queue[d] = <<>>]_vars

\* Every message is counted once on each side, and when the loss rate is printed the
\* producer lags behind by one message at most.  Every message the producer made is one that
\* was sent or one that found its queue full, but for the one it is at.
MessagesCounted ==
    demo = "queues" =>
        LET uncounted(t, c, own) == IF pc[t] = "count" /\ own = c THEN 1 ELSE 0
            made(c) == Cardinality({n \in 1..data.cycle : ClassOf(n) = c})
            underWay(c) == pc["producer"] \in {"send", "count", "full"} /\ ClassOf(data.cycle) = c
        IN  \A c \in Classes :
              /\ data.messages_received[c] + uncounted("consumer", c, data.class) + Len(queue[c])
                   = data.messages_sent[c] + uncounted("producer", c, ClassOf(data.cycle))
              /\ data.messages_sent[c] + data.queue_full_events[c]
                   = made(c) - (IF underWay(c) THEN 1 ELSE 0)

\* The end-to-end time of a message is taken when both of its parts are known, in the
\* order of sending, and nothing is printed before the last one.
EndToEndComplete ==
    demo = "ipc" =>
        /\ pc["receiver"] = "measured" =>
              /\ data.received = data.receive_iteration
              /\ data.received \in data.send_cycles
        /\ pc["sender"] = "report" => data.receive_iteration = NUM_IPC_ITERATIONS
=============================================================================
