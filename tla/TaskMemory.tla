----------------------------- MODULE TaskMemory ------------------------------
(***************************************************************************)
(* The callers of heap_4: tasks create and delete tasks (a stack and a TCB *)
(* each) and queues (one block).  A call of the allocator suspends the     *)
(* scheduler and is one step; between two of them another caller may run.  *)
(***************************************************************************)
EXTENDS Heap4

CONSTANTS
    Callers,        \* the tasks, the idle task among them
    StackDepths,    \* the stack sizes xTaskCreate is asked for
    SizeofTCB,
    QueueShapes,    \* length and item size of the queues, as pairs
    SizeofQueue,
    Callocs,        \* the element counts and sizes of pvPortCalloc, as pairs
    MaxObjects      \* bound: tasks, queues and buffers at a time

VARIABLES
    h,              \* the heap
    objects,        \* live tasks, <<stack, TCB>>, and queues, <<block>>
    mpc, ask,        \* of each caller: the step it is at, the size it asks for
    got,            \* the allocator's last answer to it
    stack,          \* the stack xTaskCreate has got, the one vTaskDelete frees
    other           \* the TCB that is to be freed after the stack

memoryVars == <<h, objects, mpc, ask, got, stack, other>>

Nothing == -2       \* no address, and not NULL

At(c, l) == mpc[c] = l
Goto(c, l) == mpc' = [mpc EXCEPT ![c] = l]
Room == Cardinality(objects)
        + Cardinality({c \in Callers : mpc[c] \notin {"run", "freeStack", "freeOther"}})
        < MaxObjects
Ask(c, n) == ask' = [ask EXCEPT ![c] = n] /\ got' = [got EXCEPT ![c] = Nothing]
Done(c) == Goto(c, "run") /\ Ask(c, 0)

Malloc(c, from, to) ==
    /\ At(c, from) /\ Goto(c, to)
    /\ LET r == pvPortMalloc(h, ask[c])
       IN  h' = r.h /\ got' = [got EXCEPT ![c] = r.pv]
    /\ UNCHANGED <<objects, ask, stack, other>>

xTaskCreate(c, depth) ==
    /\ At(c, "run") /\ Room
    /\ Ask(c, depth) /\ Goto(c, "stack")
    /\ UNCHANGED <<h, objects, stack, other>>
pvPortMallocStack(c) == Malloc(c, "stack", "gotStack")
StackReady(c) ==
    /\ At(c, "gotStack")
    /\ IF got[c] = NULL THEN Done(c) /\ UNCHANGED stack
       ELSE /\ stack' = [stack EXCEPT ![c] = got[c]]
            /\ Ask(c, SizeofTCB) /\ Goto(c, "tcb")
    /\ UNCHANGED <<h, objects, other>>
MallocTCB(c) == Malloc(c, "tcb", "gotTcb")

AfterTCB_keep(c) == "run"           \* the stack is not freed
AfterTCB(c) == IF got[c] = NULL THEN "undo" ELSE "run"
TCBReady(c) ==
    /\ At(c, "gotTcb") /\ Goto(c, AfterTCB(c))
    /\ objects' = IF got[c] = NULL THEN objects ELSE objects \cup {<<stack[c], got[c]>>}
    /\ stack' = IF AfterTCB(c) = "undo" THEN stack ELSE [stack EXCEPT ![c] = NULL]
    /\ Ask(c, 0)
    /\ UNCHANGED <<h, other>>
FreeUnusedStack(c) ==
    /\ At(c, "undo") /\ Goto(c, "run")
    /\ h' = vPortFree(h, stack[c])
    /\ stack' = [stack EXCEPT ![c] = NULL]
    /\ UNCHANGED <<objects, ask, got, other>>

\* whoever deletes another task, or the idle task for one that deleted itself
prvDeleteTCB(c, o) ==
    /\ At(c, "run") /\ Goto(c, "freeStack")
    /\ Len(o) = 2
    /\ stack' = [stack EXCEPT ![c] = o[1]]
    /\ other' = [other EXCEPT ![c] = o[2]]
    /\ objects' = objects \ {o}
    /\ UNCHANGED <<h, ask, got>>
FreeStack(c) ==
    /\ At(c, "freeStack") /\ Goto(c, "freeOther")
    /\ h' = vPortFree(h, stack[c])
    /\ stack' = [stack EXCEPT ![c] = NULL]
    /\ UNCHANGED <<objects, ask, got, other>>
FreeTCB(c) ==
    /\ At(c, "freeOther") /\ Goto(c, "run")
    /\ h' = vPortFree(h, other[c])
    /\ other' = [other EXCEPT ![c] = NULL]
    /\ UNCHANGED <<objects, ask, got, stack>>

\* a queue and its items are one block; sizes that overflow are refused first
QueueFits(shape) ==
    /\ shape[1] > 0 /\ heapSIZE_MAX \div shape[1] >= shape[2]
    /\ heapSIZE_MAX - SizeofQueue >= shape[1] * shape[2]
xQueueGenericCreate(c, shape) ==
    /\ At(c, "run") /\ Room /\ QueueFits(shape)
    /\ Ask(c, SizeofQueue + shape[1] * shape[2]) /\ Goto(c, "one")
    /\ UNCHANGED <<h, objects, stack, other>>
\* pvPortCalloc, which clears what it gets
Calloc(c, shape) ==
    /\ At(c, "run") /\ Room /\ ~heapMULTIPLY_WILL_OVERFLOW(shape[1], shape[2])
    /\ Ask(c, shape[1] * shape[2]) /\ Goto(c, "one")
    /\ UNCHANGED <<h, objects, stack, other>>
MallocOne(c) == Malloc(c, "one", "gotOne")
OneReady(c) ==
    /\ At(c, "gotOne") /\ Done(c)
    /\ objects' = IF got[c] = NULL THEN objects ELSE objects \cup {<<got[c]>>}
    /\ UNCHANGED <<h, stack, other>>
vQueueDelete(c, o) ==
    /\ At(c, "run") /\ Len(o) = 1
    /\ h' = vPortFree(h, o[1])
    /\ objects' = objects \ {o}
    /\ UNCHANGED <<mpc, ask, got, stack, other>>

MemoryInit ==
    /\ h = prvHeapInit
    /\ objects = {}
    /\ mpc = [c \in Callers |-> "run"]
    /\ ask = [c \in Callers |-> 0]
    /\ got = [c \in Callers |-> Nothing]
    /\ stack = [c \in Callers |-> NULL]
    /\ other = [c \in Callers |-> NULL]

Create(c) == \/ \E n \in StackDepths : xTaskCreate(c, n)
             \/ pvPortMallocStack(c) \/ StackReady(c) \/ MallocTCB(c) \/ TCBReady(c)
             \/ FreeUnusedStack(c)
             \/ \E s \in QueueShapes : xQueueGenericCreate(c, s)
             \/ \E s \in Callocs : Calloc(c, s)
             \/ MallocOne(c) \/ OneReady(c)
Delete(c) == \/ \E o \in objects : prvDeleteTCB(c, o) \/ vQueueDelete(c, o)
             \/ FreeStack(c) \/ FreeTCB(c)

MemoryNext == \E c \in Callers : Create(c) \/ Delete(c)

-----------------------------------------------------------------------------
(***************************************************************************)
(* Properties.                                                             *)
(***************************************************************************)
FreeBlocks == ToSet(h.free)
FreeBytes == FoldLeft(LAMBDA n, b : n + b.size, 0, h.free)

\* The free blocks and those in use cover the heap up to its end marker exactly
\* once, and the free list is sorted with no two neighbours in it.
BlocksPartitionHeap ==
    /\ \A a \in 0..(pxEnd - 1) :
          Cardinality({b \in FreeBlocks \cup h.used : b.at <= a /\ a < BlockEnd(b)}) = 1
    /\ \A b \in FreeBlocks \cup h.used : BlockEnd(b) <= pxEnd /\ b.size > 0
    /\ \A i \in 2..Len(h.free) : BlockEnd(h.free[i - 1]) < h.free[i].at
    /\ FreeBytes = h.xFreeBytesRemaining

\* No memory is lost: a split, a merge and a failed request leave every byte in one
\* block, the count of free bytes is right, and every block in use belongs to a live
\* task or queue, or to a caller that is about to use or free it (xTaskCreate gives
\* the stack back when there is no memory for the TCB, tasks.c:779, and deletion
\* frees both), however calls interleave.
InHand(c) == {stack[c], other[c]}
             \cup IF mpc[c] \in {"gotStack", "gotTcb", "gotOne"} THEN {got[c]} ELSE {}
NothingLeaked ==
    /\ BlocksPartitionHeap
    /\ {b.at : b \in h.used}
        = (UNION {ToSet(o) : o \in objects} \cup UNION {InHand(c) : c \in Callers}) \ {NULL}

\* The callers see an allocator: exclusive blocks, large enough for the request and
\* its header, and NULL only when no gap would hold it.
Plain(n) == n + xAdditionalRequiredSize(n)
A == INSTANCE Allocator WITH
        Clients <- Callers, Limit <- pxEnd, Sizes <- 1..pxEnd, Cost <- Plain,
        owned <- h.used, asked <- ask
IsAllocator == A!Spec
=============================================================================
