-------------------------------- MODULE Heap4 --------------------------------
(***************************************************************************)
(* heap_4.c: first fit over a list of the free blocks in the order of      *)
(* their addresses, with the neighbours of a freed block merged into it.   *)
(* A heap h holds the free list, the blocks in use, and the count of free  *)
(* bytes (its minimum and the numbers of calls only serve statistics).     *)
(* The allocated bit of a block is its membership in h.used; a pointer is  *)
(* the address of the block's header.  size_t counts modulo 2^SizeBits.    *)
(***************************************************************************)
EXTENDS Integers, Sequences, FiniteSets, SequencesExt

CONSTANTS
    TotalHeapSize,      \* from the first aligned address of ucHeap
    SizeBits,           \* the width of size_t
    portBYTE_ALIGNMENT,
    xHeapStructSize     \* sizeof(BlockLink_t), aligned

ASSUME HeapAssumption ==
    /\ {SizeBits, portBYTE_ALIGNMENT, xHeapStructSize} \subseteq Nat \ {0}
    /\ xHeapStructSize % portBYTE_ALIGNMENT = 0
    /\ TotalHeapSize \in (2 * xHeapStructSize)..(2 ^ (SizeBits - 1) - 1)

NULL == -1
heapSIZE_MAX == 2 ^ SizeBits - 1
heapMINIMUM_BLOCK_SIZE == 2 * xHeapStructSize
AlignDown(n) == n - (n % portBYTE_ALIGNMENT)
pxEnd == AlignDown(TotalHeapSize - xHeapStructSize)
BlockEnd(b) == b.at + b.size

\* one free block, up to the end marker
prvHeapInit == [free |-> <<[at |-> 0, size |-> pxEnd]>>, used |-> {},
                xFreeBytesRemaining |-> pxEnd]

\* into the list behind the blocks of lower addresses, merged with the block before it
\* and with the one behind
Adjacent(b, d) == BlockEnd(b) = d.at
Merged(b, d) == [at |-> b.at, size |-> b.size + d.size]
prvInsertBlockIntoFreeList(free, b) ==
    LET before == SelectSeq(free, LAMBDA d : d.at < b.at)
        behind == SelectSeq(free, LAMBDA d : d.at >= b.at)
        joinsBefore == before # <<>> /\ Adjacent(Last(before), b)
        front == IF joinsBefore THEN Front(before) ELSE before
        b1 == IF joinsBefore THEN Merged(Last(before), b) ELSE b
    IN  IF behind # <<>> /\ Adjacent(b1, Head(behind))
        THEN front \o <<Merged(b1, Head(behind))>> \o Tail(behind)
        ELSE front \o <<b1>> \o behind

heapADD_WILL_OVERFLOW(x, y) == x > heapSIZE_MAX - y
heapBLOCK_SIZE_IS_VALID(n) == n < 2 ^ (SizeBits - 1)
xAdditionalRequiredSize(n) ==
    xHeapStructSize + portBYTE_ALIGNMENT - (n % portBYTE_ALIGNMENT)
\* the block a request needs, 0 if there is none
WantedSize(n) ==
    LET more == xAdditionalRequiredSize(n)
        sum == (n + more) % (heapSIZE_MAX + 1)
    IN  IF n = 0 \/ heapADD_WILL_OVERFLOW(n, more) \/ ~heapBLOCK_SIZE_IS_VALID(sum)
        THEN 0 ELSE sum

FirstFit_only(free, wanted) ==      \* looks at the first block only
    IF free # <<>> /\ Head(free).size >= wanted THEN 1 ELSE 0
FirstFit(free, wanted) == SelectInSeq(free, LAMBDA b : b.size >= wanted)
Splits(b, wanted) == b.size - wanted > heapMINIMUM_BLOCK_SIZE

pvPortMalloc(h, n) ==               \* the new heap, and the block's address
    LET wanted == WantedSize(n)
        i == FirstFit(h.free, wanted)
        b == h.free[i]
        rest == RemoveAt(h.free, i)
        part == [at |-> b.at, size |-> wanted]
        tail == [at |-> b.at + wanted, size |-> b.size - wanted]
        taken == IF Splits(b, wanted) THEN part ELSE b
    IN  IF wanted = 0 \/ wanted > h.xFreeBytesRemaining \/ i = 0
        THEN [h |-> h, pv |-> NULL]
        ELSE [h |-> [free |-> IF Splits(b, wanted)
                              THEN prvInsertBlockIntoFreeList(rest, tail) ELSE rest,
                     used |-> h.used \cup {taken},
                     xFreeBytesRemaining |-> h.xFreeBytesRemaining - taken.size],
              pv |-> b.at]

\* a null pointer, or one to no block in use, changes nothing
vPortFree(h, pv) ==
    IF \A b \in h.used : b.at # pv THEN h
    ELSE LET b == CHOOSE d \in h.used : d.at = pv
         IN  [h EXCEPT !.used = @ \ {b},
                       !.xFreeBytesRemaining = @ + b.size,
                       !.free = prvInsertBlockIntoFreeList(@, b)]

heapMULTIPLY_WILL_OVERFLOW(x, y) == x > 0 /\ y > heapSIZE_MAX \div x
=============================================================================
