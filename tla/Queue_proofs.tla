---------------------------- MODULE Queue_proofs -----------------------------
(***************************************************************************)
(* Proofs about the queues, semaphores and mutexes of queue.c (Queue).     *)
(*                                                                         *)
(* THEOREM QueueInvariant     : QueueSpec => []QueueInv                    *)
(* THEOREM QueuesAreBuffers   : QueueSpec => IsBoundedBuffer               *)
(* THEOREM DebtsInvariant     : QueueSpec => []Debts                       *)
(* THEOREM TimeoutsExact      : QueueSpec => []TimeoutExact                *)
(* THEOREM PrioritiesRestored : QueueSpec => []PriorityRestored            *)
(* THEOREM WatchedInvariant   : QueueSpec => []Watched                     *)
(* THEOREM NoWakeupLost       : QueueSpec => []NoLostWakeup                *)
(*                                                                         *)
(* Every action of Queue keeps QueueInv and is, through the mapping, a     *)
(* step of BoundedBuffer or a stutter (Kept). Each of the three properties *)
(* below has an invariant of its own beside QueueInv, and one lemma per    *)
(* action that keeps it.                                                   *)
(*                                                                         *)
(* Debts: the count of the mutexes a task holds is right, and who holds    *)
(* none has its own priority. It gives PriorityRestored.                   *)
(*                                                                         *)
(* Ageing and Dues: a call has waited for what is no longer left to it of  *)
(* the time it asked for, and no task stays blocked for longer than its    *)
(* call has left. They give TimeoutExact.                                  *)
(*                                                                         *)
(* Watched: while somebody waits on a side of a queue, or is about to,     *)
(* there is no more there for it than there are tasks that have been       *)
(* roused and will look, and wake-ups that the lock of the queue still     *)
(* holds back. It gives NoLostWakeup.                                      *)
(***************************************************************************)
EXTENDS Queue_lemmas

\* xQueueGenericSendFromISR and xQueueGiveFromISR.
LEMMA SendIsrKeeps ==
    ASSUME QueueInv, NEW r \in IsrRequests, xQueueGenericSendFromISR(r), UNCHANGED load
    PROVE  Kept
  <1>. DEFINE x == r.queue
              m == prvCopyDataToQueue(x, r)
              n == [m EXCEPT !.cTxLock = prvIncrementQueueLock(@)]
  <1>1. Legal(r) /\ x \in Queues /\ ToReceive(x) \in Events /\ Stores(q)
    BY IsrRequest, IsrFacts
  <1>2. /\ r.op \in Senders /\ ~ MustWait(r) /\ q' = [q EXCEPT ![x] = n]
        /\ WakeFromIsr(ToReceive(x), q[x].cTxLock) /\ UNCHANGED <<kpc, arg, call, load>>
    BY DEF xQueueGenericSendFromISR
  <1>3. StoreOK(x, m) /\ (x \in Buffers => Inserts(Held(x, m), Held(x, q[x]), uxLength[x]))
    BY <1>1, <1>2, CopyTo
  <1>. HIDE DEF m, x
  <1>4. StoreOK(x, n) /\ Held(x, n) = Held(x, m)
    <2>1. m.cRxLock \in Int /\ m.cTxLock \in Int
      BY <1>1, <1>3, LockTypes
    <2>2. PICK i \in Int : i = prvIncrementQueueLock(m.cTxLock)
      BY <2>1, LockCount
    <2>3. n = WithLocks(m, m.cRxLock, i)
      <3>1. n = [m EXCEPT !.cTxLock = i]
        BY <2>2
      <3>2. [m EXCEPT !.cTxLock = i] = [m EXCEPT !.cRxLock = m.cRxLock, !.cTxLock = i]
        BY <1>1, <1>3, LockTypes
      <3>. QED BY <3>1, <3>2 DEF WithLocks
    <2>. HIDE DEF n
    <2>. QED BY <1>1, <1>3, <2>1, <2>2, <2>3, LocksKeep
  <1>. HIDE DEF n
  <1>5. Became(q', q, x, n)
    BY <1>1, <1>2, <1>4, OneStore
  <1>6. /\ Stores(q') /\ x \in Buffers => Buf(q') = [Buf(q) EXCEPT ![x] = Held(x, n)]
        /\ x \notin Buffers => Buf(q') = Buf(q)
    BY <1>5 DEF Became
  <1>7. x \in Buffers => Puts(Buf(q'), Buf(q), x)
    BY <1>3, <1>4, <1>5 DEF Puts, Buf, Became
  <1>8. AfterIsr(k', k, yieldReq, yieldReq')
    BY <1>1, <1>2, WakeIsr
  <1>9. Stores(q')
    BY <1>5 DEF Became
  <1>. QED BY <1>2, <1>6, <1>7, <1>8, <1>9, IsrFacts, Interrupt

\* xQueueReceiveFromISR.
LEMMA ReceiveIsrKeeps ==
    ASSUME QueueInv, NEW r \in IsrRequests, xQueueReceiveFromISR(r), UNCHANGED load
    PROVE  Kept
  <1>. DEFINE x == r.queue
              m == CopyFrom(q[x], uxLength[x])
              n == [m EXCEPT !.cRxLock = prvIncrementQueueLock(@)]
  <1>1. Legal(r) /\ x \in Queues /\ ToSend(x) \in Events /\ Stores(q) /\ StoreOK(x, q[x])
    BY IsrRequest, IsrFacts DEF Stores
  <1>2. r.op = "receive" /\ ~ MustWait(r)
    BY DEF xQueueReceiveFromISR
  <1>3. x \in Buffers /\ q[x].uxMessagesWaiting # 0
    BY <1>1, <1>2 DEF Legal, MustWait, IsEmpty, Receivers, Ops
  <1>4. /\ q' = [q EXCEPT ![x] = n]
        /\ WakeFromIsr(ToSend(x), q[x].cRxLock) /\ UNCHANGED <<kpc, arg, call, load>>
    BY <1>3 DEF xQueueReceiveFromISR, prvCopyDataFromQueue
  <1>5. StoreOK(x, m) /\ Held(x, q[x]) # <<>> /\ Held(x, m) = Tail(Held(x, q[x]))
    BY <1>1, <1>3, ReceiveStore
  <1>. HIDE DEF m, x
  <1>6. StoreOK(x, n) /\ Held(x, n) = Held(x, m)
    <2>1. m.cRxLock \in Int /\ m.cTxLock \in Int
      BY <1>1, <1>5, LockTypes
    <2>2. PICK i \in Int : i = prvIncrementQueueLock(m.cRxLock)
      BY <2>1, LockCount
    <2>3. n = WithLocks(m, i, m.cTxLock)
      <3>1. n = [m EXCEPT !.cRxLock = i]
        BY <2>2
      <3>2. [m EXCEPT !.cRxLock = i] = [m EXCEPT !.cRxLock = i, !.cTxLock = m.cTxLock]
        BY <1>1, <1>5, LockTypes
      <3>. QED BY <3>1, <3>2 DEF WithLocks
    <2>. HIDE DEF n
    <2>. QED BY <1>1, <1>5, <2>1, <2>2, <2>3, LocksKeep
  <1>. HIDE DEF n
  <1>7. Became(q', q, x, n)
    BY <1>1, <1>4, <1>6, OneStore
  <1>8. Takes(Buf(q'), Buf(q), x) /\ Stores(q')
    BY <1>3, <1>5, <1>6, <1>7 DEF Takes, Buf, Became
  <1>9. AfterIsr(k', k, yieldReq, yieldReq')
    BY <1>1, <1>4, WakeIsr
  <1>. QED BY <1>3, <1>4, <1>8, <1>9, IsrFacts, Interrupt

(***************************************************************************)
(* The initial states.                                                     *)
(***************************************************************************)
\* A queue is created empty, a mutex free.
LEMMA InitialStore ==
    ASSUME NEW x \in Queues
    PROVE  StoreOK(x, InitialQueue(x)) /\ (x \in Buffers => Held(x, InitialQueue(x)) = <<>>)
  <1>. DEFINE n == uxLength[x]
              e == EmptyStorage(n, NoItem)
              s == InitialQueue(x)
              V == Items \cup {NoItem}
  <1>1. n \in Nat \ {0} /\ NoItem \in V
    BY LengthFacts
  <1>. HIDE DEF n
  <1>2. WellFormed(e, n, V) /\ Contents(e, n) = <<>>
    BY <1>1, EmptyIsEmpty
  <1>3. e.items \in [0..(n - 1) -> V] /\ e.pcWriteTo \in Int /\ e.pcReadFrom \in Int
        /\ e.uxMessagesWaiting = 0
    BY <1>1 DEF EmptyStorage
  <1>. HIDE DEF e, V
  <1>. DEFINE m == IF x \in Mutexes THEN 1 ELSE 0
  <1>4. s = [items |-> e.items, pcWriteTo |-> e.pcWriteTo, pcReadFrom |-> e.pcReadFrom,
             uxMessagesWaiting |-> m,
             cRxLock |-> queueUNLOCKED, cTxLock |-> queueUNLOCKED, xMutexHolder |-> NoTask]
    BY DEF InitialQueue, e, n
  <1>5. m \in 0..n /\ (x \in Mutexes => m = 1) /\ (x \in Buffers => m = 0)
    BY <1>1, LengthFacts
  <1>. HIDE DEF s, m
  <1>6. /\ s.items = e.items /\ s.pcWriteTo = e.pcWriteTo /\ s.pcReadFrom = e.pcReadFrom
        /\ s.uxMessagesWaiting = m /\ s.xMutexHolder = NoTask
    BY <1>4
  <1>7. s \in Record(n, V, Int, Tasks \cup {NoTask})
    <2>1. queueUNLOCKED \in Int /\ m \in Int
      BY <1>1, <1>5 DEF queueUNLOCKED
    <2>. QED BY <1>3, <1>4, <2>1 DEF Record
  <1>8. x \in Buffers => WellFormed(s, n, V)
    BY <1>2, <1>3, <1>5, <1>6 DEF WellFormed
  <1>9. x \in Buffers => Held(x, s) = <<>>
    <2>1. Contents(s, n) = [i \in 1..m |-> e.items[(e.pcReadFrom + i) % n]]
      BY <1>6 DEF Contents
    <2>2. Contents(e, n) = [i \in 1..0 |-> e.items[(e.pcReadFrom + i) % n]]
      BY <1>3 DEF Contents
    <2>3. m = 0 => Contents(s, n) = Contents(e, n)
      BY <2>1, <2>2
    <2>. QED BY <1>2, <1>5, <2>3 DEF Held, n
  <1>10. StoreOK(x, s)
    BY <1>5, <1>6, <1>7, <1>8 DEF StoreOK, V, n
  <1>. QED BY <1>9, <1>10 DEF s

\* The initial states satisfy the invariant.
LEMMA QueueInitInv == QueueInit => QueueInv
  <1>. SUFFICES ASSUME QueueInit PROVE QueueInv
    OBVIOUS
  <1>1. Init /\ q = [x \in Queues |-> InitialQueue(x)] /\ call = [t \in Threads |-> NoCall]
    BY DEF QueueInit
  <1>2. IInv /\ k.uxSchedulerSuspended = 0
    BY <1>1, InitLemma
  <1>3. /\ load \in DOMAIN Workloads /\ yieldReq = FALSE
        /\ kpc = [t \in Threads |-> "run"] /\ arg = [t \in Threads |-> NoArg]
    BY <1>1 DEF Init
  <1>4. /\ Typed(k, kpc, arg, yieldReq, tcb, left) /\ Placed(k, tcb) /\ Timed(k, left)
        /\ Running(k, kpc, arg, yieldReq)
    BY <1>2 DEF IInv, Good
  <1>5. KernelOK(k)
    <2>1. k \in Kernel /\ ListsOK(k) /\ TimesOK(k) /\ LeftOK(k, left, k.xPendedTicks)
          /\ (k.uxSchedulerSuspended = 0 => k.xPendedTicks = 0 /\ Pnd(k) = {})
      BY <1>4 DEF Typed, Placed, Timed
    <2>2. left \in [Threads -> Nat]
      BY <1>4, BoundsAssumption DEF Typed, portMAX_DELAY
    <2>. QED BY <2>1, <2>2 DEF KernelOK
  <1>6. k.pxCurrentTCB \in Threads
    BY <1>5 DEF KernelOK, Kernel
  <1>7. IsReady(k, k.pxCurrentTCB)
    BY <1>3, <1>4, <1>6 DEF Running, Runs
  <1>8. NoCall \in CallRecord /\ NoCall.answer = Nothing
    BY BoundsAssumption DEF NoCall, CallRecord, Answers, portMAX_DELAY
  <1>9. NoArg \in Args
    BY BoundsAssumption DEF NoArg, Args, portMAX_DELAY
  <1>10. InCalls(kpc, call, arg)
    <2>1. \A t \in Threads : CalledAt(t, "run", NoCall, NoArg)
      BY <1>8 DEF CalledAt, InQueue, Patient
    <2>. HIDE DEF NoCall, NoArg
    <2>. QED BY <1>1, <1>3, <1>8, <1>9, <2>1 DEF InCalls, QueueKpcs
  <1>11. Suspension(k, kpc)
    BY <1>2, <1>3, <1>6 DEF Suspension, Alone
  <1>12. Processor(k, kpc[k.pxCurrentTCB], call[k.pxCurrentTCB], yieldReq)
    BY <1>2, <1>3, <1>7 DEF Processor
  <1>13. Stores(q)
    BY <1>1, InitialStore DEF Stores
  <1>. QED BY <1>3, <1>5, <1>10, <1>11, <1>12, <1>13 DEF QueueInv, CallsOK

\* At first every buffer is empty and nobody has an answer.
LEMMA QueueInitBuffer == QueueInit => BB!Init
  <1>. SUFFICES ASSUME QueueInit PROVE BB!Init
    OBVIOUS
  <1>1. q = [x \in Queues |-> InitialQueue(x)] /\ call = [t \in Threads |-> NoCall]
    BY DEF QueueInit
  <1>2. \A x \in Buffers : Contents(q[x], uxLength[x]) = <<>>
    BY <1>1, LengthFacts, InitialStore DEF Held
  <1>3. [x \in Buffers |-> Contents(q[x], uxLength[x])] = [x \in Buffers |-> <<>>]
    BY <1>2
  <1>4. [t \in Tasks |-> IF call[t].queue \in Buffers THEN call[t].answer ELSE Nothing]
            = [t \in Tasks |-> Nothing]
    BY <1>1 DEF NoCall, Threads
  <1>5. \A x \in Buffers : 0 <= uxLength[x] /\ Len(<<>>) = 0
    BY LengthFacts
  <1>6. [x \in Buffers |-> <<>>] \in [Buffers -> Seq(Items)]
    OBVIOUS
  <1>7. \A x \in Buffers : Len([y \in Buffers |-> <<>>][x]) <= uxLength[x]
    BY <1>5
  <1>. QED BY <1>3, <1>4, <1>6, <1>7, Zenon DEF BB!Init

(***************************************************************************)
(* Every step keeps QueueInv, and is one of the buffers' or a stutter.     *)
(***************************************************************************)
\* The lemmas on the actions, together.
LEMMA QueueStepKept == QueueInv /\ QueueNext => Kept
  <1>. SUFFICES ASSUME QueueInv, QueueNext PROVE Kept
    OBVIOUS
  <1>0. UNCHANGED load
    BY DEF QueueNext
  <1>1. CASE QueueCall
    <2>1. ASSUME NEW r \in Requests, Start(r) PROVE Kept
      BY <1>0, <2>1, StartKeeps
    <2>2. CASE Waiting
      BY <1>0, <2>2, SuspendAllKeeps, LockKeeps, CheckKeeps, RecheckKeeps, InheritKeeps,
         PlaceCallKeeps, UnlockTxKeeps, UnlockRxKeeps, ResumeCallKeeps, YieldCallKeeps,
         ExpiredKeeps, DisinheritCallKeeps DEF Waiting
    <2>. QED BY <1>0, <1>1, <2>1, <2>2, RetryKeeps, ReturnKeeps DEF QueueCall
  <1>2. CASE Delaying
    <2>1. ASSUME NEW n \in Delays, vTaskDelay(n), UNCHANGED qvars PROVE Kept
      BY <1>0, <2>1, DelayCallKeeps
    <2>2. CASE AddToDelayedList /\ UNCHANGED qvars
      BY <1>0, <2>2, AddKeeps
    <2>3. CASE (portYIELD_WITHIN_API \/ IdleYield) /\ UNCHANGED qvars
      BY <1>0, <2>3, YieldKeeps
    <2>4. CASE YieldIsr /\ UNCHANGED qvars
      BY <1>0, <2>4, YieldIrqKeeps
    <2>5. CASE ResumeAndYield /\ call' = Overflow(call) /\ UNCHANGED <<q, held>>
      BY <1>0, <2>5, ResumeAndYieldKeeps
    <2>. QED BY <1>2, <2>1, <2>2, <2>3, <2>4, <2>5 DEF Delaying
  <1>3. CASE QueueIsr
    <2>1. ASSUME NEW r \in IsrRequests, xQueueGenericSendFromISR(r) PROVE Kept
      BY <1>0, <2>1, SendIsrKeeps
    <2>2. ASSUME NEW r \in IsrRequests, xQueueReceiveFromISR(r) PROVE Kept
      BY <1>0, <2>2, ReceiveIsrKeeps
    <2>. QED BY <1>3, <2>1, <2>2 DEF QueueIsr
  <1>4. CASE Tick
    BY <1>0, <1>4, TickIrqKeeps
  <1>. QED BY <1>1, <1>2, <1>3, <1>4 DEF QueueNext

\* One step keeps the invariant and is a step of BoundedBuffer or a stutter.
LEMMA QueueStep == QueueInv /\ [QueueNext]_allVars => QueueInv' /\ [BB!Next]_(BB!vars)
  <1>1. ASSUME QueueInv, QueueNext PROVE QueueInv' /\ [BB!Next]_(BB!vars)
    <2>1. Kept
      BY <1>1, QueueStepKept
    <2>2. Stores(q)
      BY <1>1 DEF QueueInv
    <2>. QED BY <2>1, <2>2, BufferStep DEF Kept
  <1>2. ASSUME QueueInv, UNCHANGED allVars PROVE QueueInv' /\ [BB!Next]_(BB!vars)
    <2>1. QueueInv'
      BY <1>2 DEF QueueInv, allVars, vars, qvars
    <2>2. UNCHANGED BB!vars
      <3>1. q' = q /\ call' = call
        BY <1>2 DEF allVars, qvars
      <3>. QED BY <3>1, SameAbstract
    <2>. QED BY <2>1, <2>2
  <1>. QED BY <1>1, <1>2

\* Whatever the tasks call and whenever the interrupts come, in every state the lists and wake
\* times of the kernel agree, every task is at a line of its call that its arguments allow, only
\* the running task has the scheduler suspended (by vTaskSuspendAll, once), it is ready until it
\* has blocked, and the ring of every queue is well formed, a mutex held exactly when taken.
THEOREM QueueInvariant == QueueSpec => []QueueInv
  <1>1. QueueInit => QueueInv
    BY QueueInitInv
  <1>2. QueueInv /\ [QueueNext]_allVars => QueueInv'
    BY QueueStep
  <1>. QED BY <1>1, <1>2, PTL DEF QueueSpec

\* xQueueGenericSend, xQueueReceive, xQueuePeek and their FromISR forms, with their second looks,
\* locks and retries, are steps of bounded FIFO buffers: nothing is lost, repeated or reordered,
\* no queue holds more than it has room for, and every answer is what the buffer held or a
\* failure, given once.
THEOREM QueuesAreBuffers == QueueSpec => IsBoundedBuffer
  <1>1. QueueInit => BB!Init
    BY QueueInitBuffer
  <1>2. QueueInv /\ [QueueNext]_allVars => [BB!Next]_(BB!vars)
    BY QueueStep
  <1>. QED BY <1>1, <1>2, QueueInvariant, PTL DEF QueueSpec, IsBoundedBuffer, BB!Spec

(***************************************************************************)
(* A mutex given back: every action keeps Debts.                           *)
(***************************************************************************)
\* Nobody takes or gives a mutex, and only a holder is given another priority.
LEMMA DebtsCalm ==
    ASSUME Debts, load' = load, held' = held, SameHolders(q', q),
           \A t \in Threads : held[t] = 0 => k'.uxPriority[t] = k.uxPriority[t]
    PROVE  Debts'
  <1>1. InitialPriority' = InitialPriority
    BY DEF InitialPriority
  <1>2. Owes(InitialPriority, k.uxPriority, q, held)
    BY DEF Debts
  <1>3. PICK own : own = InitialPriority
    OBVIOUS
  <1>4. Owes(own, k'.uxPriority, q', held)
    BY <1>2, <1>3, OwesSame
  <1>. QED BY <1>1, <1>3, <1>4 DEF Debts

\* One queue changes, and keeps its holder.
LEMMA OneKeepsHolder ==
    ASSUME Stores(q), NEW x \in Queues, NEW n, q' = [q EXCEPT ![x] = n],
           n.xMutexHolder = q[x].xMutexHolder
    PROVE  SameHolders(q', q)
  BY DEF Stores, SameHolders

\* The locks are not the holder.
LEMMA LocksNotHolder ==
    ASSUME NEW x \in Queues, NEW s, StoreOK(x, s)
    PROVE  /\ \A i : [s EXCEPT !.cRxLock = i].xMutexHolder = s.xMutexHolder
           /\ \A i : [s EXCEPT !.cTxLock = i].xMutexHolder = s.xMutexHolder
           /\ \A i, j : [s EXCEPT !.cRxLock = i, !.cTxLock = j].xMutexHolder = s.xMutexHolder
  <1>1. s \in Record(uxLength[x], Items \cup {NoItem}, Int, Tasks \cup {NoTask})
    BY DEF StoreOK
  <1>. QED BY <1>1 DEF Record

\* A queue is locked or unlocked.
LEMMA LockingHolders ==
    ASSUME QueueInv, prvLockQueue \/ UnlockTx \/ UnlockRx
    PROVE  SameHolders(q', q)
  <1>. DEFINE x == call[cur].queue
  <1>1. PICK p \in {"lock", "unlockTx", "unlockRx"} : At(p)
    BY DEF prvLockQueue, UnlockTx, UnlockRx
  <1>2. Within(p)
    BY <1>1, WithinCall DEF InQueue
  <1>3. Stores(q) /\ x \in Queues /\ StoreOK(x, q[x])
    BY <1>2 DEF Within
  <1>4. \/ \E i, j : q' = [q EXCEPT ![x] = [q[x] EXCEPT !.cRxLock = i, !.cTxLock = j]]
        \/ q' = [q EXCEPT ![x] = [q[x] EXCEPT !.cTxLock = queueUNLOCKED]]
        \/ q' = [q EXCEPT ![x] = [q[x] EXCEPT !.cRxLock = queueUNLOCKED]]
    <2>1. CASE prvLockQueue
      <3>. DEFINE lock(l) == IF l = queueUNLOCKED THEN queueLOCKED_UNMODIFIED ELSE l
                  i == lock(q[x].cRxLock)
                  j == lock(q[x].cTxLock)
      <3>1. q' = [q EXCEPT ![x] = [q[x] EXCEPT !.cRxLock = lock(@), !.cTxLock = lock(@)]]
        BY <2>1 DEF prvLockQueue
      <3>2. [q[x] EXCEPT !.cRxLock = lock(@), !.cTxLock = lock(@)]
                = [q[x] EXCEPT !.cRxLock = i, !.cTxLock = j]
        <4>1. q[x] \in Record(uxLength[x], Items \cup {NoItem}, Int, Tasks \cup {NoTask})
          BY <1>3 DEF StoreOK
        <4>. HIDE DEF x
        <4>. QED BY <4>1 DEF Record
      <3>3. q' = [q EXCEPT ![x] = [q[x] EXCEPT !.cRxLock = i, !.cTxLock = j]]
        BY <3>1, <3>2, Zenon
      <3>. HIDE DEF i, j, x
      <3>. QED BY <3>3
    <2>2. CASE UnlockTx
      BY <2>2 DEF UnlockTx
    <2>3. CASE UnlockRx
      BY <2>3 DEF UnlockRx
    <2>. QED BY <2>1, <2>2, <2>3
  <1>. HIDE DEF x
  <1>5. PICK n : q' = [q EXCEPT ![x] = n] /\ n.xMutexHolder = q[x].xMutexHolder
    <2>1. CASE \E i, j : q' = [q EXCEPT ![x] = [q[x] EXCEPT !.cRxLock = i, !.cTxLock = j]]
      <3>1. PICK i, j : q' = [q EXCEPT ![x] = [q[x] EXCEPT !.cRxLock = i, !.cTxLock = j]]
        BY <2>1
      <3>. DEFINE n == [q[x] EXCEPT !.cRxLock = i, !.cTxLock = j]
      <3>2. q' = [q EXCEPT ![x] = n] /\ n.xMutexHolder = q[x].xMutexHolder
        BY <1>3, <3>1, LocksNotHolder
      <3>. HIDE DEF n
      <3>. QED BY <3>2
    <2>2. CASE q' = [q EXCEPT ![x] = [q[x] EXCEPT !.cTxLock = queueUNLOCKED]]
      <3>. DEFINE n == [q[x] EXCEPT !.cTxLock = queueUNLOCKED]
      <3>2. q' = [q EXCEPT ![x] = n] /\ n.xMutexHolder = q[x].xMutexHolder
        BY <1>3, <2>2, LocksNotHolder
      <3>. HIDE DEF n
      <3>. QED BY <3>2
    <2>3. CASE q' = [q EXCEPT ![x] = [q[x] EXCEPT !.cRxLock = queueUNLOCKED]]
      <3>. DEFINE n == [q[x] EXCEPT !.cRxLock = queueUNLOCKED]
      <3>2. q' = [q EXCEPT ![x] = n] /\ n.xMutexHolder = q[x].xMutexHolder
        BY <1>3, <2>3, LocksNotHolder
      <3>. HIDE DEF n
      <3>. QED BY <3>2
    <2>. QED BY <1>4, <2>1, <2>2, <2>3
  <1>. QED BY <1>3, <1>5, OneKeepsHolder

\* A task that has given a mutex back, with the priority it may get back.
LEMMA SendDebts ==
    ASSUME NEW p0, NEW c, Tries(p0, c), xQueueGenericSend(c), Debts,
           c.queue \in Mutexes => q[c.queue].xMutexHolder = cur /\ c.op = "give"
    PROVE  Debts'
  <1>. DEFINE x == c.queue
              e == ToReceive(x)
              s == IF x \in Mutexes THEN xTaskPriorityDisinherit(k, cur) ELSE k
              m == prvCopyDataToQueue(x, c)
  <1>1. /\ KernelOK(k) /\ Stores(q) /\ cur \in Tasks /\ x \in Queues /\ StoreOK(x, q[x])
        /\ Legal(c) /\ e \in Events /\ QueueInv /\ load' = load /\ cur \in Threads
    BY TriesFacts DEF Tries, Threads
  <1>2. c.op \in Senders /\ q' = [q EXCEPT ![x] = m] /\ k' = Wake(s, e).s
        /\ held' = IF x \in Mutexes THEN [held EXCEPT ![cur] = @ - 1] ELSE held
    BY DEF xQueueGenericSend
  <1>3. KernelOK(s) /\ \A t \in Threads : s.uxPriority[t] =
            IF x \in Mutexes /\ Disinherits(cur) /\ t = cur THEN InitialPriority[cur]
            ELSE k.uxPriority[t]
    <2>1. CASE x \in Mutexes /\ Disinherits(cur)
      <3>1. PICK own \in Priorities : own = InitialPriority[cur]
        BY <1>1, InitialPriorityType
      <3>2. s = ChangePriority(k, cur, own)
        BY <2>1, <3>1 DEF xTaskPriorityDisinherit
      <3>3. Reprioritised(s, k, cur, own) /\ KernelOK(s)
        BY <1>1, <3>2, ChangeGentle, ChangeKeeps
      <3>. QED BY <2>1, <3>1, <3>3 DEF Reprioritised
    <2>2. CASE ~ (x \in Mutexes /\ Disinherits(cur))
      <3>1. s = k
        BY <2>2 DEF xTaskPriorityDisinherit
      <3>. QED BY <1>1, <2>2, <3>1
    <2>. QED BY <2>1, <2>2
  <1>. HIDE DEF s
  <1>4. k'.uxPriority = s.uxPriority
    BY <1>1, <1>2, <1>3, WakeGentle DEF Gentle
  <1>5. CASE x \in Mutexes
    <2>1. m.xMutexHolder = NoTask
      <3>1. m = [q[x] EXCEPT !.uxMessagesWaiting = @ + 1, !.xMutexHolder = NoTask]
        BY <1>5 DEF prvCopyDataToQueue
      <3>2. q[x] \in Record(uxLength[x], Items \cup {NoItem}, Int, Tasks \cup {NoTask})
        BY <1>1 DEF StoreOK
      <3>. HIDE DEF x, m
      <3>. QED BY <3>1, <3>2 DEF Record
    <2>2. PICK own, hd, t : own = InitialPriority /\ hd = held /\ t = cur
      OBVIOUS
    <2>3. \A u \in Threads : u # t => k'.uxPriority[u] = k.uxPriority[u]
      BY <1>3, <1>4, <2>2
    <2>4. hd[t] = 1 => k'.uxPriority[t] = own[t]
      BY <1>1, <1>3, <1>4, <1>5, <2>2 DEF Disinherits
    <2>. HIDE DEF m, e
    <2>5. PICK y, z, pr, pr2 : y = q' /\ z = q /\ pr = k.uxPriority /\ pr2 = k'.uxPriority
      OBVIOUS
    <2>6. /\ Owes(own, pr, z, hd) /\ DOMAIN z = Queues /\ t \in Threads
          /\ z[x].xMutexHolder = t /\ y = [z EXCEPT ![x] = m] /\ held' = [hd EXCEPT ![t] = @ - 1]
      BY <1>1, <1>2, <1>5, <2>2, <2>5 DEF Debts, Stores
    <2>. HIDE DEF x
    <2>9. Settled(own, pr2, pr, hd, t)
      BY <2>3, <2>4, <2>5 DEF Settled
    <2>10. x \in Queues
      BY <1>1
    <2>7. Owes(own, pr2, y, [hd EXCEPT ![t] = @ - 1])
      BY <2>1, <2>6, <2>9, <2>10, OwesLess
    <2>8. InitialPriority' = InitialPriority
      BY <1>1 DEF InitialPriority
    <2>. QED BY <2>2, <2>5, <2>6, <2>7, <2>8 DEF Debts
  <1>6. CASE x \notin Mutexes
    <2>1. m.xMutexHolder = q[x].xMutexHolder
      BY <1>1, <1>2, <1>6, CopyKeepsHolder
    <2>. HIDE DEF m
    <2>2. SameHolders(q', q)
      BY <1>1, <1>2, <2>1, OneKeepsHolder
    <2>3. \A t \in Threads : k'.uxPriority[t] = k.uxPriority[t]
      BY <1>3, <1>4, <1>6
    <2>. QED BY <1>1, <1>2, <1>6, <2>2, <2>3, DebtsCalm
  <1>. QED BY <1>5, <1>6

\* A task takes a semaphore or a mutex that is free.
LEMMA TakeDebts ==
    ASSUME NEW p0, NEW c, Tries(p0, c), xQueueSemaphoreTake(c), Debts
    PROVE  Debts'
  <1>. DEFINE x == c.queue
              e == ToSend(x)
              m == [[q[x] EXCEPT !.uxMessagesWaiting = @ - 1]
                       EXCEPT !.xMutexHolder = IF x \in Mutexes THEN cur ELSE NoTask]
  <1>1. /\ KernelOK(k) /\ Stores(q) /\ cur \in Tasks /\ x \in Queues /\ StoreOK(x, q[x])
        /\ Legal(c) /\ e \in Events /\ load' = load /\ cur \in Threads
    BY TriesFacts DEF Tries, Threads
  <1>2. c.op = "take" /\ ~ MustWait(c)
        /\ held' = IF x \in Mutexes THEN [held EXCEPT ![cur] = @ + 1] ELSE held
    BY DEF xQueueSemaphoreTake
  <1>3. x \in Queues \ Buffers /\ q[x].uxMessagesWaiting # 0
    BY <1>1, <1>2 DEF Legal, MustWait, IsEmpty, Receivers, Ops
  <1>4. q' = [q EXCEPT ![x] = m] /\ k' = Wake(k, e).s
    BY <1>3 DEF xQueueSemaphoreTake, prvCopyDataFromQueue
  <1>5. q[x].xMutexHolder = NoTask /\ m.xMutexHolder = IF x \in Mutexes THEN cur ELSE NoTask
    <2>1. q[x] \in Record(uxLength[x], Items \cup {NoItem}, Int, Tasks \cup {NoTask})
          /\ q[x].xMutexHolder = NoTask
      BY <1>1, <1>3 DEF StoreOK
    <2>. HIDE DEF x
    <2>. QED BY <2>1 DEF Record
  <1>6. k'.uxPriority = k.uxPriority
    <2>. HIDE DEF e
    <2>. QED BY <1>1, <1>4, WakeGentle DEF Gentle
  <1>. HIDE DEF m, e
  <1>7. CASE x \in Mutexes
    <2>1. PICK own, hd, t : own = InitialPriority /\ hd = held /\ t = cur
      OBVIOUS
    <2>2. PICK y, z : y = q' /\ z = q
      OBVIOUS
    <2>3. /\ Owes(own, k.uxPriority, z, hd) /\ DOMAIN z = Queues /\ t \in Threads
          /\ z[x].xMutexHolder = NoTask /\ y = [z EXCEPT ![x] = m]
          /\ held' = [hd EXCEPT ![t] = @ + 1] /\ m.xMutexHolder = t
      BY <1>1, <1>2, <1>4, <1>5, <1>7, <2>1, <2>2 DEF Debts, Stores
    <2>. HIDE DEF x
    <2>4. Owes(own, k.uxPriority, y, [hd EXCEPT ![t] = @ + 1])
      BY <1>1, <2>3, OwesMore
    <2>5. InitialPriority' = InitialPriority
      BY <1>1 DEF InitialPriority
    <2>. QED BY <1>6, <2>1, <2>2, <2>3, <2>4, <2>5 DEF Debts
  <1>8. CASE x \notin Mutexes
    <2>1. SameHolders(q', q)
      BY <1>1, <1>4, <1>5, <1>8, OneKeepsHolder
    <2>. QED BY <1>1, <1>2, <1>6, <1>8, <2>1, DebtsCalm
  <1>. QED BY <1>7, <1>8

\* The other ends of a first critical section.
LEMMA LookDebts ==
    ASSUME NEW p0, NEW c, Tries(p0, c), Debts,
           xQueueReceive(c) \/ xQueuePeek(c) \/ Refuse(c) \/ GoToWait(c)
    PROVE  Debts'
  <1>. DEFINE x == c.queue
  <1>1. /\ KernelOK(k) /\ Stores(q) /\ x \in Queues /\ StoreOK(x, q[x])
        /\ Legal(c) /\ ToSend(x) \in Events /\ ToReceive(x) \in Events /\ load' = load
    BY TriesFacts DEF Tries
  <1>2. k' = k \/ k' = Wake(k, ToSend(x)).s \/ k' = Wake(k, ToReceive(x)).s
    BY DEF xQueueReceive, xQueuePeek, PeekWakes, Refuse, GoToWait
  <1>3. k'.uxPriority = k.uxPriority
    <2>1. \A e \in Events : Wake(k, e).s.uxPriority = k.uxPriority
      BY <1>1, WakeGentle DEF Gentle
    <2>. QED BY <1>1, <1>2, <2>1
  <1>4. held' = held
    BY DEF xQueueReceive, xQueuePeek, Refuse, GoToWait
  <1>5. SameHolders(q', q)
    <2>1. CASE xQueueReceive(c)
      <3>1. c.op = "receive" /\ q' = [q EXCEPT ![x] = prvCopyDataFromQueue(x)]
        BY <2>1 DEF xQueueReceive
      <3>2. x \in Buffers
        BY <1>1, <3>1 DEF Legal, Ops, Receivers
      <3>3. prvCopyDataFromQueue(x) = CopyFrom(q[x], uxLength[x])
        BY <3>2 DEF prvCopyDataFromQueue
      <3>. HIDE DEF x
      <3>4. q[x] \in Store(x)
        BY <1>1 DEF StoreOK, Store, Stored
      <3>5. prvCopyDataFromQueue(x).xMutexHolder = q[x].xMutexHolder
        BY <1>1, <3>3, <3>4, CopyHolder
      <3>. QED BY <1>1, <3>1, <3>5, OneKeepsHolder
    <2>2. CASE xQueuePeek(c) \/ Refuse(c) \/ GoToWait(c)
      BY <2>2 DEF xQueuePeek, Refuse, GoToWait, SameHolders
    <2>. QED BY <2>1, <2>2
  <1>. QED BY <1>1, <1>3, <1>4, <1>5, DebtsCalm

\* The first critical section of a call.
LEMMA TryDebts ==
    ASSUME NEW p0, NEW c, Tries(p0, c), Try(c), Debts,
           c.queue \in Mutexes /\ c.op = "give" => q[c.queue].xMutexHolder = cur
    PROVE  Debts'
  <1>1. Legal(c) /\ (c.queue \in Mutexes /\ c.op \in Senders => c.op = "give")
    <2>1. Legal(c)
      BY TriesFacts
    <2>. QED BY <2>1, QueueAssumption DEF Legal, Senders
  <1>2. CASE xQueueGenericSend(c)
    <2>1. c.op \in Senders
      BY <1>2 DEF xQueueGenericSend
    <2>. QED BY <1>1, <1>2, <2>1, SendDebts
  <1>3. CASE xQueueSemaphoreTake(c)
    BY <1>3, TakeDebts
  <1>. QED BY <1>2, <1>3, LookDebts DEF Try

\* A task that holds a mutex may be raised, or lowered, whatever its holder; nobody else.
LEMMA HolderDebts ==
    ASSUME QueueInv, Inherit \/ DisinheritAfterTimeout, UNCHANGED load, Debts
    PROVE  Debts'
  <1>1. held' = held /\ q' = q
    BY DEF Inherit, DisinheritAfterTimeout
  <1>2. \/ k' = k
        \/ \E x \in Queues, h \in Tasks, p \in Priorities :
              q[x].xMutexHolder = h /\ Reprioritised(k', k, h, p)
    BY InheritEffect, DisinheritEffect
  <1>3. ASSUME NEW x \in Queues, NEW h \in Tasks, NEW p \in Priorities,
               q[x].xMutexHolder = h, Reprioritised(k', k, h, p)
        PROVE  \A t \in Threads : held[t] = 0 => k'.uxPriority[t] = k.uxPriority[t]
    <2>1. PICK own : Owes(own, k.uxPriority, q, held)
      BY DEF Debts
    <2>2. held[h] # 0
      BY <1>3, <2>1, HolderOwes DEF Threads
    <2>. QED BY <1>3, <2>2 DEF Reprioritised
  <1>4. \A t \in Threads : held[t] = 0 => k'.uxPriority[t] = k.uxPriority[t]
    BY <1>2, <1>3
  <1>. QED BY <1>1, <1>4, DebtsCalm DEF SameHolders

\* The steps that take and give nothing.
LEMMA BriefDebts ==
    ASSUME QueueInv, Briefly, UNCHANGED load, held' = held, Debts,
           q' = q \/ prvLockQueue \/ UnlockTx \/ UnlockRx
    PROVE  Debts'
  <1>1. k'.uxPriority = k.uxPriority
    BY BrieflyGentle DEF Gentle
  <1>2. SameHolders(q', q)
    BY LockingHolders DEF SameHolders
  <1>. QED BY <1>1, <1>2, DebtsCalm

\* Waiting, delays, and the timer.
LEMMA TimedDebts ==
    ASSUME QueueInv, Place \/ AddToDelayedList \/ ResumeCall \/ ResumeAndYield \/ Tick,
           UNCHANGED load, held' = held, q' = q, Debts
    PROVE  Debts'
  <1>1. k'.uxPriority = k.uxPriority
    <2>1. CASE Place
      BY <2>1, PlacementFacts DEF Joins
    <2>2. CASE AddToDelayedList
      BY <2>2, DelayFacts DEF Joins
    <2>3. CASE ResumeCall \/ ResumeAndYield
      BY <2>3, ResumptionFacts DEF Continued
    <2>4. CASE Tick
      BY <2>4, TickEffect DEF Aged, Gentle
    <2>. QED BY <2>1, <2>2, <2>3, <2>4
  <1>. QED BY <1>1, DebtsCalm DEF SameHolders

\* Interrupts use no mutex.
LEMMA IsrDebts ==
    ASSUME QueueInv, NEW r \in IsrRequests, UNCHANGED load, Debts,
           xQueueGenericSendFromISR(r) \/ xQueueReceiveFromISR(r)
    PROVE  Debts'
  <1>. DEFINE x == r.queue
  <1>1. /\ Legal(r) /\ x \in Queues /\ ToReceive(x) \in Events /\ ToSend(x) \in Events
        /\ Stores(q) /\ StoreOK(x, q[x]) /\ x \notin Mutexes
    <2>1. Legal(r) /\ x \in Queues /\ ToReceive(x) \in Events /\ ToSend(x) \in Events /\ Stores(q)
      BY IsrRequest, IsrFacts
    <2>2. x \notin Mutexes
      BY RequestAssumption DEF QueueInv, IsrRequests
    <2>. QED BY <2>1, <2>2 DEF Stores
  <1>2. /\ held' = held
        /\ \E e \in Events : \E lock : WakeFromIsr(e, lock)
    BY <1>1 DEF xQueueGenericSendFromISR, xQueueReceiveFromISR
  <1>3. k'.uxPriority = k.uxPriority
    BY <1>2, WakeIsrEffect DEF Gentle
  <1>4. SameHolders(q', q)
    <2>1. CASE xQueueGenericSendFromISR(r)
      <3>. DEFINE m == prvCopyDataToQueue(x, r)
                  n == [m EXCEPT !.cTxLock = prvIncrementQueueLock(@)]
      <3>1. q' = [q EXCEPT ![x] = n] /\ r.op \in Senders /\ ~ MustWait(r)
        BY <2>1 DEF xQueueGenericSendFromISR
      <3>2. m.xMutexHolder = q[x].xMutexHolder /\ StoreOK(x, m)
        BY <1>1, <3>1, CopyKeepsHolder, CopyTo
      <3>. HIDE DEF m, x
      <3>3. n.xMutexHolder = m.xMutexHolder
        BY <1>1, <3>2, LocksNotHolder
      <3>. HIDE DEF n
      <3>. QED BY <1>1, <3>1, <3>2, <3>3, OneKeepsHolder
    <2>2. CASE xQueueReceiveFromISR(r)
      <3>. DEFINE m == CopyFrom(q[x], uxLength[x])
                  n == [m EXCEPT !.cRxLock = prvIncrementQueueLock(@)]
      <3>0. r.op = "receive" /\ ~ MustWait(r)
        BY <2>2 DEF xQueueReceiveFromISR
      <3>1. x \in Buffers /\ q[x].uxMessagesWaiting # 0
        BY <1>1, <3>0 DEF Legal, Ops, Receivers, MustWait, IsEmpty
      <3>2. q' = [q EXCEPT ![x] = n]
        BY <2>2, <3>1 DEF xQueueReceiveFromISR, prvCopyDataFromQueue
      <3>. HIDE DEF x
      <3>3. q[x] \in Store(x)
        BY <1>1 DEF StoreOK, Store, Stored
      <3>4. m.xMutexHolder = q[x].xMutexHolder /\ StoreOK(x, m)
        BY <1>1, <3>1, <3>3, CopyHolder, ReceiveStore
      <3>. HIDE DEF m
      <3>5. n.xMutexHolder = m.xMutexHolder
        BY <1>1, <3>4, LocksNotHolder
      <3>. HIDE DEF n
      <3>. QED BY <1>1, <3>2, <3>4, <3>5, OneKeepsHolder
    <2>. QED BY <2>1, <2>2
  <1>. QED BY <1>2, <1>3, <1>4, DebtsCalm

\* Every step keeps the debts.
LEMMA DebtsStep ==
    ASSUME QueueInv, Debts, QueueNext
    PROVE  Debts'
  <1>0. UNCHANGED load
    BY DEF QueueNext
  <1>1. CASE QueueCall
    <2>1. ASSUME NEW r \in Requests, Start(r) PROVE Debts'
      <3>1. Tries("run", NewCall(r)) /\ Try(NewCall(r))
            /\ NewCall(r).op = r.op /\ NewCall(r).queue = r.queue
        BY <1>0, <2>1, StartTries DEF Begun
      <3>2. NewCall(r).queue \in Mutexes /\ NewCall(r).op = "give"
                => q[NewCall(r).queue].xMutexHolder = cur
        BY <2>1, <3>1 DEF Start, Permitted
      <3>3. PICK c : c = NewCall(r)
        OBVIOUS
      <3>. QED BY <3>1, <3>2, <3>3, TryDebts
    <2>2. CASE Retry
      <3>1. PICK c : c = call[cur]
        OBVIOUS
      <3>. QED BY <1>0, <2>2, <3>1, RetryTries, TryDebts
    <2>3. CASE Waiting \/ ReturnCall
      <3>1. CASE Inherit \/ DisinheritAfterTimeout
        BY <1>0, <3>1, HolderDebts
      <3>2. CASE Place \/ ResumeCall
        BY <1>0, <3>2, TimedDebts DEF Place, ResumeCall
      <3>3. CASE UnlockTx \/ UnlockRx \/ prvLockQueue
        BY <1>0, <3>3, BriefDebts DEF Briefly, UnlockTx, UnlockRx, prvLockQueue
      <3>4. CASE SuspendAll \/ xTaskCheckForTimeOut \/ Recheck \/ YieldCall \/ Expired \/ ReturnCall
        BY <1>0, <3>4, BriefDebts DEF Briefly, SuspendAll, xTaskCheckForTimeOut, Recheck,
           YieldCall, Expired, ReturnCall
      <3>. QED BY <2>3, <3>1, <3>2, <3>3, <3>4 DEF Waiting
    <2>. QED BY <1>1, <2>1, <2>2, <2>3 DEF QueueCall
  <1>2. CASE Delaying
    <2>1. ASSUME NEW n \in Delays, vTaskDelay(n), UNCHANGED qvars PROVE Debts'
      BY <1>0, <2>1, BriefDebts DEF Briefly, qvars
    <2>2. CASE AddToDelayedList /\ UNCHANGED qvars
      BY <1>0, <2>2, TimedDebts DEF qvars
    <2>3. CASE (portYIELD_WITHIN_API \/ IdleYield \/ YieldIsr) /\ UNCHANGED qvars
      BY <1>0, <2>3, BriefDebts DEF Briefly, qvars
    <2>4. CASE ResumeAndYield /\ call' = Overflow(call) /\ UNCHANGED <<q, held>>
      BY <1>0, <2>4, TimedDebts
    <2>. QED BY <1>2, <2>1, <2>2, <2>3, <2>4 DEF Delaying
  <1>3. CASE QueueIsr
    BY <1>0, <1>3, IsrDebts DEF QueueIsr
  <1>4. CASE Tick
    BY <1>0, <1>4, TimedDebts DEF Tick
  <1>. QED BY <1>1, <1>2, <1>3, <1>4 DEF QueueNext

\* The kernel starts with the priorities tasks are created with, and nobody waits.
LEMMA InitPriorities ==
    Init => k.uxPriority = InitialPriority /\ \A e \in Events : Wts(k, e) = {}
  <1>. SUFFICES ASSUME Init
                PROVE  k.uxPriority = InitialPriority /\ \A e \in Events : Wts(k, e) = {}
    OBVIOUS
  <1>. DEFINE n == FoldLeft(prvAddTaskToReadyList, Bare, Order)
  <1>1. /\ load \in DOMAIN Workloads
        /\ \E f : k = Started(n, f)
    BY DEF Init, Bare, Order, Started
  <1>2. Order \in Distinct(Threads) /\ ToSet(Order) \in SUBSET Threads
    <2>1. Order \in Seq(Threads) => ToSet(Order) \in SUBSET Threads
      BY ElementsOf
    <2>. QED BY <1>1, <2>1, OrderFacts DEF Distinct
  <1>3. Added(n, Bare, ToSet(Order))
    <2>1. Bare \in Kernel /\ Bare \in Loose /\ \A p \in Priorities : RdyAt(Bare, p) = {}
      BY <1>1, BareFacts
    <2>. QED BY <1>2, <2>1, AddAll
  <1>. HIDE DEF n
  <1>4. n \in Kernel /\ n.uxPriority = InitialPriority
    BY <1>3 DEF Added, SameRest, Bare
  <1>5. \A e \in Events : Wts(n, e) = {}
    <2>1. \A e \in Events : Wts(Bare, e) = {}
      BY DEF Bare, Wts, ToSet
    <2>. QED BY <1>3, <2>1 DEF Added, SameEvents, Wts
  <1>6. PICK f : k = Started(n, f)
    BY <1>1
  <1>7. k.uxPriority = n.uxPriority /\ k.xTasksWaiting = n.xTasksWaiting
    BY <1>4, <1>6 DEF Started, Kernel
  <1>. QED BY <1>4, <1>5, <1>7 DEF Wts

\* At first no mutex is held, and every task has the priority it was created with.
LEMMA InitialDebts == QueueInit => Debts
  <1>. SUFFICES ASSUME QueueInit PROVE Debts
    OBVIOUS
  <1>1. Init /\ q = [x \in Queues |-> InitialQueue(x)] /\ held = [t \in Threads |-> 0]
    BY DEF QueueInit
  <1>2. \A x \in Queues : q[x].xMutexHolder = NoTask
    BY <1>1 DEF InitialQueue
  <1>3. \A t \in Threads : OwnedBy(q, t) = {}
    BY <1>2, ThreadsAssumption DEF OwnedBy, Threads
  <1>4. k.uxPriority = InitialPriority
    BY <1>1, InitPriorities
  <1>5. held \in [Threads -> Nat] /\ \A t \in Threads : held[t] = 0
    BY <1>1
  <1>. QED BY <1>3, <1>4, <1>5, FS_EmptySet DEF Debts, Owes

\* Every step of the specification keeps the counts of mutexes.
LEMMA DebtsKept == QueueInv /\ Debts /\ [QueueNext]_allVars => Debts'
  <1>1. ASSUME QueueInv, Debts, UNCHANGED allVars PROVE Debts'
    <2>1. InitialPriority' = InitialPriority /\ k' = k /\ q' = q /\ held' = held
      BY <1>1 DEF allVars, vars, qvars, InitialPriority
    <2>. QED BY <1>1, <2>1 DEF Debts
  <1>. QED BY <1>1, DebtsStep

\* A count of mutexes is that of the queues that name the task their holder, and a task
\* without one has its own priority (xTaskPriorityInherit, xTaskPriorityDisinherit and
\* vTaskPriorityDisinheritAfterTimeout change the priority of none but a holder).
THEOREM DebtsInvariant == QueueSpec => []Debts
  <1>1. QueueInit => Debts
    BY InitialDebts
  <1>2. QueueInv /\ Debts /\ [QueueNext]_allVars => Debts'
    BY DebtsKept
  <1>. QED BY <1>1, <1>2, QueueInvariant, PTL DEF QueueSpec

\* no time passes, nobody begins to wait, and delays may only end
Timeless(n, s) == SameClock(n, s) /\ Fewer(n, s) /\ Shortens(n, s)

\* What passes no time, and two such steps.
LEMMA TimelessFacts ==
    ASSUME NEW s
    PROVE  /\ Timeless(s, s)
           /\ \A n : Gentle(n, s) => Timeless(n, s)
           /\ \A n : \A t, p : Reprioritised(n, s, t, p) => Timeless(n, s)
           /\ \A m, n : Timeless(m, s) /\ Gentle(n, m) => Timeless(n, s)
  <1>1. Timeless(s, s)
    BY GentleSame DEF Gentle, Timeless
  <1>2. ASSUME NEW m, NEW n, Timeless(m, s), Gentle(n, m) PROVE Timeless(n, s)
    <2>1. SameClock(n, s) /\ Fewer(n, s)
      BY <1>2 DEF Timeless, Gentle, SameClock, Fewer
    <2>2. ASSUME NEW l \in Delays0(s) PROVE \E h \in Delays0(n) : NoLonger(h, l)
      <3>1. PICK g \in Delays0(m) : NoLonger(g, l)
        BY <1>2 DEF Timeless, Shortens
      <3>2. PICK h \in Delays0(n) : NoLonger(h, g)
        BY <1>2 DEF Gentle, Shortens
      <3>3. NoLonger(h, l)
        BY <3>1, <3>2 DEF NoLonger
      <3>. QED BY <3>2, <3>3
    <2>. QED BY <2>1, <2>2 DEF Timeless, Shortens
  <1>. QED BY <1>1, <1>2 DEF Gentle, Timeless, Reprioritised, Fewer

\* A first critical section wakes at most one task.
LEMMA TryTimeless ==
    ASSUME NEW p0, NEW c, Tries(p0, c), Try(c)
    PROVE  Timeless(k', k)
  <1>. DEFINE x == c.queue
  <1>1. /\ KernelOK(k) /\ cur \in Tasks /\ ToSend(x) \in Events /\ ToReceive(x) \in Events /\ QueueInv
    BY TriesFacts DEF Tries
  <1>2. CASE xQueueGenericSend(c)
    <2>. DEFINE s == IF x \in Mutexes THEN xTaskPriorityDisinherit(k, cur) ELSE k
                e == ToReceive(x)
    <2>1. k' = Wake(s, e).s
      BY <1>2 DEF xQueueGenericSend
    <2>2. KernelOK(s) /\ Timeless(s, k)
      <3>1. PICK own \in Priorities : own = InitialPriority[cur]
        BY <1>1, InitialPriorityType DEF Threads
      <3>2. s = k \/ s = ChangePriority(k, cur, own)
        BY <3>1 DEF xTaskPriorityDisinherit
      <3>. HIDE DEF s
      <3>3. CASE s = k
        BY <1>1, <3>3, TimelessFacts
      <3>4. CASE s = ChangePriority(k, cur, own)
        <4>1. KernelOK(s) /\ Reprioritised(s, k, cur, own)
          BY <1>1, <3>4, ChangeKeeps, ChangeGentle
        <4>. QED BY <4>1, TimelessFacts
      <3>. QED BY <3>2, <3>3, <3>4
    <2>. HIDE DEF s, e
    <2>3. e \in Events
      BY <1>1 DEF e
    <2>4. Gentle(k', s)
      BY <2>1, <2>2, <2>3, WakeGentle
    <2>. QED BY <2>2, <2>4, TimelessFacts
  <1>3. CASE ~ xQueueGenericSend(c)
    <2>1. k' = k \/ k' = Wake(k, ToSend(x)).s \/ k' = Wake(k, ToReceive(x)).s
      BY <1>3 DEF Try, xQueueReceive, xQueueSemaphoreTake, xQueuePeek, PeekWakes, Refuse, GoToWait
    <2>. HIDE DEF x
    <2>2. \A e \in Events : Gentle(Wake(k, e).s, k)
      BY <1>1, WakeGentle
    <2>. QED BY <1>1, <2>1, <2>2, TimelessFacts
  <1>. QED BY <1>2, <1>3

\* So do the other steps that do not block the running task or count time.
LEMMA CalmTimeless ==
    ASSUME QueueInv, Briefly \/ Inherit \/ DisinheritAfterTimeout
    PROVE  Timeless(k', k)
  <1>1. CASE Briefly
    BY <1>1, BrieflyGentle, TimelessFacts
  <1>2. CASE Inherit \/ DisinheritAfterTimeout
    <2>1. \/ k' = k
          \/ \E h, p : Reprioritised(k', k, h, p)
      BY <1>2, InheritEffect, DisinheritEffect
    <2>. QED BY <2>1, TimelessFacts
  <1>. QED BY <1>1, <1>2

\* Interrupts that use a queue.
LEMMA IsrTimeless ==
    ASSUME QueueInv, NEW r \in IsrRequests,
           xQueueGenericSendFromISR(r) \/ xQueueReceiveFromISR(r)
    PROVE  Timeless(k', k)
  <1>1. ToReceive(r.queue) \in Events /\ ToSend(r.queue) \in Events
    BY IsrRequest
  <1>2. \E e \in Events : \E lock : WakeFromIsr(e, lock)
    BY <1>1 DEF xQueueGenericSendFromISR, xQueueReceiveFromISR
  <1>3. Gentle(k', k)
    BY <1>2, WakeIsrEffect
  <1>. QED BY <1>3, TimelessFacts

(***************************************************************************)
(* How calls age.                                                          *)
(***************************************************************************)
\* the running task's call is d, at p, and no time passes
Proceeds(p, d) == kpc' = [kpc EXCEPT ![cur] = p] /\ call' = [call EXCEPT ![cur] = d]

\* A step of the running task in which no time passes.
LEMMA CalmAgeing ==
    ASSUME QueueInv, Ageing, SameClock(k', k), NEW p, NEW d, Proceeds(p, d),
           Ages(p, d, k.xTickCount, k.xPendedTicks)
    PROVE  Ageing'
  <1>1. DOMAIN kpc = Threads /\ DOMAIN call = Threads /\ cur \in Threads
    BY DEF QueueInv, CallsOK, InCalls, KernelOK, Kernel, cur
  <1>2. \A t \in Threads : kpc'[t] = (IF t = cur THEN p ELSE kpc[t])
                           /\ call'[t] = (IF t = cur THEN d ELSE call[t])
    BY <1>1 DEF Proceeds
  <1>3. \A t \in Threads : Ages(kpc'[t], call'[t], k.xTickCount, k.xPendedTicks)
    BY <1>2 DEF Ageing
  <1>. QED BY <1>3 DEF Ageing, SameClock

\* the same call, with the same time
SameTime(d, c) ==
    /\ d.op = c.op /\ d.answer = c.answer /\ d.asked = c.asked /\ d.waited = c.waited
    /\ d.ticks = c.ticks /\ d.entered = c.entered /\ d.overflowed = c.overflowed

\* A call goes on with the time it has.
LEMMA AgesOnward ==
    ASSUME NEW p0 \in InQueue, NEW p \in InQueue, NEW c, NEW d, NEW a, NEW b, Ages(p0, c, a, b),
           SameTime(d, c),
           p \in {"expired", "disinherit"} \/ (p \in Leaving /\ d.after = "expired") => c.ticks = 0,
           p \in {"recheck", "inherit", "place"} => p0 \in {"recheck", "inherit", "place"}
    PROVE  Ages(p, d, a, b)
  <1>1. Timely(c, a, b)
    BY DEF Ages
  <1>2. Timely(d, a, b)
    BY <1>1 DEF Timely, SameTime, Given
  <1>3. p \notin {"run", "add", "resume", "yield", "done"}
    BY DEF InQueue
  <1>4. d.waited \in 0..Wrap /\ d.ticks = c.ticks
    BY DEF Ages, SameTime
  <1>5. p \in {"recheck", "inherit", "place"} /\ d.asked # portMAX_DELAY =>
           ~ d.overflowed /\ d.entered = a
    BY DEF Ages, SameTime
  <1>. QED BY <1>2, <1>3, <1>4, <1>5 DEF Ages

\* A call fails only when its time is over.
LEMMA AgesDone ==
    ASSUME NEW c \in CallRecord, NEW a, NEW b, NEW p0 \in InQueue, Ages(p0, c, a, b), NEW v,
           v = Failed => c.ticks = 0
    PROVE  Ages("done", Left(c, v), a, b)
  <1>. DEFINE d == Left(c, v)
  <1>0. portMAX_DELAY # 0
    BY BoundsAssumption DEF portMAX_DELAY
  <1>1. d.waited = c.waited /\ d.asked = c.asked /\ d.answer = v
    BY DEF Left, NoCall
  <1>2. c.waited \in 0..Wrap /\ Timely(c, a, b)
    BY DEF Ages
  <1>3. c.ticks = 0 => c.asked # portMAX_DELAY /\ c.waited >= c.asked
    BY <1>0, <1>2 DEF Timely
  <1>. HIDE DEF d
  <1>4. Ages("done", d, a, b)
    BY <1>1, <1>2, <1>3 DEF Ages, InQueue, Leaving
  <1>. QED BY <1>4 DEF d

\* A task that is in no call.
LEMMA AgesNone ==
    ASSUME NEW p \in {"run", "add", "resume", "yield"}, NEW a, NEW b
    PROVE  Ages(p, NoCall, a, b) /\ NoCall.op = "none"
  <1>1. Wrap \in Nat
    BY BoundsAssumption
  <1>. QED BY <1>1 DEF Ages, NoCall, InQueue, Leaving

\* what a timer interrupt, or the end of the suspension, leaves of the call c
Passing(d, c, w, o) ==
    IF c.op # "none" /\ c.asked # portMAX_DELAY THEN Older(d, c, w, o) ELSE d = c

\* time passes, at once or when the ticks that were put off are counted
Passes(c, w, a, b, a2, b2) ==
    \/ /\ (a2 = Advanced(a, 1) /\ b2 = b) \/ (a2 = a /\ b2 = b + 1)
       /\ w = Counted(c.waited)
    \/ (b < Wrap => a2 = Advanced(a, b)) /\ b2 = 0 /\ w = c.waited

\* The call of a task ages, wherever the task is.
LEMMA AgesPass ==
    ASSUME NEW p, NEW c \in CallRecord, NEW a \in 0..portMAX_DELAY, NEW b \in Nat, Ages(p, c, a, b),
           p \in InQueue => c.op # "none",
           NEW a2 \in 0..portMAX_DELAY, NEW b2, NEW w, Passes(c, w, a, b, a2, b2),
           p \in {"recheck", "inherit", "place"} => a2 = a,
           NEW d, Passing(d, c, w, a2 < a)
    PROVE  Ages(p, d, a2, b2)
  <1>0. Wrap \in Nat /\ c.waited \in 0..Wrap /\ Reckoned(c)
    BY BoundsAssumption, CallsReckoned DEF Ages
  <1>1. CASE c.op # "none" /\ c.asked # portMAX_DELAY
    <2>1. Older(d, c, w, a2 < a)
      BY <1>1 DEF Passing
    <2>2. w \in 0..Wrap /\ w >= c.waited
      BY <1>0 DEF Passes, Counted
    <2>3. p \notin {"run", "add", "resume", "yield"}
      BY <1>1, AgesNone DEF Ages
    <2>4. p \in InQueue => Timely(d, a2, b2)
      <3>1. SUFFICES ASSUME p \in InQueue PROVE Timely(d, a2, b2)
        OBVIOUS
      <3>2. Timely(c, a, b)
        BY <3>1 DEF Ages
      <3>3. CASE ((a2 = Advanced(a, 1) /\ b2 = b) \/ (a2 = a /\ b2 = b + 1)) /\ w = Counted(c.waited)
        BY <1>0, <2>1, <3>2, <3>3, TimelyTick
      <3>4. CASE (b < Wrap => a2 = Advanced(a, b)) /\ b2 = 0 /\ w = c.waited
        BY <1>0, <2>1, <3>2, <3>4, TimelyResume
      <3>. QED BY <3>3, <3>4 DEF Passes
    <2>5. /\ d.waited = w /\ d.ticks = c.ticks /\ d.after = c.after /\ d.asked = c.asked
          /\ d.answer = c.answer /\ d.entered = c.entered
          /\ (d.overflowed <=> c.overflowed \/ a2 < a)
      BY <2>1 DEF Older
    <2>6. p \in {"recheck", "inherit", "place"} /\ d.asked # portMAX_DELAY =>
              ~ d.overflowed /\ d.entered = a2
      BY <2>5 DEF Ages
    <2>7. p = "done" /\ d.answer = Failed => d.asked # portMAX_DELAY /\ d.waited >= d.asked
      <3>1. c.asked \in Int /\ c.waited \in Int /\ w \in Int
        BY <1>0, <2>2 DEF Reckoned
      <3>2. p = "done" /\ c.answer = Failed => c.asked # portMAX_DELAY /\ c.waited >= c.asked
        BY DEF Ages
      <3>. QED BY <2>2, <2>5, <3>1, <3>2
    <2>8. p \in {"expired", "disinherit"} \/ (p \in Leaving /\ d.after = "expired") => d.ticks = 0
      BY <2>5 DEF Ages
    <2>. QED BY <2>2, <2>3, <2>4, <2>5, <2>6, <2>7, <2>8 DEF Ages
  <1>2. CASE ~ (c.op # "none" /\ c.asked # portMAX_DELAY)
    <2>1. d = c
      BY <1>2 DEF Passing
    <2>2. p \in InQueue => Timely(c, a2, b2)
      BY <1>2 DEF Ages, Timely
    <2>3. p \in {"recheck", "inherit", "place"} => c.asked = portMAX_DELAY
      BY <1>2 DEF InQueue
    <2>. QED BY <2>1, <2>2, <2>3 DEF Ages
  <1>. QED BY <1>1, <1>2

\* A call that is handed an item has not failed.
LEMMA ItemNotFailed ==
    ASSUME NEW p0, NEW c, Tries(p0, c), c.op \in {"receive", "peek"}, ~ MustWait(c)
    PROVE  Received(c.queue) # Failed
  <1>. DEFINE x == c.queue
  <1>1. x \in Queues /\ StoreOK(x, q[x]) /\ Legal(c)
    BY TriesFacts
  <1>2. x \in Buffers /\ q[x].uxMessagesWaiting # 0
    BY <1>1 DEF Legal, MustWait, IsEmpty, Receivers, Ops
  <1>3. FirstItem(q[x], uxLength[x]) \in Stored
    <2>. HIDE DEF x
    <2>. QED BY <1>1, <1>2, ReceiveStore
  <1>4. Failed \notin Stored
    BY ItemsAssumption DEF Stored, NoItem, Failed
  <1>. QED BY <1>2, <1>3, <1>4 DEF Received

\* A try ends the call, refuses it, or sends it to wait.
LEMMA TryAges ==
    ASSUME NEW p0, NEW c, Tries(p0, c), Try(c), Ageing,
           Ages("try", c, k.xTickCount, k.xPendedTicks)
    PROVE  Ageing'
  <1>1. c \in CallRecord /\ QueueInv /\ SameClock(k', k)
    BY TriesFacts, TryTimeless DEF Tries, Timeless
  <1>2. ASSUME NEW v, Finish(c, v), v = Failed => c.ticks = 0
        PROVE  Ageing'
    <2>1. Ages("done", Left(c, v), k.xTickCount, k.xPendedTicks)
      BY <1>1, <1>2, AgesDone DEF InQueue
    <2>2. Proceeds("done", Left(c, v))
      BY <1>2 DEF Finish, To, Proceeds, Left
    <2>. QED BY <1>1, <2>1, <2>2, CalmAgeing
  <1>3. CASE xQueueGenericSend(c) \/ xQueueSemaphoreTake(c)
    <2>1. Finish(c, Done) /\ Done # Failed
      BY <1>3 DEF xQueueGenericSend, xQueueSemaphoreTake, Done, Failed
    <2>. QED BY <1>2, <2>1
  <1>4. CASE Refuse(c)
    BY <1>2, <1>4 DEF Refuse
  <1>5. CASE GoToWait(c)
    <2>1. SameTime(c, c) /\ Proceeds("suspend", c)
      BY <1>5 DEF GoToWait, To, Proceeds, SameTime
    <2>2. Ages("suspend", c, k.xTickCount, k.xPendedTicks)
      BY <2>1, AgesOnward DEF InQueue, Leaving
    <2>. QED BY <1>1, <2>1, <2>2, CalmAgeing
  <1>6. CASE xQueueReceive(c) \/ xQueuePeek(c)
    <2>1. Finish(c, Received(c.queue)) /\ c.op \in {"receive", "peek"} /\ ~ MustWait(c)
      BY <1>6 DEF xQueueReceive, xQueuePeek
    <2>. QED BY <1>2, <2>1, ItemNotFailed
  <1>. QED BY <1>3, <1>4, <1>5, <1>6 DEF Try

\* A call that begins has all of its time left.
LEMMA BeginsTimely ==
    ASSUME QueueInv, k.uxSchedulerSuspended = 0, NEW r, r.ticks \in 0..portMAX_DELAY,
           NEW c, Begun(c, r)
    PROVE  Ages("try", c, k.xTickCount, k.xPendedTicks)
  <1>1. k.xTickCount \in 0..portMAX_DELAY /\ k.xPendedTicks = 0
    BY DEF QueueInv, CallsOK, KernelOK, Kernel
  <1>2. Wrap \in Nat /\ Wrap > 1 /\ portMAX_DELAY = Wrap - 1
    BY BoundsAssumption DEF portMAX_DELAY
  <1>3. Timely(c, k.xTickCount, 0)
    <2>1. CASE r.ticks = portMAX_DELAY
      BY <2>1 DEF Timely, Begun
    <2>2. CASE r.ticks # portMAX_DELAY
      <3>1. /\ c.asked = r.ticks /\ c.ticks = r.ticks /\ c.waited = 0 /\ ~ c.overflowed
            /\ c.entered = k.xTickCount
        BY <2>2 DEF Begun
      <3>2. Given(c, k.xTickCount, 0) = 0
        BY <1>1, <1>2, <3>1 DEF Given
      <3>. QED BY <1>1, <1>2, <2>2, <3>1, <3>2 DEF Timely
    <2>. QED BY <2>1, <2>2
  <1>4. c.waited \in 0..Wrap
    BY <1>2 DEF Begun
  <1>. QED BY <1>1, <1>3, <1>4 DEF Ages, Leaving

\* A step of a call in which no time passes.
LEMMA CallAges ==
    ASSUME QueueInv, Ageing,
           SuspendAll \/ prvLockQueue \/ xTaskCheckForTimeOut \/ Recheck \/ Inherit \/ Place
           \/ UnlockTx \/ UnlockRx \/ YieldCall \/ Expired \/ DisinheritAfterTimeout \/ ReturnCall
    PROVE  Ageing'
  <1>. DEFINE c == call[cur]
              a == k.xTickCount
              b == k.xPendedTicks
  <1>1. SameClock(k', k)
    <2>1. CASE Place
      BY <2>1, PlacementFacts DEF Joins
    <2>2. CASE ~ Place
      BY <2>2, CalmTimeless DEF Timeless, Briefly
    <2>. QED BY <2>1, <2>2
  <1>2. ASSUME NEW p0 \in InQueue, At(p0)
        PROVE  /\ Ages(p0, c, a, b) /\ c \in CallRecord /\ KernelOK(k)
               /\ p0 \in Patient => c.ticks > 0
    <2>1. Within(p0)
      BY <1>2, WithinCall
    <2>2. cur \in Threads /\ kpc[cur] = p0
      BY <1>2, <2>1 DEF Within, Threads, At
    <2>. QED BY <2>1, <2>2 DEF Within, Ageing
  <1>3. ASSUME NEW p0 \in InQueue, At(p0), NEW p \in InQueue, NEW d, To(p, d), SameTime(d, c),
               p \in {"expired", "disinherit"} \/ (p \in Leaving /\ d.after = "expired") => c.ticks = 0,
               p \in {"recheck", "inherit", "place"} => p0 \in {"recheck", "inherit", "place"}
        PROVE  Ageing'
    <2>1. Ages(p0, c, a, b)
      BY <1>2, <1>3
    <2>. HIDE DEF c, a, b
    <2>2. Ages(p, d, a, b)
      BY <1>3, <2>1, AgesOnward
    <2>. QED BY <1>1, <1>3, <2>2, CalmAgeing DEF To, Proceeds, a, b
  <1>4. SameTime(c, c)
    BY DEF SameTime
  <1>5. CASE SuspendAll
    BY <1>3, <1>4, <1>5 DEF SuspendAll, InQueue, Leaving
  <1>6. CASE prvLockQueue
    BY <1>3, <1>4, <1>6 DEF prvLockQueue, InQueue, Leaving
  <1>7. CASE Recheck
    <2>1. At("recheck")
      BY <1>7 DEF Recheck
    <2>2. SameTime([c EXCEPT !.after = "retry"], c) /\ [c EXCEPT !.after = "retry"].after = "retry"
      <3>1. c \in CallRecord
        BY <1>2, <2>1 DEF InQueue
      <3>. HIDE DEF c
      <3>. QED BY <3>1 DEF CallRecord, SameTime
    <2>3. CASE \E p \in {"inherit", "place"} : To(p, c)
      BY <1>3, <1>4, <2>1, <2>3 DEF InQueue, Leaving
    <2>4. CASE To("unlockTx", [c EXCEPT !.after = "retry"])
      <3>. DEFINE d == [c EXCEPT !.after = "retry"]
      <3>1. To("unlockTx", d) /\ SameTime(d, c) /\ d.after = "retry"
        BY <2>2, <2>4
      <3>. HIDE DEF c, d
      <3>. QED BY <1>3, <2>1, <3>1 DEF InQueue, Leaving
    <2>. QED BY <1>7, <2>3, <2>4 DEF Recheck
  <1>8. CASE Inherit
    <2>1. At("inherit") /\ To("place", [c EXCEPT !.inherited =
                                          InheritanceOccurred(q[c.queue].xMutexHolder)])
      BY <1>8 DEF Inherit
    <2>. DEFINE d == [c EXCEPT !.inherited = InheritanceOccurred(q[c.queue].xMutexHolder)]
    <2>2. SameTime(d, c)
      <3>1. c \in CallRecord
        BY <1>2, <2>1 DEF InQueue
      <3>. HIDE DEF c
      <3>. QED BY <3>1 DEF CallRecord, SameTime
    <2>3. To("place", d)
      BY <2>1
    <2>. HIDE DEF c, d
    <2>. QED BY <1>3, <2>1, <2>2, <2>3 DEF InQueue, Leaving
  <1>9. CASE Place
    <2>1. At("place") /\ To("unlockTx", [c EXCEPT !.after = "block"])
      BY <1>9 DEF Place
    <2>. DEFINE d == [c EXCEPT !.after = "block"]
    <2>2. SameTime(d, c) /\ d.after = "block"
      <3>1. c \in CallRecord
        BY <1>2, <2>1 DEF InQueue
      <3>. HIDE DEF c
      <3>. QED BY <3>1 DEF CallRecord, SameTime
    <2>3. To("unlockTx", d)
      BY <2>1
    <2>. HIDE DEF c, d
    <2>. QED BY <1>3, <2>1, <2>2, <2>3 DEF InQueue, Leaving
  <1>10. CASE UnlockTx \/ UnlockRx
    <2>1. PICK p0 \in {"unlockTx", "unlockRx"} : At(p0) /\ \E p \in {"unlockRx", "resumeCall"} : To(p, c)
      BY <1>10 DEF UnlockTx, UnlockRx
    <2>2. Ages(p0, c, a, b)
      BY <1>2, <2>1 DEF InQueue
    <2>3. c.after = "expired" => c.ticks = 0
      BY <2>2 DEF Ages, Leaving
    <2>. QED BY <1>3, <1>4, <2>1, <2>3 DEF InQueue, Leaving
  <1>11. CASE YieldCall
    BY <1>3, <1>4, <1>11 DEF YieldCall, InQueue, Leaving
  <1>12. CASE Expired \/ DisinheritAfterTimeout
    <2>1. PICK p0 \in {"expired", "disinherit"} : At(p0)
      BY <1>12 DEF Expired, DisinheritAfterTimeout
    <2>2. Ages(p0, c, a, b) /\ c \in CallRecord
      BY <1>2, <2>1 DEF InQueue
    <2>3. c.ticks = 0
      BY <2>2 DEF Ages
    <2>4. ASSUME NEW p \in {"try", "disinherit"}, To(p, c) PROVE Ageing'
      BY <1>3, <1>4, <2>1, <2>3, <2>4 DEF InQueue, Leaving
    <2>5. ASSUME Finish(c, Failed) PROVE Ageing'
      <3>. HIDE DEF c, a, b
      <3>1. Ages("done", Left(c, Failed), a, b)
        BY <2>1, <2>2, <2>3, AgesDone DEF InQueue
      <3>2. Proceeds("done", Left(c, Failed))
        BY <2>5 DEF Finish, To, Proceeds, Left
      <3>. QED BY <1>1, <3>1, <3>2, CalmAgeing DEF a, b
    <2>. QED BY <1>12, <2>4, <2>5 DEF Expired, DisinheritAfterTimeout
  <1>13. CASE ReturnCall
    <2>1. Proceeds("run", NoCall)
      BY <1>13 DEF ReturnCall, To, Proceeds
    <2>2. Ages("run", NoCall, a, b)
      BY AgesNone
    <2>. QED BY <1>1, <2>1, <2>2, CalmAgeing
  <1>14. CASE xTaskCheckForTimeOut
    <2>1. At("check")
      BY <1>14 DEF xTaskCheckForTimeOut
    <2>2. Ages("check", c, a, b) /\ c \in CallRecord /\ c.ticks > 0 /\ KernelOK(k)
      BY <1>2, <2>1 DEF InQueue, Patient
    <2>3. Timely(c, a, b) /\ c.waited \in 0..Wrap
      BY <2>2 DEF Ages, InQueue
    <2>4. c.asked = portMAX_DELAY <=> c.ticks = portMAX_DELAY
      BY <2>2, <2>3, BoundsAssumption DEF Timely, CallRecord, portMAX_DELAY
    <2>5. CASE c.ticks = portMAX_DELAY /\ To("recheck", c)
      <3>1. Ages("recheck", c, a, b)
        BY <2>2, <2>3, <2>4, <2>5 DEF Ages, InQueue, Leaving
      <3>. QED BY <1>1, <2>5, <3>1, CalmAgeing DEF To, Proceeds
    <2>6. CASE c.ticks # portMAX_DELAY /\ ~ TimedOut(c) /\ To("recheck", Remaining(c))
      <3>. DEFINE d == Remaining(c)
      <3>. HIDE DEF c
      <3>0. c.asked # portMAX_DELAY
        BY <2>4, <2>6
      <3>1. c.ticks - Elapsed(c) \in 1..portMAX_DELAY
            /\ \A e : Renewed(e, c) => Timely(e, a, b)
        BY <2>2, <2>3, <2>6, <3>0, RemainingTimely
      <3>2. PICK n, e : n = c.ticks - Elapsed(c) /\ e = a
        OBVIOUS
      <3>3. d = [c EXCEPT !.ticks = n, !.entered = e, !.overflowed = FALSE]
        BY <3>2 DEF Remaining
      <3>4. /\ d.ticks = n /\ d.entered = e /\ d.overflowed = FALSE /\ d.asked = c.asked
            /\ d.waited = c.waited /\ d.op = c.op /\ d.answer = c.answer /\ d.after = c.after
        <4>. HIDE DEF d
        <4>. QED BY <2>2, <3>3 DEF CallRecord
      <3>. HIDE DEF d
      <3>5. Renewed(d, c)
        BY <3>2, <3>4 DEF Renewed
      <3>6. Timely(d, a, b)
        BY <3>1, <3>5
      <3>7. Ages("recheck", d, a, b)
        BY <2>3, <3>2, <3>4, <3>6 DEF Ages, InQueue, Leaving
      <3>8. Proceeds("recheck", d)
        BY <2>6 DEF To, Proceeds, d
      <3>. QED BY <1>1, <3>7, <3>8, CalmAgeing
    <2>7. CASE /\ c.ticks # portMAX_DELAY /\ TimedOut(c)
               /\ To("unlockTx", [c EXCEPT !.ticks = 0, !.after = "expired"])
      <3>. DEFINE d == [c EXCEPT !.ticks = 0, !.after = "expired"]
      <3>0. c.asked # portMAX_DELAY
        BY <2>4, <2>7
      <3>1. c.waited >= c.asked
        <4>. HIDE DEF c
        <4>. QED BY <2>2, <2>3, <2>7, <3>0, TimedOutWaited
      <3>2. /\ d.ticks = 0 /\ d.entered = c.entered /\ d.overflowed = c.overflowed
            /\ d.asked = c.asked /\ d.waited = c.waited /\ d.after = "expired"
        <4>. HIDE DEF c
        <4>. QED BY <2>2 DEF CallRecord
      <3>3. To("unlockTx", d)
        BY <2>7
      <3>. HIDE DEF c, d
      <3>4. c.asked \in Nat
        BY <2>2 DEF CallRecord
      <3>5. Timely(d, a, b)
        BY <2>3, <3>0, <3>1, <3>2, <3>4 DEF Timely
      <3>6. Ages("unlockTx", d, a, b)
        BY <2>3, <3>2, <3>5 DEF Ages, InQueue, Leaving
      <3>. QED BY <1>1, <3>3, <3>6, CalmAgeing DEF To, Proceeds
    <2>. QED BY <1>14, <2>5, <2>6, <2>7 DEF xTaskCheckForTimeOut
  <1>. QED BY <1>5, <1>6, <1>7, <1>8, <1>9, <1>10, <1>11, <1>12, <1>13, <1>14

\* What Overflow makes of the calls.
LEMMA OverflowOlder ==
    ASSUME NEW g \in [Threads -> CallRecord], NEW t \in Threads
    PROVE  /\ HasTimeout(t) => Older(Overflow(g)[t], g[t], g[t].waited, k'.xTickCount < k.xTickCount)
           /\ ~ HasTimeout(t) => Overflow(g)[t] = g[t]
  <1>1. PICK v \in BOOLEAN : v <=> k'.xTickCount < k.xTickCount
    OBVIOUS
  <1>2. PICK h \in BOOLEAN : h <=> HasTimeout(t)
    OBVIOUS
  <1>3. ~ HasTimeout(t) => Overflow(g)[t] = g[t]
    BY DEF Overflow
  <1>4. ASSUME HasTimeout(t)
        PROVE  Older(Overflow(g)[t], g[t], g[t].waited, k'.xTickCount < k.xTickCount)
    <2>1. g[t] \in CallRecord
      OBVIOUS
    <2>2. PICK c \in CallRecord : c = g[t]
      BY <2>1
    <2>3. Overflow(g)[t] = [c EXCEPT !.overflowed = @ \/ (k'.xTickCount < k.xTickCount)]
      BY <1>4, <2>2 DEF Overflow
    <2>4. PICK w \in BOOLEAN : w <=> (c.overflowed \/ k'.xTickCount < k.xTickCount)
      OBVIOUS
    <2>. DEFINE d == Overflow(g)[t]
    <2>5. /\ d.op = c.op /\ d.queue = c.queue /\ d.asked = c.asked /\ d.ticks = c.ticks
          /\ d.entered = c.entered
          /\ d.after = c.after /\ d.answer = c.answer /\ d.waited = c.waited
          /\ d.overflowed = (c.overflowed \/ k'.xTickCount < k.xTickCount)
      <3>. HIDE DEF d
      <3>1. d = [c EXCEPT !.overflowed = @ \/ (k'.xTickCount < k.xTickCount)]
        BY <2>3 DEF d
      <3>. QED BY <3>1 DEF CallRecord
    <2>6. d.overflowed \in BOOLEAN
      BY <2>5
    <2>. HIDE DEF d
    <2>7. Older(d, c, c.waited, k'.xTickCount < k.xTickCount)
      BY <2>5, <2>6 DEF Older
    <2>. QED BY <2>2, <2>7 DEF d
  <1>. QED BY <1>3, <1>4

\* A task at p in the call c, of which the timer leaves call'[t].
Lives(t, p, c, w) ==
    /\ c \in CallRecord /\ kpc'[t] = p /\ (p \in InQueue => c.op # "none")
    /\ Ages(p, c, k.xTickCount, k.xPendedTicks)
    /\ Passing(call'[t], c, w, k'.xTickCount < k.xTickCount)
    /\ Passes(c, w, k.xTickCount, k.xPendedTicks, k'.xTickCount, k'.xPendedTicks)
    /\ p \in {"recheck", "inherit", "place"} => k'.xTickCount = k.xTickCount

\* When the call of every task ages so, all do.
LEMMA LivesOn ==
    ASSUME KernelOK(k), KernelOK(k'), \A t \in Threads : \E p, c, w : Lives(t, p, c, w)
    PROVE  Ageing'
  <1>1. /\ k.xTickCount \in 0..portMAX_DELAY /\ k'.xTickCount \in 0..portMAX_DELAY
        /\ k.xPendedTicks \in Nat
    BY DEF KernelOK, Kernel
  <1>2. ASSUME NEW t \in Threads
        PROVE  Ages(kpc'[t], call'[t], k'.xTickCount, k'.xPendedTicks)
    <2>1. PICK p, c, w : Lives(t, p, c, w)
      OBVIOUS
    <2>. QED BY <1>1, <2>1, AgesPass DEF Lives
  <1>. QED BY <1>2 DEF Ageing

\* A task inside queue.c is in a call.
LEMMA TaskInCall ==
    ASSUME QueueInv, NEW t \in Threads
    PROVE  /\ call[t] \in CallRecord /\ (kpc[t] \in InQueue => call[t].op # "none")
           /\ (kpc[t] \in Alone => t = cur /\ k.uxSchedulerSuspended = 1)
  <1>1. call[t] \in CallRecord /\ CalledAt(t, kpc[t], call[t], arg[t]) /\ Suspension(k, kpc)
    BY DEF QueueInv, CallsOK, InCalls
  <1>2. kpc[t] \in InQueue => call[t].op # "none"
    BY <1>1 DEF CalledAt, Legal, Ops, Senders, Receivers
  <1>3. kpc[t] \in Alone => t = k.pxCurrentTCB /\ k.uxSchedulerSuspended = 1
    <2>1. \A u \in Threads : kpc[u] \in Alone => u = k.pxCurrentTCB
      BY <1>1 DEF Suspension
    <2>2. kpc[k.pxCurrentTCB] \in Alone => k.uxSchedulerSuspended = 1
      BY <1>1 DEF Suspension
    <2>. QED BY <2>1, <2>2
  <1>. QED BY <1>1, <1>2, <1>3 DEF cur

\* A step keeps the kernel in order.
LEMMA NextKernel == QueueInv /\ QueueNext => KernelOK(k) /\ KernelOK(k')
  BY QueueStepKept DEF Kept, QueueInv, CallsOK

\* The calls of the timer interrupt.
LEMMA TickCalls ==
    ASSUME QueueInv, Tick, NEW t \in Threads
    PROVE  Passing(call'[t], call[t], Counted(call[t].waited), k'.xTickCount < k.xTickCount)
  <1>. DEFINE g == [u \in Threads |->
                  IF HasTimeout(u) THEN [call[u] EXCEPT !.waited = Counted(@)] ELSE call[u]]
  <1>1. call' = Overflow(g)
    BY DEF Tick
  <1>2. ASSUME NEW u \in Threads
        PROVE  /\ g[u] \in CallRecord /\ (~ HasTimeout(u) => g[u] = call[u])
               /\ HasTimeout(u) =>
                    /\ g[u].op = call[u].op /\ g[u].queue = call[u].queue
                    /\ g[u].asked = call[u].asked
                    /\ g[u].ticks = call[u].ticks /\ g[u].entered = call[u].entered
                    /\ g[u].after = call[u].after /\ g[u].answer = call[u].answer
                    /\ g[u].overflowed = call[u].overflowed
                    /\ g[u].waited = Counted(call[u].waited)
    <2>1. PICK c \in CallRecord : c = call[u]
      BY IsrFacts
    <2>2. PICK i \in Nat : i = Counted(c.waited)
      BY DEF Counted, CallRecord
    <2>3. g[u] = IF HasTimeout(u) THEN [c EXCEPT !.waited = i] ELSE c
      BY <2>1, <2>2
    <2>. HIDE DEF g
    <2>. QED BY <2>1, <2>2, <2>3 DEF CallRecord
  <1>3. g \in [Threads -> CallRecord]
    <2>1. DOMAIN g = Threads /\ g = [u \in Threads |-> g[u]]
      OBVIOUS
    <2>. HIDE DEF g
    <2>. QED BY <1>2, <2>1
  <1>. HIDE DEF g
  <1>4. PICK o \in BOOLEAN : o <=> k'.xTickCount < k.xTickCount
    OBVIOUS
  <1>5. /\ HasTimeout(t) => Older(call'[t], g[t], g[t].waited, k'.xTickCount < k.xTickCount)
        /\ ~ HasTimeout(t) => call'[t] = g[t]
    BY <1>1, <1>3, OverflowOlder
  <1>6. CASE HasTimeout(t)
    <2>1. Older(call'[t], call[t], Counted(call[t].waited), k'.xTickCount < k.xTickCount)
      BY <1>2, <1>5, <1>6 DEF Older
    <2>. QED BY <1>6, <2>1 DEF Passing, HasTimeout
  <1>7. CASE ~ HasTimeout(t)
    BY <1>2, <1>5, <1>7 DEF Passing, HasTimeout
  <1>. QED BY <1>6, <1>7

\* The timer interrupt.
LEMMA TickAgeing ==
    ASSUME QueueInv, QueueNext, Tick, Ageing
    PROVE  Ageing'
  <1>1. PICK m : Aged(m, k) /\ Gentle(k', m)
    BY TickEffect
  <1>2. \/ /\ k.uxSchedulerSuspended = 0 /\ k'.xPendedTicks = k.xPendedTicks
           /\ k'.xTickCount = Advanced(k.xTickCount, 1)
        \/ k'.xPendedTicks = k.xPendedTicks + 1 /\ k'.xTickCount = k.xTickCount
    BY <1>1 DEF Aged, Gentle, SameClock
  <1>3. kpc' = kpc
    BY DEF Tick, TickIsr, Stay
  <1>4. ASSUME NEW t \in Threads
        PROVE  Lives(t, kpc[t], call[t], Counted(call[t].waited))
    <2>1. call[t] \in CallRecord /\ (kpc[t] \in InQueue => call[t].op # "none")
          /\ (kpc[t] \in Alone => k.uxSchedulerSuspended = 1)
      BY TaskInCall
    <2>2. kpc[t] \in {"recheck", "inherit", "place"} => k'.xTickCount = k.xTickCount
      BY <1>2, <2>1 DEF Alone
    <2>3. Ages(kpc[t], call[t], k.xTickCount, k.xPendedTicks)
      BY DEF Ageing
    <2>4. PICK w : w = Counted(call[t].waited)
      OBVIOUS
    <2>5. Passes(call[t], w, k.xTickCount, k.xPendedTicks, k'.xTickCount, k'.xPendedTicks)
      BY <1>2, <2>4 DEF Passes
    <2>6. Passing(call'[t], call[t], w, k'.xTickCount < k.xTickCount)
      BY <2>4, TickCalls
    <2>. QED BY <1>3, <2>1, <2>2, <2>3, <2>4, <2>5, <2>6 DEF Lives
  <1>. QED BY <1>4, NextKernel, LivesOn

\* The calls, when the ticks that were put off are counted.
LEMMA ResumedCalls ==
    ASSUME QueueInv, ResumeCall \/ ResumeAndYield, NEW g \in [Threads -> CallRecord],
           call' = Overflow(g), NEW t \in Threads,
           g[t].op = call[t].op, g[t].asked = call[t].asked
    PROVE  /\ Passing(call'[t], g[t], g[t].waited, k'.xTickCount < k.xTickCount)
           /\ Passes(g[t], g[t].waited, k.xTickCount, k.xPendedTicks, k'.xTickCount, k'.xPendedTicks)
  <1>1. Continued(k', k)
    BY ResumptionFacts
  <1>2. Passes(g[t], g[t].waited, k.xTickCount, k.xPendedTicks, k'.xTickCount, k'.xPendedTicks)
    BY <1>1 DEF Continued, Passes
  <1>3. /\ HasTimeout(t) => Older(call'[t], g[t], g[t].waited, k'.xTickCount < k.xTickCount)
        /\ ~ HasTimeout(t) => call'[t] = g[t]
    BY OverflowOlder
  <1>4. HasTimeout(t) <=> g[t].op # "none" /\ g[t].asked # portMAX_DELAY
    BY DEF HasTimeout
  <1>5. Passing(call'[t], g[t], g[t].waited, k'.xTickCount < k.xTickCount)
    BY <1>3, <1>4 DEF Passing
  <1>. QED BY <1>2, <1>5

\* the running task, in the call c, goes on at p, and the calls g see the ticks counted
CarriesOn(g, p, c) ==
    /\ call' = Overflow(g)
    /\ kpc' = [kpc EXCEPT ![cur] = p] /\ cur \in Threads
    /\ \A t \in Threads : t # cur => g[t] = call[t]
    /\ g[cur].op = c.op /\ g[cur].asked = c.asked
    /\ (p \in InQueue => c.op # "none")
    /\ p \notin {"recheck", "inherit", "place"}
    /\ Ages(p, g[cur], k.xTickCount, k.xPendedTicks)

\* xTaskResumeAll in a call that has waited, or at the end of vTaskDelay.
LEMMA ResumeAgeing ==
    ASSUME QueueInv, QueueNext, ResumeCall \/ (ResumeAndYield /\ call' = Overflow(call)), Ageing
    PROVE  Ageing'
  <1>. DEFINE c == call[cur]
              d == [c EXCEPT !.after = "none"]
  <1>1. \E g \in [Threads -> CallRecord] : \E p : CarriesOn(g, p, c)
    <2>1. CASE ResumeCall
      <3>1. PICK p \in {"try", "yieldCall", "expired"} :
                /\ kpc' = [kpc EXCEPT ![cur] = p] /\ call' = Overflow([call EXCEPT ![cur] = d])
                /\ p = "expired" => c.after = "expired"
        BY <2>1 DEF ResumeCall
      <3>2. At("resumeCall") /\ Within("resumeCall")
        BY <2>1, WithinCall DEF ResumeCall, InQueue
      <3>3. c \in CallRecord /\ cur \in Threads /\ kpc[cur] = "resumeCall" /\ Legal(c)
        BY <3>2 DEF Within, Threads, At
      <3>4. d \in CallRecord /\ SameTime(d, c) /\ d.after = "none"
        <4>. HIDE DEF c
        <4>. QED BY <3>3 DEF CallRecord, SameTime
      <3>5. c.op # "none"
        BY <3>3 DEF Legal, Ops, Senders, Receivers
      <3>6. Ages("resumeCall", c, k.xTickCount, k.xPendedTicks)
        BY <3>3 DEF Ageing
      <3>7. c.after = "expired" => c.ticks = 0
        BY <3>6 DEF Ages, Leaving
      <3>. HIDE DEF c, d
      <3>8. Ages(p, d, k.xTickCount, k.xPendedTicks)
        BY <3>1, <3>4, <3>6, <3>7, AgesOnward DEF InQueue, Leaving
      <3>. DEFINE g == [call EXCEPT ![cur] = d]
      <3>9. g \in [Threads -> CallRecord] /\ g[cur] = d /\ \A t \in Threads : t # cur => g[t] = call[t]
        BY <3>3, <3>4, IsrFacts
      <3>. HIDE DEF g
      <3>10. call' = Overflow(g)
        BY <3>1 DEF g
      <3>11. g[cur].op = c.op /\ g[cur].asked = c.asked
        BY <3>4, <3>9 DEF SameTime
      <3>. QED BY <3>1, <3>2, <3>3, <3>5, <3>8, <3>9, <3>10, <3>11 DEF InQueue, CarriesOn
    <2>2. CASE ResumeAndYield /\ call' = Overflow(call)
      <3>1. PICK p \in {"run", "yield"} : kpc' = [kpc EXCEPT ![cur] = p]
        BY <2>2 DEF ResumeAndYield, Goto
      <3>2. At("resume") /\ Finds(cur, "resume")
        BY <2>2, AtFinds DEF ResumeAndYield, cur
      <3>3. cur \in Threads /\ kpc[cur] = "resume"
        BY <3>2 DEF Finds
      <3>4. Ages("resume", c, k.xTickCount, k.xPendedTicks)
        BY <3>3 DEF Ageing
      <3>5. c = NoCall
        BY <3>4 DEF Ages
      <3>6. Ages(p, NoCall, k.xTickCount, k.xPendedTicks)
        BY AgesNone
      <3>7. p \notin InQueue
        BY DEF InQueue
      <3>. HIDE DEF d
      <3>. QED BY <2>2, <3>1, <3>2, <3>3, <3>5, <3>6, <3>7, IsrFacts DEF CarriesOn
    <2>. QED BY <2>1, <2>2
  <1>. HIDE DEF d
  <1>3. PICK g \in [Threads -> CallRecord] : \E p : CarriesOn(g, p, c)
    BY <1>1
  <1>4. PICK p : CarriesOn(g, p, c)
    BY <1>3
  <1>. HIDE DEF c
  <1>2. ASSUME NEW t \in Threads
        PROVE  \E r, e, w : Lives(t, r, e, w)
    <2>1. DOMAIN kpc = Threads
      BY DEF QueueInv, CallsOK, InCalls
    <2>2. call[t] \in CallRecord /\ (kpc[t] \in InQueue => call[t].op # "none")
          /\ (kpc[t] \in Alone => t = cur)
      BY TaskInCall
    <2>3. g[t].op = call[t].op /\ g[t].asked = call[t].asked /\ g[t] \in CallRecord
      BY <1>4 DEF c, CarriesOn
    <2>4. /\ Passing(call'[t], g[t], g[t].waited, k'.xTickCount < k.xTickCount)
          /\ Passes(g[t], g[t].waited, k.xTickCount, k.xPendedTicks, k'.xTickCount, k'.xPendedTicks)
      BY <1>4, <2>3, ResumedCalls DEF CarriesOn
    <2>. DEFINE r == IF t = cur THEN p ELSE kpc[t]
    <2>5. kpc'[t] = r
      BY <1>4, <2>1 DEF CarriesOn
    <2>6. Ages(r, g[t], k.xTickCount, k.xPendedTicks)
      BY <1>4 DEF Ageing, CarriesOn
    <2>7. (r \in InQueue => g[t].op # "none") /\ r \notin {"recheck", "inherit", "place"}
      BY <1>4, <2>2, <2>3 DEF Alone, c, CarriesOn
    <2>. HIDE DEF r
    <2>8. Lives(t, r, g[t], g[t].waited)
      BY <2>3, <2>4, <2>5, <2>6, <2>7 DEF Lives
    <2>. QED BY <2>8
  <1>. QED BY <1>2, NextKernel, LivesOn

\* Delays and yields, which are no call of a queue.
LEMMA OutsideAgeing ==
    ASSUME QueueInv, Ageing, call' = call,
           (\E n \in Delays : vTaskDelay(n)) \/ AddToDelayedList \/ portYIELD_WITHIN_API \/ IdleYield
    PROVE  Ageing'
  <1>1. SameClock(k', k)
    <2>1. CASE AddToDelayedList
      BY <2>1, DelayFacts DEF Joins
    <2>2. CASE ~ AddToDelayedList
      BY <2>2, BrieflyGentle DEF Briefly, Gentle
    <2>. QED BY <2>1, <2>2
  <1>2. PICK p0, p \in {"run", "add", "resume", "yield"} : At(p0) /\ kpc' = [kpc EXCEPT ![cur] = p]
    <2>1. kpc \in [Threads -> QueueKpcs]
      BY DEF QueueInv, CallsOK, InCalls
    <2>2. ASSUME NEW n \in Delays, vTaskDelay(n)
          PROVE  At("run") /\ \E p \in {"add", "yield"} : kpc' = [kpc EXCEPT ![cur] = p]
      BY <2>2 DEF vTaskDelay, Call, Goto
    <2>3. CASE AddToDelayedList
      BY <2>3 DEF AddToDelayedList, Goto
    <2>4. CASE portYIELD_WITHIN_API
      BY <2>4 DEF portYIELD_WITHIN_API, Return, Goto
    <2>5. CASE IdleYield
      BY <2>1, <2>5 DEF IdleYield, At
    <2>. QED BY <2>2, <2>3, <2>4, <2>5
  <1>3. cur \in Threads /\ kpc[cur] = p0
    BY <1>2, AtFinds DEF Finds, cur
  <1>4. call[cur] = NoCall
    BY <1>2, <1>3 DEF Ageing, Ages
  <1>5. Proceeds(p, NoCall)
    <2>1. call = [call EXCEPT ![cur] = NoCall]
      BY <1>3, <1>4, IsrFacts
    <2>. QED BY <1>2, <2>1 DEF Proceeds
  <1>6. Ages(p, NoCall, k.xTickCount, k.xPendedTicks)
    BY AgesNone
  <1>. QED BY <1>1, <1>5, <1>6, CalmAgeing

\* Interrupts other than the timer's.
LEMMA IsrAgeing ==
    ASSUME QueueInv, Ageing, kpc' = kpc, call' = call,
           YieldIsr \/ \E r \in IsrRequests : xQueueGenericSendFromISR(r) \/ xQueueReceiveFromISR(r)
    PROVE  Ageing'
  <1>1. SameClock(k', k)
    <2>1. CASE YieldIsr
      BY <2>1, BrieflyGentle DEF Briefly, Gentle
    <2>2. CASE ~ YieldIsr
      BY <2>2, IsrTimeless DEF Timeless
    <2>. QED BY <2>1, <2>2
  <1>. QED BY <1>1 DEF Ageing, SameClock

\* A call is made.
LEMMA StartAgeing ==
    ASSUME QueueInv, Ageing, NEW r \in Requests, Start(r), UNCHANGED load
    PROVE  Ageing'
  <1>. DEFINE d == NewCall(r)
  <1>1. Tries("run", d) /\ Try(d) /\ Begun(d, r) /\ r.ticks \in 0..portMAX_DELAY
    BY StartTries
  <1>2. PICK c : c = d
    OBVIOUS
  <1>. HIDE DEF d
  <1>3. k.uxSchedulerSuspended = 0
    BY <1>1, TriesFacts
  <1>4. Ages("try", c, k.xTickCount, k.xPendedTicks)
    BY <1>1, <1>2, <1>3, BeginsTimely
  <1>. QED BY <1>1, <1>2, <1>4, TryAges

\* It looks again.
LEMMA RetryAgeing ==
    ASSUME QueueInv, Ageing, Retry, UNCHANGED load
    PROVE  Ageing'
  <1>1. Tries("try", call[cur]) /\ Try(call[cur])
    BY RetryTries
  <1>2. PICK c : c = call[cur]
    OBVIOUS
  <1>3. cur \in Threads /\ kpc[cur] = "try"
    BY AtFinds DEF Retry, Finds, cur
  <1>4. Ages("try", c, k.xTickCount, k.xPendedTicks)
    BY <1>2, <1>3 DEF Ageing
  <1>. QED BY <1>1, <1>2, <1>4, TryAges

\* Every step keeps the ages of the calls.
LEMMA AgeingStep ==
    ASSUME QueueInv, Ageing, QueueNext
    PROVE  Ageing'
  <1>0. UNCHANGED load
    BY DEF QueueNext
  <1>1. CASE QueueCall
    <2>1. ASSUME NEW r \in Requests, Start(r) PROVE Ageing'
      BY <1>0, <2>1, StartAgeing
    <2>2. CASE Retry
      BY <1>0, <2>2, RetryAgeing
    <2>3. CASE ResumeCall
      BY <2>3, ResumeAgeing
    <2>4. CASE (Waiting /\ ~ ResumeCall) \/ ReturnCall
      BY <2>4, CallAges DEF Waiting
    <2>. QED BY <1>1, <2>1, <2>2, <2>3, <2>4 DEF QueueCall
  <1>2. CASE Delaying
    <2>1. CASE ((\E n \in Delays : vTaskDelay(n)) \/ AddToDelayedList \/ portYIELD_WITHIN_API
                 \/ IdleYield) /\ UNCHANGED qvars
      BY <2>1, OutsideAgeing DEF qvars
    <2>2. CASE YieldIsr /\ UNCHANGED qvars
      BY <2>2, IsrAgeing DEF qvars, YieldIsr, Stay
    <2>3. CASE ResumeAndYield /\ call' = Overflow(call) /\ UNCHANGED <<q, held>>
      BY <2>3, ResumeAgeing
    <2>. QED BY <1>2, <2>1, <2>2, <2>3 DEF Delaying
  <1>3. CASE QueueIsr
    BY <1>3, IsrAgeing DEF QueueIsr, xQueueGenericSendFromISR, xQueueReceiveFromISR
  <1>4. CASE Tick
    BY <1>4, TickAgeing
  <1>. QED BY <1>1, <1>2, <1>3, <1>4 DEF QueueNext

(***************************************************************************)
(* How long a call stays blocked.                                          *)
(***************************************************************************)
\* what is left of the delay of a task in the call c is left of what it asked for
Due(c, n) == c.op # "none" /\ c.asked # portMAX_DELAY /\ n > 0 =>
                 c.waited = Wrap \/ n + c.waited = c.asked
Dues == \E l \in Delays0(k) : \A t \in Threads : Due(call[t], l[t])

\* the call c, or none
Lasting(d, c) == d.op = "none" \/ (d.op = c.op /\ d.asked = c.asked /\ d.waited = c.waited)

\* A task that is ready has no delay.
LEMMA ReadyNoDelay ==
    ASSUME KernelOK(k), NEW l \in Delays0(k), IsReady(k, cur)
    PROVE  cur \in Threads /\ l[cur] = 0
  <1>1. cur \in Threads /\ TaskOK(k, cur)
    BY DEF KernelOK, Kernel, ListsOK, cur
  <1>2. cur \notin DOwn(k) /\ cur \notin OOwn(k)
    BY <1>1 DEF TaskOK, Asleep
  <1>3. l[cur] \in Nat /\ (l[cur] > 0 => cur \in DOwn(k) \/ cur \in OOwn(k))
    BY <1>1 DEF Delays0, LeftOK
  <1>. QED BY <1>1, <1>2, <1>3

\* No time passes, and the calls last, but for one of a task that is ready.
LEMMA CalmDues ==
    ASSUME QueueInv, Dues, Timeless(k', k),
           \A t \in Threads : (t = cur /\ IsReady(k, cur)) \/ Lasting(call'[t], call[t])
    PROVE  Dues'
  <1>1. PICK l \in Delays0(k) : \A t \in Threads : Due(call[t], l[t])
    BY DEF Dues
  <1>2. PICK h \in Delays0(k') : NoLonger(h, l)
    BY DEF Timeless, Shortens
  <1>3. KernelOK(k)
    BY IsrFacts
  <1>4. ASSUME NEW t \in Threads PROVE Due(call'[t], h[t])
    <2>1. CASE t = cur /\ IsReady(k, cur)
      BY <1>2, <1>3, <2>1, ReadyNoDelay DEF NoLonger, Due
    <2>2. CASE Lasting(call'[t], call[t])
      BY <1>1, <1>2, <2>2 DEF NoLonger, Lasting, Due
    <2>. QED BY <2>1, <2>2
  <1>. QED BY <1>2, <1>4 DEF Dues

\* The step of a task in a call does not touch what it asked for.
LEMMA OneLasts ==
    ASSUME QueueInv, NEW d, Lasting(d, call[cur]), call' = [call EXCEPT ![cur] = d]
    PROVE  \A t \in Threads : Lasting(call'[t], call[t])
  <1>1. DOMAIN call = Threads
    BY IsrFacts
  <1>2. ASSUME NEW t \in Threads PROVE Lasting(call'[t], call[t])
    <2>1. CASE t = cur
      BY <1>1, <2>1
    <2>2. CASE t # cur
      <3>1. call'[t] = call[t]
        BY <1>1, <2>2
      <3>. QED BY <3>1 DEF Lasting
    <2>. QED BY <2>1, <2>2
  <1>. QED BY <1>2

\* A call that is left, or never was, has no timeout to keep to.
LEMMA LeftLasts == \A c, v : Lasting(Left(c, v), c) /\ Lasting(NoCall, c) /\ Lasting(c, c)
  BY DEF Left, NoCall, Lasting

\* The locals of a call say nothing of the time it asked for.
LEMMA LocalsLast ==
    ASSUME NEW c \in CallRecord
    PROVE  /\ \A v : Lasting([c EXCEPT !.after = v], c)
           /\ \A v : Lasting([c EXCEPT !.inherited = v], c)
           /\ \A v, w : Lasting([c EXCEPT !.ticks = v, !.after = w], c)
  BY DEF CallRecord, Lasting

\* The way through a call does not touch what it asked for.
LEMMA CallLasts ==
    ASSUME QueueInv,
           SuspendAll \/ prvLockQueue \/ xTaskCheckForTimeOut \/ Recheck \/ Inherit \/ Place
           \/ UnlockTx \/ UnlockRx \/ YieldCall \/ Expired \/ DisinheritAfterTimeout \/ ReturnCall
    PROVE  \A t \in Threads : Lasting(call'[t], call[t])
  <1>1. PICK c \in CallRecord : c = call[cur]
    BY IsrFacts DEF KernelOK, Kernel, cur
  <1>2. \E d : Lasting(d, c) /\ call' = [call EXCEPT ![cur] = d]
    <2>1. CASE SuspendAll \/ prvLockQueue \/ UnlockTx \/ UnlockRx \/ YieldCall
      <3>1. call' = [call EXCEPT ![cur] = c]
        BY <1>1, <2>1 DEF SuspendAll, prvLockQueue, UnlockTx, UnlockRx, YieldCall, To
      <3>. QED BY <3>1, LeftLasts
    <2>2. CASE xTaskCheckForTimeOut
      <3>1. \/ call' = [call EXCEPT ![cur] = c] \/ call' = [call EXCEPT ![cur] = Remaining(c)]
            \/ call' = [call EXCEPT ![cur] = [c EXCEPT !.ticks = 0, !.after = "expired"]]
        BY <1>1, <2>2 DEF xTaskCheckForTimeOut, To
      <3>2. Lasting(Remaining(c), c)
        <4>1. PICK n, e : n = c.ticks - Elapsed(c) /\ e = k.xTickCount
          OBVIOUS
        <4>2. Remaining(c) = [c EXCEPT !.ticks = n, !.entered = e, !.overflowed = FALSE]
          BY <4>1 DEF Remaining
        <4>. DEFINE d == [c EXCEPT !.ticks = n, !.entered = e, !.overflowed = FALSE]
        <4>3. d.op = c.op /\ d.asked = c.asked /\ d.waited = c.waited
          BY DEF CallRecord
        <4>. HIDE DEF d
        <4>4. Lasting(d, c)
          BY <4>3 DEF Lasting
        <4>. QED BY <4>2, <4>4 DEF d
      <3>. QED BY <3>1, <3>2, LeftLasts, LocalsLast
    <2>3. CASE Recheck
      <3>1. call' = [call EXCEPT ![cur] = c]
            \/ call' = [call EXCEPT ![cur] = [c EXCEPT !.after = "retry"]]
        BY <1>1, <2>3 DEF Recheck, To
      <3>. QED BY <3>1, LeftLasts, LocalsLast
    <2>4. CASE Inherit
      <3>1. PICK v : call' = [call EXCEPT ![cur] = [c EXCEPT !.inherited = v]]
        BY <1>1, <2>4 DEF Inherit, To
      <3>. QED BY <3>1, LocalsLast
    <2>5. CASE Place
      <3>1. call' = [call EXCEPT ![cur] = [c EXCEPT !.after = "block"]]
        BY <1>1, <2>5 DEF Place, To
      <3>. QED BY <3>1, LocalsLast
    <2>6. CASE Expired \/ DisinheritAfterTimeout
      <3>1. call' = [call EXCEPT ![cur] = c] \/ call' = [call EXCEPT ![cur] = Left(c, Failed)]
        BY <1>1, <2>6 DEF Expired, DisinheritAfterTimeout, Finish, To, Left
      <3>. QED BY <3>1, LeftLasts
    <2>7. CASE ReturnCall
      <3>1. call' = [call EXCEPT ![cur] = NoCall]
        BY <2>7 DEF ReturnCall, To
      <3>. QED BY <3>1, LeftLasts
    <2>. QED BY <2>1, <2>2, <2>3, <2>4, <2>5, <2>6, <2>7
  <1>. QED BY <1>1, <1>2, OneLasts

\* A try is made by a task that is ready.
LEMMA TryDues ==
    ASSUME NEW p0, NEW c, Tries(p0, c), Try(c), Dues
    PROVE  Dues'
  <1>1. QueueInv /\ IsReady(k, cur) /\ Timeless(k', k)
    BY TriesFacts, TryTimeless DEF Tries, cur
  <1>2. \E d : call' = [call EXCEPT ![cur] = d]
    BY DEF Try, xQueueGenericSend, xQueueReceive, xQueueSemaphoreTake, xQueuePeek, Refuse,
           GoToWait, Finish, To
  <1>3. \A t \in Threads : t = cur \/ call'[t] = call[t]
    BY <1>1, <1>2, IsrFacts
  <1>4. \A d : Lasting(d, d)
    BY DEF Lasting
  <1>. QED BY <1>1, <1>3, <1>4, CalmDues

\* A task is placed in an event list with the time that is left to it.
LEMMA PlaceDues ==
    ASSUME QueueInv, Place, Ageing, Dues
    PROVE  Dues'
  <1>. DEFINE c == call[cur]
  <1>1. \A t \in Threads : Lasting(call'[t], call[t])
    BY CallLasts
  <1>2. PICK l \in Delays0(k) : \A t \in Threads : Due(call[t], l[t])
    BY DEF Dues
  <1>3. Within("place") /\ c.ticks \in 1..portMAX_DELAY
        /\ \E E : Joins(k', k, cur, E, c.ticks, TRUE)
    BY PlacementFacts
  <1>4. PICK h \in Delays0(k') : Blocked(h, l, cur, c.ticks, TRUE, k.xPendedTicks)
    BY <1>2, <1>3 DEF Joins
  <1>5. cur \in Threads /\ kpc[cur] = "place" /\ c \in CallRecord
        /\ k.xTickCount \in 0..portMAX_DELAY /\ k.xPendedTicks \in Nat
    BY <1>3 DEF Within, Threads, At, KernelOK, Kernel
  <1>6. Ages("place", c, k.xTickCount, k.xPendedTicks)
    BY <1>5 DEF Ageing
  <1>. HIDE DEF c
  <1>7. Due(c, h[cur])
    <2>1. SUFFICES ASSUME c.asked # portMAX_DELAY, h[cur] > 0
                   PROVE  c.waited = Wrap \/ h[cur] + c.waited = c.asked
      BY DEF Due
    <2>2. h[cur] = 0 \/ h[cur] = LeftOf(c.ticks, k.xPendedTicks)
      BY <1>4, <1>5 DEF Blocked
    <2>3. PICK x, b, n, w, a \in Nat : x = c.ticks /\ b = k.xPendedTicks /\ n = c.asked
                                    /\ w = c.waited /\ a = k.xTickCount
      BY <1>5, BoundsAssumption DEF CallRecord, portMAX_DELAY
    <2>4. h[cur] = x - b
      BY <2>1, <2>2, <2>3 DEF LeftOf
    <2>5. Timely(c, a, b) /\ ~ c.overflowed /\ c.entered = a /\ x > 0
      BY <1>3, <1>6, <2>1, <2>3 DEF Ages, InQueue
    <2>6. w = Wrap \/ w = n - x + b
      BY <2>1, <2>3, <2>5 DEF Timely, Given
    <2>. QED BY <2>3, <2>4, <2>6
  <1>8. ASSUME NEW t \in Threads PROVE Due(call'[t], h[t])
    <2>1. Due(call[t], h[t])
      BY <1>2, <1>4, <1>5, <1>7 DEF Blocked, c
    <2>. QED BY <1>1, <2>1 DEF Lasting, Due
  <1>. QED BY <1>8 DEF Dues

\* vTaskDelay is in no call.
LEMMA AddDues ==
    ASSUME QueueInv, AddToDelayedList, call' = call, Ageing, Dues
    PROVE  Dues'
  <1>1. PICK l \in Delays0(k) : \A t \in Threads : Due(call[t], l[t])
    BY DEF Dues
  <1>2. \E n : Joins(k', k, cur, {}, n, FALSE)
    BY DelayFacts
  <1>3. PICK h \in Delays0(k') : \E n : Blocked(h, l, cur, n, FALSE, k.xPendedTicks)
    BY <1>1, <1>2 DEF Joins
  <1>4. cur \in Threads /\ kpc[cur] = "add"
    BY AtFinds DEF AddToDelayedList, Finds, cur
  <1>5. call[cur].op = "none"
    <2>1. call[cur] = NoCall
      BY <1>4 DEF Ageing, Ages
    <2>. QED BY <2>1, AgesNone
  <1>6. \A t \in Threads : Due(call'[t], h[t])
    BY <1>1, <1>3, <1>5 DEF Blocked, Due
  <1>. QED BY <1>6 DEF Dues

\* What was asked for, and waited, when the ticks put off are counted.
LEMMA ResumeDues ==
    ASSUME QueueInv, ResumeCall \/ (ResumeAndYield /\ call' = Overflow(call)), Dues
    PROVE  Dues'
  <1>1. \A t \in Threads : Lasting(call'[t], call[t])
    <2>1. PICK g \in [Threads -> CallRecord] :
              call' = Overflow(g) /\ \A t \in Threads : Lasting(g[t], call[t])
      <3>1. CASE ResumeCall
        <4>1. PICK c \in CallRecord : c = call[cur]
          BY IsrFacts DEF KernelOK, Kernel, cur
        <4>. DEFINE d == [c EXCEPT !.after = "none"]
                    g == [call EXCEPT ![cur] = d]
        <4>2. call' = Overflow(g)
          BY <3>1, <4>1 DEF ResumeCall
        <4>3. d \in CallRecord /\ Lasting(d, c)
          BY LocalsLast DEF CallRecord
        <4>. HIDE DEF d
        <4>4. g \in [Threads -> CallRecord] /\ \A t \in Threads : g[t] = IF t = cur THEN d ELSE call[t]
          BY <4>3, IsrFacts
        <4>. HIDE DEF g
        <4>5. \A t \in Threads : Lasting(g[t], call[t])
          BY <4>1, <4>3, <4>4 DEF Lasting
        <4>. QED BY <4>2, <4>4, <4>5
      <3>2. CASE call' = Overflow(call)
        BY <3>2, IsrFacts, LeftLasts
      <3>. QED BY <3>1, <3>2
    <2>2. ASSUME NEW t \in Threads PROVE Lasting(call'[t], g[t])
      BY <2>1, OverflowOlder DEF Older, Lasting
    <2>. QED BY <2>1, <2>2 DEF Lasting
  <1>2. Shortens(k', k)
    BY ResumptionFacts DEF Continued
  <1>3. PICK l \in Delays0(k) : \A t \in Threads : Due(call[t], l[t])
    BY DEF Dues
  <1>4. PICK h \in Delays0(k') : NoLonger(h, l)
    BY <1>2 DEF Shortens
  <1>5. \A t \in Threads : Due(call'[t], h[t])
    BY <1>1, <1>3, <1>4 DEF NoLonger, Lasting, Due
  <1>. QED BY <1>5 DEF Dues

\* The timer counts for the delay and for the call alike.
LEMMA TickDues ==
    ASSUME QueueInv, Tick, Ageing, Dues
    PROVE  Dues'
  <1>1. PICK m : Aged(m, k) /\ Gentle(k', m)
    BY TickEffect
  <1>2. PICK l \in Delays0(k) : \A t \in Threads : Due(call[t], l[t])
    BY DEF Dues
  <1>3. OneLess(l) \in Delays0(m)
    BY <1>1, <1>2 DEF Aged
  <1>4. PICK h \in Delays0(k') : NoLonger(h, OneLess(l))
    BY <1>1, <1>3 DEF Gentle, Shortens
  <1>5. ASSUME NEW t \in Threads PROVE Due(call'[t], h[t])
    <2>1. l[t] \in Nat /\ (h[t] > 0 => l[t] > 0 /\ h[t] = l[t] - 1)
      BY <1>4 DEF NoLonger, OneLess, Delays0
    <2>2. PICK c, d : c = call[t] /\ d = call'[t]
      OBVIOUS
    <2>3. Passing(d, c, Counted(c.waited), k'.xTickCount < k.xTickCount)
      BY <2>2, TickCalls
    <2>4. c.waited \in 0..Wrap /\ Due(c, l[t]) /\ c \in CallRecord /\ Wrap \in Nat
      BY <1>2, <2>2, IsrFacts, BoundsAssumption DEF Ageing, Ages
    <2>5. CASE c.op # "none" /\ c.asked # portMAX_DELAY
      <3>1. d.op = c.op /\ d.asked = c.asked /\ d.waited = Counted(c.waited)
        BY <2>3, <2>5 DEF Passing, Older
      <3>2. c.asked \in Nat
        BY <2>4, BoundsAssumption DEF CallRecord, portMAX_DELAY
      <3>. QED BY <2>1, <2>2, <2>4, <2>5, <3>1, <3>2 DEF Due, Counted
    <2>6. CASE ~ (c.op # "none" /\ c.asked # portMAX_DELAY)
      <3>1. d = c
        BY <2>3, <2>6 DEF Passing
      <3>. QED BY <2>2, <2>6, <3>1 DEF Due
    <2>. QED BY <2>5, <2>6
  <1>. QED BY <1>5 DEF Dues

\* Every step keeps them.
LEMMA DuesStep ==
    ASSUME QueueInv, Ageing, Dues, QueueNext
    PROVE  Dues'
  <1>0. UNCHANGED load /\ \A d : Lasting(d, d)
    BY DEF QueueNext, Lasting
  <1>1. CASE QueueCall
    <2>1. ASSUME NEW r \in Requests, Start(r) PROVE Dues'
      <3>1. PICK c : c = NewCall(r)
        OBVIOUS
      <3>. QED BY <1>0, <2>1, <3>1, StartTries, TryDues
    <2>2. CASE Retry
      <3>1. PICK c : c = call[cur]
        OBVIOUS
      <3>. QED BY <1>0, <2>2, <3>1, RetryTries, TryDues
    <2>3. CASE ResumeCall
      BY <2>3, ResumeDues
    <2>4. CASE Place
      BY <2>4, PlaceDues
    <2>5. CASE (Waiting /\ ~ ResumeCall /\ ~ Place) \/ ReturnCall
      <3>1. Timeless(k', k)
        BY <2>5, CalmTimeless DEF Waiting, Briefly
      <3>2. \A t \in Threads : Lasting(call'[t], call[t])
        BY <2>5, CallLasts DEF Waiting
      <3>. QED BY <3>1, <3>2, CalmDues
    <2>. QED BY <1>1, <2>1, <2>2, <2>3, <2>4, <2>5 DEF QueueCall
  <1>2. CASE Delaying
    <2>1. CASE AddToDelayedList /\ UNCHANGED qvars
      BY <2>1, AddDues DEF qvars
    <2>2. CASE ((\E n \in Delays : vTaskDelay(n)) \/ portYIELD_WITHIN_API
                 \/ IdleYield \/ YieldIsr) /\ UNCHANGED qvars
      <3>1. Timeless(k', k) /\ call' = call
        BY <2>2, CalmTimeless DEF Briefly, qvars
      <3>. QED BY <1>0, <3>1, CalmDues
    <2>3. CASE ResumeAndYield /\ call' = Overflow(call) /\ UNCHANGED <<q, held>>
      BY <2>3, ResumeDues
    <2>. QED BY <1>2, <2>1, <2>2, <2>3 DEF Delaying
  <1>3. CASE QueueIsr
    <2>1. Timeless(k', k) /\ call' = call
      BY <1>3, IsrTimeless DEF QueueIsr, xQueueGenericSendFromISR, xQueueReceiveFromISR
    <2>. QED BY <1>0, <2>1, CalmDues
  <1>4. CASE Tick
    BY <1>4, TickDues
  <1>. QED BY <1>1, <1>2, <1>3, <1>4 DEF QueueNext

\* At first nobody is in a call.
LEMMA InitialAges == QueueInit => Ageing /\ Dues
  <1>. SUFFICES ASSUME QueueInit PROVE Ageing /\ Dues
    OBVIOUS
  <1>1. QueueInv /\ call = [t \in Threads |-> NoCall] /\ kpc = [t \in Threads |-> "run"]
    BY QueueInitInv DEF QueueInit, Init
  <1>2. Ageing
    <2>1. Ages("run", NoCall, k.xTickCount, k.xPendedTicks)
      BY AgesNone
    <2>. QED BY <1>1, <2>1 DEF Ageing
  <1>3. Dues
    <2>1. \E l \in [Threads -> Nat] : LeftOK(k, l, k.xPendedTicks)
      BY <1>1, IsrFacts DEF KernelOK
    <2>2. PICK l : l \in Delays0(k)
      BY <2>1 DEF Delays0
    <2>3. \A t \in Threads : call[t].op = "none"
      BY <1>1, AgesNone
    <2>. QED BY <2>2, <2>3 DEF Dues, Due
  <1>. QED BY <1>2, <1>3

\* A blocked task has some of its delay left.
LEMMA DelayedLeft ==
    ASSUME KernelOK(k), Unlocked, NEW l \in Delays0(k), NEW t \in Delayed
    PROVE  l[t] \in Nat /\ l[t] > 0
  <1>1. /\ k \in Kernel /\ TimesOK(k) /\ Pnd(k) = {} /\ k.xPendedTicks = 0
        /\ LeftOK(k, l, 0)
    BY DEF KernelOK, Unlocked, Delays0
  <1>2. t \in DOwn(k) \cup OOwn(k)
    <2>1. Delayed = {d.owner : d \in DItems(k) \cup OItems(k)}
      <3>1. \A s : Owners(s) = {d.owner : d \in ToSet(s)}
        BY DEF Owners, ToSet
      <3>. QED BY <3>1 DEF Delayed, DItems, OItems
    <2>. QED BY <2>1 DEF DOwn, OOwn
  <1>3. CASE t \in DOwn(k)
    <2>1. PICK d \in DItems(k) : d.owner = t
      BY <1>3 DEF DOwn
    <2>2. d.value \in Nat /\ k.xTickCount \in Nat /\ d.value > k.xTickCount
      BY <1>1, <2>1, ItemsTyped DEF TimesOK
    <2>3. l[t] = LeftOf(d.value - k.xTickCount, 0)
      BY <1>1, <2>1 DEF LeftOK
    <2>. QED BY <2>2, <2>3 DEF LeftOf
  <1>4. CASE t \in OOwn(k)
    <2>1. PICK d \in OItems(k) : d.owner = t
      BY <1>4 DEF OOwn
    <2>2. d.value \in Nat /\ k.xTickCount \in Nat /\ k.xTickCount < Wrap /\ Wrap \in Nat
      BY <1>1, <2>1, ItemsTyped, BoundsAssumption
    <2>3. l[t] = LeftOf(d.value + Wrap - k.xTickCount, 0)
      BY <1>1, <2>1 DEF LeftOK
    <2>. QED BY <2>2, <2>3 DEF LeftOf
  <1>. QED BY <1>2, <1>3, <1>4

\* The two halves of TimeoutExact.
LEMMA TimesExact ==
    ASSUME QueueInv, Ageing, Dues
    PROVE  TimeoutExact
  <1>1. ASSUME NEW t \in Tasks, kpc[t] = "done", call[t].answer = Failed
        PROVE  call[t].asked # portMAX_DELAY /\ call[t].waited >= call[t].asked
    <2>1. Ages("done", call[t], k.xTickCount, k.xPendedTicks)
      BY <1>1 DEF Ageing, Threads
    <2>. QED BY <1>1, <2>1 DEF Ages
  <1>2. ASSUME NEW t \in Tasks, Unlocked, t \in Delayed, HasTimeout(t)
        PROVE  call[t].waited < call[t].asked \/ call[t].waited = Wrap
    <2>1. PICK l \in Delays0(k) : \A u \in Threads : Due(call[u], l[u])
      BY DEF Dues
    <2>2. l[t] \in Nat /\ l[t] > 0
      BY <1>2, <2>1, IsrFacts, DelayedLeft
    <2>3. call[t] \in CallRecord /\ Due(call[t], l[t])
      BY <2>1, IsrFacts DEF Threads
    <2>4. call[t].waited \in Nat /\ call[t].asked \in Nat
      BY <2>3, BoundsAssumption DEF CallRecord, portMAX_DELAY
    <2>. QED BY <1>2, <2>2, <2>3, <2>4 DEF Due, HasTimeout
  <1>. QED BY <1>1, <1>2 DEF TimeoutExact

\* xTaskCheckForTimeOut and the delayed lists agree: a call fails only after as many timer
\* interrupts as it asked for and never with portMAX_DELAY, and it stays blocked no longer,
\* across retries, suspended scheduling and the overflow of the tick count.
THEOREM TimeoutsExact == QueueSpec => []TimeoutExact
  <1>. DEFINE I == Ageing /\ Dues
  <1>1. QueueInit => I
    BY InitialAges
  <1>2. QueueInv /\ I /\ [QueueNext]_allVars => I'
    <2>1. ASSUME QueueInv, I, UNCHANGED allVars PROVE I'
      BY <2>1 DEF allVars, vars, qvars, Ageing, Dues
    <2>. QED BY <2>1, AgeingStep, DuesStep
  <1>3. QueueInv /\ I => TimeoutExact
    BY TimesExact
  <1>. HIDE DEF I
  <1>. QED BY <1>1, <1>2, <1>3, QueueInvariant, PTL DEF QueueSpec

\* Only mutexes have a holder: what a task owns are the mutexes it holds.
LEMMA OwnedAreHeld ==
    ASSUME QueueInv, NEW t \in Tasks
    PROVE  OwnedBy(q, t) = {x \in Mutexes : Holds(t, x)}
  <1>1. Mutexes \subseteq Queues /\ t # NoTask
    BY QueueAssumption, ThreadsAssumption DEF Threads
  <1>2. ASSUME NEW x \in Queues, q[x].xMutexHolder = t PROVE x \in Mutexes
    <2>1. q[x].xMutexHolder = NoTask <=> ~ (x \in Mutexes /\ q[x].uxMessagesWaiting = 0)
      BY DEF QueueInv, Stores, StoreOK
    <2>. QED BY <1>1, <1>2, <2>1
  <1>. QED BY <1>1, <1>2 DEF OwnedBy, Holds

\* The two halves of PriorityRestored.
LEMMA PrioritiesAreRestored == QueueInv /\ Debts => PriorityRestored
  <1>. SUFFICES ASSUME QueueInv, Debts, NEW t \in Tasks
                PROVE  /\ held[t] = Cardinality({x \in Mutexes : Holds(t, x)})
                       /\ held[t] = 0 => k.uxPriority[t] = InitialPriority[t]
    BY DEF PriorityRestored
  <1>1. t \in Threads
    BY DEF Threads
  <1>2. held[t] = Cardinality(OwnedBy(q, t)) /\ (held[t] = 0 => k.uxPriority[t] = InitialPriority[t])
    BY <1>1 DEF Debts, Owes
  <1>. QED BY <1>2, OwnedAreHeld

\* The count by which a task is told that it has given its last mutex back is that of the
\* mutexes that name it their holder, and it then has its own priority again, whatever was
\* raised, lowered or timed out meanwhile.
THEOREM PrioritiesRestored == QueueSpec => []PriorityRestored
  <1>. QED BY QueueInvariant, DebtsInvariant, PrioritiesAreRestored, PTL

(***************************************************************************)
(* Nobody sleeps through a message or a place: every action keeps Watched. *)
(***************************************************************************)
\* what a step has to show of every side, beside the locks
Serving(d, x) == Serves(k', kpc', call', q'[x], k, kpc, call, q[x], d, x)

\* A step that serves every side and respects the locks keeps the whole in order.
LEMMA WatchedOn ==
    ASSUME QueueInv, QueueNext, Watched, LocksOK(kpc', call', q'),
           \A d \in Sides, x \in Queues : Serving(d, x)
    PROVE  Watched'
  <1>1. Stores(q) /\ Stores(q')
    BY QueueStepKept DEF Kept, QueueInv
  <1>2. ASSUME NEW d \in Sides, NEW x \in Queues
        PROVE  SideOK(k', kpc', call', q'[x], d, x)
    <2>1. StoreOK(x, q[x]) /\ StoreOK(x, q'[x])
      BY <1>1 DEF Stores
    <2>2. SideOK(k, kpc, call, q[x], d, x)
      BY DEF Watched
    <2>. QED BY <2>1, <2>2, SideServed DEF Serving
  <1>. QED BY <1>2 DEF Watched

\* a task goes from p, in the call c, to p2, in c2, and waits, looks and locks as before
Calm(p2, c2, p, c) ==
    /\ \A d \in Sides, x \in Queues : /\ Willing(p, c, d, x) => Willing(p2, c2, d, x)
                                      /\ Placing(p2, c2, d, x) => Placing(p, c, d, x)
    /\ \A d \in Sides : /\ p2 \in LockedAt(d) <=> p \in LockedAt(d)
                        /\ p2 \in LockedAt(d) => c2.queue = c.queue

\* A task stays where it is, goes on in its call, or is not in one.
LEMMA CalmWays ==
    ASSUME NEW p, NEW c, NEW p2, NEW c2
    PROVE  /\ c2.op = c.op /\ c2.queue = c.queue /\ c2.after = c.after /\ p2 = p => Calm(p2, c2, p, c)
           /\ /\ c2.op = c.op /\ c2.queue = c.queue
              /\ \A d \in Sides : p2 \in LockedAt(d) <=> p \in LockedAt(d)
              /\ p2 \in {"inherit", "place"} => p \in {"inherit", "place"}
              /\ p \in {"try", "yieldCall"} \/ (p \in Leaving /\ c.after = "block") =>
                    p2 \in {"try", "yieldCall"} \/ (p2 \in Leaving /\ c2.after = "block")
              => Calm(p2, c2, p, c)
           /\ /\ p \notin {"try", "yieldCall"} \cup Leaving /\ p2 \notin {"inherit", "place"}
              /\ \A d \in Sides : p2 \notin LockedAt(d) /\ p \notin LockedAt(d)
              => Calm(p2, c2, p, c)
  BY DEF Calm, Willing, Placing, On

\* Those who wait are tasks.
LEMMA SideLists ==
    ASSUME NEW s \in Kernel, NEW d \in Sides, NEW x \in Queues
    PROVE  Wts(s, EventOn(d, x)) \subseteq Tasks
  BY SidesApart, FiniteWaits

\* Nobody begins to wait, nothing comes, goes or is locked.
LEMMA CalmSteps ==
    ASSUME QueueInv, QueueNext, Watched, Fewer(k', k),
           \A t \in Threads : Calm(kpc'[t], call'[t], kpc[t], call[t]),
           \A d \in Sides, x \in Queues : /\ Available(d, x, q'[x]) = Available(d, x, q[x])
                                          /\ LockOn(d, q'[x]) = LockOn(d, q[x])
    PROVE  Watched'
  <1>1. LocksOK(kpc', call', q')
    <2>1. ASSUME NEW d \in Sides, NEW x \in Queues
          PROVE  Locked(kpc', call', d, x) <=> Locked(kpc, call, d, x)
      BY DEF Locked, Calm
    <2>. QED BY <2>1 DEF Watched, LocksOK
  <1>2. ASSUME NEW d \in Sides, NEW x \in Queues PROVE Serving(d, x)
    <2>. DEFINE W == Wts(k, EventOn(d, x))
                W2 == Wts(k', EventOn(d, x))
    <2>1. W \subseteq Tasks /\ W2 \subseteq Tasks /\ W2 \subseteq W
      <3>1. k \in Kernel /\ k' \in Kernel
        BY NextKernel DEF KernelOK
      <3>. QED BY <3>1, SideLists, SidesApart DEF Fewer
    <2>2. Shifts(kpc', call', W2, kpc, call, W, {}, {}, d, x)
      <3>. HIDE DEF W, W2
      <3>. QED BY <2>1 DEF Shifts, Calm, Threads
    <2>3. Somebody(kpc', call', W2, d, x) => Somebody(kpc, call, W, d, x)
      <3>. HIDE DEF W, W2
      <3>. QED BY <2>1 DEF Somebody, Calm
    <2>4. Cardinality({}) = 0 /\ Available(d, x, q[x]) \in Int
      BY FS_EmptySet, QueueAssumption DEF QueueInv, Stores, StoreOK, Record, Available
    <2>5. Provides(Available(d, x, q'[x]), LockOn(d, q'[x]), Somebody(kpc', call', W2, d, x),
                   Available(d, x, q[x]), LockOn(d, q[x]), Somebody(kpc, call, W, d, x),
                   Cardinality({}), Cardinality(W \ W2))
      <3>. HIDE DEF W, W2
      <3>1. PICK a \in Int : a = Available(d, x, q[x])
        BY <2>4
      <3>2. a + 0 <= a
        BY <3>1
      <3>. QED BY <2>3, <2>4, <3>1, <3>2 DEF Provides
    <2>. HIDE DEF W, W2
    <2>6. \E g, j : /\ Shifts(kpc', call', W2, kpc, call, W, g, j, d, x)
                    /\ Provides(Available(d, x, q'[x]), LockOn(d, q'[x]),
                                Somebody(kpc', call', W2, d, x),
                                Available(d, x, q[x]), LockOn(d, q[x]),
                                Somebody(kpc, call, W, d, x),
                                Cardinality(g), Cardinality(W \ W2))
      BY <2>2, <2>5
    <2>. QED BY <2>6 DEF Serving, Serves, W, W2
  <1>. QED BY <1>1, <1>2, WatchedOn

\* The queues are as before.
LEMMA SameQueues ==
    ASSUME q' = q
    PROVE  \A d \in Sides, x \in Queues : /\ Available(d, x, q'[x]) = Available(d, x, q[x])
                                          /\ LockOn(d, q'[x]) = LockOn(d, q[x])
  OBVIOUS

\* Only the running task goes on.
LEMMA CalmOwn ==
    ASSUME QueueInv, NEW p, NEW c, Proceeds(p, c), Calm(p, c, kpc[cur], call[cur])
    PROVE  \A t \in Threads : Calm(kpc'[t], call'[t], kpc[t], call[t])
  <1>1. DOMAIN kpc = Threads /\ DOMAIN call = Threads
    BY DEF QueueInv, CallsOK, InCalls
  <1>2. ASSUME NEW t \in Threads PROVE Calm(kpc'[t], call'[t], kpc[t], call[t])
    <2>1. CASE t = cur
      BY <1>1, <2>1 DEF Proceeds
    <2>2. CASE t # cur
      <3>1. kpc'[t] = kpc[t] /\ call'[t] = call[t]
        BY <1>1, <2>2 DEF Proceeds
      <3>2. PICK p1, c1 : p1 = kpc[t] /\ c1 = call[t]
        OBVIOUS
      <3>3. Calm(p1, c1, p1, c1)
        BY CalmWays
      <3>. QED BY <3>1, <3>2, <3>3
    <2>. QED BY <2>1, <2>2
  <1>. QED BY <1>2

\* The steps of a call that neither enter nor leave an event list, and lock nothing.
LEMMA CallCalm ==
    ASSUME QueueInv,
           SuspendAll \/ xTaskCheckForTimeOut \/ Inherit \/ YieldCall \/ Expired
           \/ DisinheritAfterTimeout \/ ReturnCall
    PROVE  \A t \in Threads : Calm(kpc'[t], call'[t], kpc[t], call[t])
  <1>1. PICK p0, c0 : p0 = kpc[cur] /\ c0 = call[cur]
    OBVIOUS
  <1>2. \E p, c : Proceeds(p, c) /\ Calm(p, c, p0, c0)
    <2>1. CASE SuspendAll
      <3>1. p0 = "suspend" /\ Proceeds("lock", c0)
        BY <1>1, <2>1 DEF SuspendAll, At, To, Proceeds
      <3>2. Calm("lock", c0, p0, c0)
        BY <3>1, CalmWays DEF Leaving, LockedAt
      <3>. QED BY <3>1, <3>2
    <2>2. CASE xTaskCheckForTimeOut
      <3>1. c0 \in CallRecord
        BY <1>1, IsrFacts DEF KernelOK, Kernel, cur
      <3>2. p0 = "check"
            /\ \/ Proceeds("recheck", c0) \/ Proceeds("recheck", Remaining(c0))
               \/ Proceeds("unlockTx", [c0 EXCEPT !.ticks = 0, !.after = "expired"])
        BY <1>1, <2>2 DEF xTaskCheckForTimeOut, At, To, Proceeds
      <3>3. Remaining(c0).op = c0.op /\ Remaining(c0).queue = c0.queue
        <4>1. PICK n, e : n = c0.ticks - Elapsed(c0) /\ e = k.xTickCount
          OBVIOUS
        <4>2. Remaining(c0) = [c0 EXCEPT !.ticks = n, !.entered = e, !.overflowed = FALSE]
          BY <4>1 DEF Remaining
        <4>. QED BY <3>1, <4>2 DEF CallRecord
      <3>4. PICK e : e = [c0 EXCEPT !.ticks = 0, !.after = "expired"]
        OBVIOUS
      <3>5. e.op = c0.op /\ e.queue = c0.queue
        BY <3>1, <3>4 DEF CallRecord
      <3>6. PICK r : r = Remaining(c0)
        OBVIOUS
      <3>7. p0 \notin {"try", "yieldCall"} \cup Leaving /\ \A d \in Sides : p0 \in LockedAt(d)
            /\ "recheck" \in LockedAt(d) /\ "unlockTx" \in LockedAt(d)
        BY <3>2 DEF Leaving, LockedAt
      <3>8. Calm("recheck", c0, p0, c0) /\ Calm("recheck", r, p0, c0) /\ Calm("unlockTx", e, p0, c0)
        BY <3>3, <3>5, <3>6, <3>7, CalmWays
      <3>. QED BY <3>2, <3>4, <3>6, <3>8
    <2>3. CASE Inherit
      <3>1. c0 \in CallRecord
        BY <1>1, IsrFacts DEF KernelOK, Kernel, cur
      <3>2. PICK v : Proceeds("place", [c0 EXCEPT !.inherited = v])
        BY <1>1, <2>3 DEF Inherit, To, Proceeds
      <3>3. PICK e : e = [c0 EXCEPT !.inherited = v]
        OBVIOUS
      <3>4. e.op = c0.op /\ e.queue = c0.queue
        BY <3>1, <3>3 DEF CallRecord
      <3>5. p0 = "inherit"
        BY <1>1, <2>3 DEF Inherit, At
      <3>6. Calm("place", e, p0, c0)
        BY <3>4, <3>5, CalmWays DEF Leaving, LockedAt
      <3>. QED BY <3>2, <3>3, <3>6
    <2>4. CASE YieldCall
      <3>1. p0 = "yieldCall" /\ Proceeds("try", c0)
        BY <1>1, <2>4 DEF YieldCall, At, To, Proceeds
      <3>2. Calm("try", c0, p0, c0)
        BY <3>1, CalmWays DEF Leaving, LockedAt
      <3>. QED BY <3>1, <3>2
    <2>5. CASE Expired \/ DisinheritAfterTimeout \/ ReturnCall
      <3>1. p0 \in {"expired", "disinherit", "done"}
            /\ \E c : \E p \in {"done", "try", "disinherit", "run"} : Proceeds(p, c)
        BY <1>1, <2>5 DEF Expired, DisinheritAfterTimeout, ReturnCall, At, Finish, To, Proceeds
      <3>2. \A c : \A p \in {"done", "try", "disinherit", "run"} : Calm(p, c, p0, c0)
        BY <3>1, CalmWays DEF Leaving, LockedAt
      <3>. QED BY <3>1, <3>2
    <2>. QED BY <2>1, <2>2, <2>3, <2>4, <2>5
  <1>. QED BY <1>1, <1>2, CalmOwn

\* Delays and yields, which are no call of a queue.
LEMMA OutsideCalm ==
    ASSUME QueueInv, call' = call,
           (\E n \in Delays : vTaskDelay(n)) \/ AddToDelayedList \/ portYIELD_WITHIN_API \/ IdleYield
    PROVE  \A t \in Threads : Calm(kpc'[t], call'[t], kpc[t], call[t])
  <1>1. PICK p0, p \in {"run", "add", "resume", "yield"} : At(p0) /\ kpc' = [kpc EXCEPT ![cur] = p]
    <2>1. kpc \in [Threads -> QueueKpcs]
      BY DEF QueueInv, CallsOK, InCalls
    <2>2. ASSUME NEW n \in Delays, vTaskDelay(n)
          PROVE  At("run") /\ \E p \in {"add", "yield"} : kpc' = [kpc EXCEPT ![cur] = p]
      BY <2>2 DEF vTaskDelay, Call, Goto
    <2>3. CASE AddToDelayedList
      BY <2>3 DEF AddToDelayedList, Goto
    <2>4. CASE portYIELD_WITHIN_API
      BY <2>4 DEF portYIELD_WITHIN_API, Return, Goto
    <2>5. CASE IdleYield
      BY <2>1, <2>5 DEF IdleYield, At
    <2>. QED BY <2>2, <2>3, <2>4, <2>5
  <1>2. PICK c : c = call[cur]
    OBVIOUS
  <1>3. Proceeds(p, c)
    <2>1. call = [call EXCEPT ![cur] = c]
      BY <1>2, IsrFacts
    <2>. QED BY <1>1, <2>1 DEF Proceeds
  <1>4. kpc[cur] = p0
    BY <1>1 DEF At
  <1>5. Calm(p, c, p0, c)
    BY <1>1, CalmWays DEF Leaving, LockedAt
  <1>. QED BY <1>2, <1>3, <1>4, <1>5, CalmOwn

\* Interrupts leave every task where it is.
LEMMA StayCalm ==
    ASSUME QueueInv, kpc' = kpc,
           \A t \in Threads : /\ call'[t].op = call[t].op /\ call'[t].queue = call[t].queue
                              /\ call'[t].after = call[t].after
    PROVE  \A t \in Threads : Calm(kpc'[t], call'[t], kpc[t], call[t])
  <1>1. ASSUME NEW t \in Threads PROVE Calm(kpc'[t], call'[t], kpc[t], call[t])
    <2>1. PICK p, c, c2 : p = kpc[t] /\ c = call[t] /\ c2 = call'[t]
      OBVIOUS
    <2>2. c2.op = c.op /\ c2.queue = c.queue /\ c2.after = c.after
      BY <2>1
    <2>3. Calm(p, c2, p, c)
      BY <2>2, CalmWays
    <2>. QED BY <2>1, <2>3
  <1>. QED BY <1>1

\* Time does not change what a call is about.
LEMMA PassingCall ==
    ASSUME NEW d, NEW c, NEW w, NEW o, Passing(d, c, w, o)
    PROVE  d.op = c.op /\ d.queue = c.queue /\ d.after = c.after
  BY DEF Passing, Older

\* The timer interrupt.
LEMMA TickCalm ==
    ASSUME QueueInv, Tick
    PROVE  \A t \in Threads : Calm(kpc'[t], call'[t], kpc[t], call[t])
  <1>1. kpc' = kpc
    BY DEF Tick, TickIsr, Stay
  <1>2. ASSUME NEW t \in Threads
        PROVE  /\ call'[t].op = call[t].op /\ call'[t].queue = call[t].queue
               /\ call'[t].after = call[t].after
    BY TickCalls, PassingCall
  <1>. QED BY <1>1, <1>2, StayCalm

\* the running task, in the call c, goes on at p, and the calls g see the ticks counted
ReturnsTo(g, p, c) ==
    /\ call' = Overflow(g) /\ kpc' = [kpc EXCEPT ![cur] = p]
    /\ \A t \in Threads : t # cur => g[t] = call[t]
    /\ g[cur].op = c.op /\ g[cur].queue = c.queue /\ g[cur].asked = c.asked
    /\ \/ /\ kpc[cur] = "resumeCall" /\ p \in {"try", "yieldCall", "expired"}
          /\ c.after = "block" => p # "expired"
       \/ kpc[cur] = "resume" /\ p \in {"run", "yield"}

\* xTaskResumeAll in a call that has waited, or at the end of vTaskDelay.
LEMMA ResumeCalm ==
    ASSUME QueueInv, ResumeCall \/ (ResumeAndYield /\ call' = Overflow(call))
    PROVE  \A t \in Threads : Calm(kpc'[t], call'[t], kpc[t], call[t])
  <1>1. PICK c : c = call[cur]
    OBVIOUS
  <1>2. c \in CallRecord /\ cur \in Threads /\ call \in [Threads -> CallRecord]
        /\ kpc \in [Threads -> QueueKpcs]
    <2>1. cur \in Threads
      BY IsrFacts DEF KernelOK, Kernel, cur
    <2>. QED BY <1>1, <2>1 DEF QueueInv, CallsOK, InCalls
  <1>3. \E g \in [Threads -> CallRecord] : \E p : ReturnsTo(g, p, c)
    <2>1. CASE ResumeCall
      <3>. DEFINE d == [c EXCEPT !.after = "none"]
                  g == [call EXCEPT ![cur] = d]
      <3>1. d \in CallRecord /\ d.op = c.op /\ d.queue = c.queue /\ d.asked = c.asked
        BY <1>2 DEF CallRecord
      <3>2. PICK p \in {"try", "yieldCall", "expired"} :
                /\ kpc' = [kpc EXCEPT ![cur] = p] /\ call' = Overflow(g)
                /\ c.after = "block" => p # "expired"
        BY <1>1, <2>1 DEF ResumeCall
      <3>3. kpc[cur] = "resumeCall"
        BY <2>1 DEF ResumeCall, At
      <3>. HIDE DEF d
      <3>4. g \in [Threads -> CallRecord] /\ g[cur] = d /\ \A t \in Threads : t # cur => g[t] = call[t]
        BY <1>2, <3>1
      <3>. HIDE DEF g
      <3>. QED BY <3>1, <3>2, <3>3, <3>4 DEF ReturnsTo
    <2>2. CASE ResumeAndYield /\ call' = Overflow(call)
      <3>1. PICK p \in {"run", "yield"} : kpc' = [kpc EXCEPT ![cur] = p]
        BY <2>2 DEF ResumeAndYield, Goto
      <3>2. kpc[cur] = "resume"
        BY <2>2 DEF ResumeAndYield, At
      <3>. QED BY <1>1, <1>2, <2>2, <3>1, <3>2 DEF ReturnsTo
    <2>. QED BY <2>1, <2>2
  <1>4. PICK g \in [Threads -> CallRecord] : \E p : ReturnsTo(g, p, c)
    BY <1>3
  <1>5. PICK p : ReturnsTo(g, p, c)
    BY <1>4
  <1>6. ASSUME NEW t \in Threads PROVE Calm(kpc'[t], call'[t], kpc[t], call[t])
    <2>1. g[t].op = call[t].op /\ g[t].queue = call[t].queue /\ g[t].asked = call[t].asked
      BY <1>1, <1>5 DEF ReturnsTo
    <2>2. call'[t].op = g[t].op /\ call'[t].queue = g[t].queue /\ call'[t].after = g[t].after
      BY <1>5, <2>1, ResumedCalls, PassingCall DEF ReturnsTo
    <2>3. PICK p0, p1, c0, c1 : p0 = kpc[t] /\ p1 = kpc'[t] /\ c0 = call[t] /\ c1 = call'[t]
      OBVIOUS
    <2>4. c1.op = c0.op /\ c1.queue = c0.queue
      BY <2>1, <2>2, <2>3
    <2>5. CASE t # cur
      <3>1. p1 = p0 /\ c1.after = c0.after
        BY <1>2, <1>5, <2>2, <2>3, <2>5 DEF ReturnsTo
      <3>2. Calm(p1, c1, p0, c0)
        BY <2>4, <3>1, CalmWays
      <3>. QED BY <2>3, <3>2
    <2>6. CASE t = cur
      <3>1. p1 = p /\ c0 = c
        BY <1>1, <1>2, <1>5, <2>3, <2>6 DEF ReturnsTo
      <3>2. Calm(p1, c1, p0, c0)
        BY <1>5, <2>3, <2>4, <2>6, <3>1, CalmWays DEF Leaving, LockedAt, ReturnsTo
      <3>. QED BY <2>3, <3>2
    <2>. QED BY <2>5, <2>6
  <1>. QED BY <1>6

\* Steps of a call that neither enter nor leave an event list.
LEMMA CallWatched ==
    ASSUME QueueInv, QueueNext, Watched,
           SuspendAll \/ xTaskCheckForTimeOut \/ Inherit \/ YieldCall \/ Expired
           \/ DisinheritAfterTimeout \/ ReturnCall
    PROVE  Watched'
  <1>1. q' = q
    BY DEF SuspendAll, xTaskCheckForTimeOut, Inherit, YieldCall, Expired, DisinheritAfterTimeout,
           ReturnCall
  <1>2. Fewer(k', k)
    <2>1. CASE Inherit \/ DisinheritAfterTimeout
      <3>1. k' = k \/ \E x \in Queues, h \in Tasks, p \in Priorities : Reprioritised(k', k, h, p)
        BY <2>1, InheritEffect, DisinheritEffect
      <3>. QED BY <3>1 DEF Reprioritised, Fewer
    <2>2. CASE ~ (Inherit \/ DisinheritAfterTimeout)
      BY <2>2, BrieflyGentle DEF Briefly, Gentle
    <2>. QED BY <2>1, <2>2
  <1>. QED BY <1>1, <1>2, CallCalm, CalmSteps, SameQueues

\* Delays, yields and the clock: those whose time is up leave their event lists.
LEMMA TimeWatched ==
    ASSUME QueueInv, QueueNext, Watched, ResumeCall \/ Tick \/ Delaying
    PROVE  Watched'
  <1>1. CASE ResumeCall \/ (ResumeAndYield /\ call' = Overflow(call) /\ UNCHANGED <<q, held>>)
    <2>1. q' = q
      BY <1>1 DEF ResumeCall
    <2>2. Fewer(k', k)
      BY <1>1, ResumptionFacts DEF Continued
    <2>. QED BY <1>1, <2>1, <2>2, ResumeCalm, CalmSteps, SameQueues
  <1>2. CASE Tick
    <2>1. q' = q
      BY <1>2 DEF Tick
    <2>2. PICK m : Aged(m, k) /\ Gentle(k', m)
      BY <1>2, TickEffect
    <2>3. Fewer(k', k)
      BY <2>2 DEF Aged, Gentle, Fewer
    <2>. QED BY <1>2, <2>1, <2>3, TickCalm, CalmSteps, SameQueues
  <1>3. CASE ((\E n \in Delays : vTaskDelay(n)) \/ AddToDelayedList \/ portYIELD_WITHIN_API
              \/ IdleYield) /\ UNCHANGED qvars
    <2>1. q' = q /\ call' = call
      BY <1>3 DEF qvars
    <2>2. Fewer(k', k)
      <3>1. CASE AddToDelayedList
        BY <3>1, DelayFacts DEF Joins, Fewer
      <3>2. CASE ~ AddToDelayedList
        BY <1>3, <3>2, BrieflyGentle DEF Briefly, Gentle
      <3>. QED BY <3>1, <3>2
    <2>. QED BY <1>3, <2>1, <2>2, OutsideCalm, CalmSteps, SameQueues
  <1>4. CASE YieldIsr /\ UNCHANGED qvars
    <2>1. q' = q /\ call' = call /\ kpc' = kpc
      BY <1>4 DEF qvars, YieldIsr, Stay
    <2>2. Fewer(k', k)
      BY <1>4, BrieflyGentle DEF Briefly, Gentle
    <2>. QED BY <2>1, <2>2, StayCalm, CalmSteps, SameQueues
  <1>. QED BY <1>1, <1>2, <1>3, <1>4 DEF Delaying

\* The side of the queue of the call c.
LEMMA OwnSide ==
    ASSUME NEW c, Legal(c)
    PROVE  \E b \in Sides : /\ On(c, b, c.queue)
                            /\ b = "receive" <=> c.op \in Receivers
                            /\ EventOn(b, c.queue) = IF c.op \in Receivers THEN ToReceive(c.queue)
                                                     ELSE ToSend(c.queue)
  <1>1. Senders \cap Receivers = {}
    BY DEF Senders, Receivers
  <1>. QED BY <1>1 DEF Legal, Ops, On, OpsOn, Sides, EventOn

\* Who must wait found nothing, unless it overwrites.
LEMMA NothingThere ==
    ASSUME NEW c, c.queue \in Queues, NEW d \in Sides, NEW x, On(c, d, x), MustWait(c), Stores(q)
    PROVE  Available(d, x, q[x]) = 0
  <1>1. Senders \cap Receivers = {}
    BY DEF Senders, Receivers
  <1>2. StoreOK(x, q[x]) /\ x \in Queues /\ x = c.queue
    BY DEF Stores, On
  <1>3. q[x].uxMessagesWaiting \in Int /\ uxLength[x] \in Int
    BY <1>2, QueueAssumption DEF StoreOK, Record
  <1>. QED BY <1>1, <1>2, <1>3 DEF On, OpsOn, Sides, MustWait, IsEmpty, IsFull, Available

\* Only the running task can have locked a queue.
LEMMA LockedBefore ==
    ASSUME QueueInv, NEW d \in Sides, NEW x
    PROVE  Locked(kpc, call, d, x) <=> kpc[cur] \in LockedAt(d) /\ call[cur].queue = x
  <1>1. LockedAt(d) \subseteq Alone
    BY DEF LockedAt, Alone
  <1>2. cur \in Threads /\ \A t \in Threads : kpc[t] \in Alone => t = cur
    BY DEF QueueInv, CallsOK, Suspension, KernelOK, Kernel, cur
  <1>. QED BY <1>1, <1>2 DEF Locked

\* The running task, gone to p in the call c, is the one that keeps a queue locked.
LEMMA LockedAfter ==
    ASSUME QueueInv, NEW p, NEW c, Proceeds(p, c), NEW d \in Sides, NEW x
    PROVE  Locked(kpc', call', d, x) <=> p \in LockedAt(d) /\ c.queue = x
  <1>1. LockedAt(d) \subseteq Alone
    BY DEF LockedAt, Alone
  <1>2. cur \in Threads /\ \A t \in Threads : kpc[t] \in Alone => t = cur
    BY DEF QueueInv, CallsOK, Suspension, KernelOK, Kernel, cur
  <1>3. \A t \in Threads : /\ kpc'[t] = IF t = cur THEN p ELSE kpc[t]
                           /\ call'[t] = IF t = cur THEN c ELSE call[t]
    BY DEF Proceeds, QueueInv, CallsOK, InCalls
  <1>. QED BY <1>1, <1>2, <1>3 DEF Locked

\* the running task, at p0 in the call c0, goes to p in the call c: on the side d of x it
\* stops looking if g is not empty, and begins to wait if j is not
Turns(p, c, p0, c0, W2, W, g, j, d, x) ==
    /\ g \subseteq {cur} /\ j \subseteq {cur} /\ W2 \subseteq W \cup j
    /\ W \subseteq Tasks /\ W2 \subseteq Tasks
    /\ IF g = {} THEN Willing(p0, c0, d, x) => Willing(p, c, d, x) ELSE cur \in Tasks \ W
    /\ j # {} => Willing(p, c, d, x) /\ ~ Willing(p0, c0, d, x)

\* A step of the running task changes who looks on one side of a queue by at most that task.
LEMMA OwnShift ==
    ASSUME QueueInv, NEW p, NEW c, Proceeds(p, c), NEW W2, NEW W, NEW g, NEW j, NEW d, NEW x,
           Turns(p, c, kpc[cur], call[cur], W2, W, g, j, d, x)
    PROVE  Shifts(kpc', call', W2, kpc, call, W, g, j, d, x)
  <1>1. \A t \in Threads : /\ kpc'[t] = IF t = cur THEN p ELSE kpc[t]
                           /\ call'[t] = IF t = cur THEN c ELSE call[t]
    BY DEF Proceeds, QueueInv, CallsOK, InCalls
  <1>2. cur \in Threads /\ Tasks \subseteq Threads
    BY DEF QueueInv, CallsOK, KernelOK, Kernel, cur, Threads
  <1>3. g \subseteq Tasks \ W
    BY DEF Turns
  <1>4. ASSUME NEW t \in Tasks \ g, Willing(kpc[t], call[t], d, x)
        PROVE  Willing(kpc'[t], call'[t], d, x)
    <2>1. CASE t = cur
      <3>1. g = {}
        BY <2>1 DEF Turns
      <3>. QED BY <1>1, <1>2, <1>4, <2>1, <3>1 DEF Turns
    <2>2. CASE t # cur
      BY <1>1, <1>2, <1>4, <2>2
    <2>. QED BY <2>1, <2>2
  <1>5. ASSUME NEW t \in j
        PROVE  Willing(kpc'[t], call'[t], d, x) /\ ~ Willing(kpc[t], call[t], d, x)
    BY <1>1, <1>2 DEF Turns
  <1>. QED BY <1>3, <1>4, <1>5 DEF Turns, Shifts

\* If the running task is not about to wait, nobody is who was not.
LEMMA OwnSomebody ==
    ASSUME QueueInv, NEW p, NEW c, Proceeds(p, c), NEW W2, NEW W, W2 \subseteq W, NEW d, NEW x,
           Placing(p, c, d, x) => Placing(kpc[cur], call[cur], d, x)
    PROVE  Somebody(kpc', call', W2, d, x) => Somebody(kpc, call, W, d, x)
  <1>1. \A t \in Threads : /\ kpc'[t] = IF t = cur THEN p ELSE kpc[t]
                           /\ call'[t] = IF t = cur THEN c ELSE call[t]
    BY DEF Proceeds, QueueInv, CallsOK, InCalls
  <1>. QED BY <1>1 DEF Somebody

\* the numbers of a side before and after, when g stop looking
Numbers(d, x, g) ==
    LET W2 == Wts(k', EventOn(d, x))
        W == Wts(k, EventOn(d, x))
    IN  Provides(Available(d, x, q'[x]), LockOn(d, q'[x]), Somebody(kpc', call', W2, d, x),
                 Available(d, x, q[x]), LockOn(d, q[x]), Somebody(kpc, call, W, d, x),
                 Cardinality(g), Cardinality(W \ W2))

\* Such a step serves a side of a queue when its numbers are right.
LEMMA OwnServes ==
    ASSUME QueueInv, NEW p, NEW c, Proceeds(p, c), NEW d, NEW x, NEW g, NEW j,
           Turns(p, c, kpc[cur], call[cur], Wts(k', EventOn(d, x)), Wts(k, EventOn(d, x)), g, j, d, x),
           Numbers(d, x, g)
    PROVE  Serving(d, x)
  <1>. DEFINE W2 == Wts(k', EventOn(d, x))
              W == Wts(k, EventOn(d, x))
  <1>1. Turns(p, c, kpc[cur], call[cur], W2, W, g, j, d, x)
    OBVIOUS
  <1>2. Provides(Available(d, x, q'[x]), LockOn(d, q'[x]), Somebody(kpc', call', W2, d, x),
                 Available(d, x, q[x]), LockOn(d, q[x]), Somebody(kpc, call, W, d, x),
                 Cardinality(g), Cardinality(W \ W2))
    BY DEF Numbers
  <1>. HIDE DEF W, W2
  <1>3. Shifts(kpc', call', W2, kpc, call, W, g, j, d, x)
    BY <1>1, OwnShift
  <1>4. \E g1, j1 : /\ Shifts(kpc', call', W2, kpc, call, W, g1, j1, d, x)
                    /\ Provides(Available(d, x, q'[x]), LockOn(d, q'[x]),
                                Somebody(kpc', call', W2, d, x),
                                Available(d, x, q[x]), LockOn(d, q[x]),
                                Somebody(kpc, call, W, d, x),
                                Cardinality(g1), Cardinality(W \ W2))
    BY <1>2, <1>3
  <1>. QED BY <1>4 DEF Serving, Serves, W, W2

\* what a step of the running task, to p in the call c, has to show of a side
OwnServed(p, c, d, x) ==
    \E g, j : /\ Turns(p, c, kpc[cur], call[cur], Wts(k', EventOn(d, x)), Wts(k, EventOn(d, x)),
                       g, j, d, x)
              /\ Numbers(d, x, g)
\* the lock of that side when the running task is at p in the call c
LockFits(p, c, d, x) ==
    IF p \in LockedAt(d) /\ c.queue = x THEN LockOn(d, q'[x]) \in Nat
    ELSE LockOn(d, q'[x]) = queueUNLOCKED

\* A step of the running task that serves every side keeps the whole in order.
LEMMA OwnWatched ==
    ASSUME QueueInv, QueueNext, Watched, NEW p, NEW c, Proceeds(p, c),
           \A d \in Sides, x \in Queues : OwnServed(p, c, d, x) /\ LockFits(p, c, d, x)
    PROVE  Watched'
  <1>1. LocksOK(kpc', call', q')
    BY LockedAfter DEF LocksOK, LockFits
  <1>2. ASSUME NEW d \in Sides, NEW x \in Queues PROVE Serving(d, x)
    <2>1. PICK g, j : /\ Turns(p, c, kpc[cur], call[cur], Wts(k', EventOn(d, x)),
                               Wts(k, EventOn(d, x)), g, j, d, x)
                      /\ Numbers(d, x, g)
      BY DEF OwnServed
    <2>. QED BY <2>1, OwnServes
  <1>. QED BY <1>1, <1>2, WatchedOn

\* on the side d of x the running task, at p0 in c0 and then at p in c, does nothing
Aside(p, c, p0, c0, d, x) ==
    /\ Wts(k', EventOn(d, x)) \subseteq Wts(k, EventOn(d, x))
    /\ Willing(p0, c0, d, x) => Willing(p, c, d, x)
    /\ Placing(p, c, d, x) => Placing(p0, c0, d, x)
    /\ Available(d, x, q'[x]) <= Available(d, x, q[x])
    /\ LockOn(d, q'[x]) = LockOn(d, q[x])

\* The numbers of a side are integers, and no more tasks wait than there are.
LEMMA SideTypes ==
    ASSUME QueueInv, QueueNext, NEW d \in Sides, NEW x \in Queues
    PROVE  /\ Available(d, x, q[x]) \in Int /\ Available(d, x, q'[x]) \in Int
           /\ Wts(k, EventOn(d, x)) \subseteq Tasks /\ Wts(k', EventOn(d, x)) \subseteq Tasks
  <1>1. Stores(q) /\ Stores(q')
    BY QueueStepKept DEF Kept, QueueInv
  <1>2. k \in Kernel /\ k' \in Kernel
    BY NextKernel DEF KernelOK
  <1>. QED BY <1>1, <1>2, SideLists, QueueAssumption DEF Stores, StoreOK, Record, Available

\* Such a side is served.
LEMMA AsideServed ==
    ASSUME QueueInv, QueueNext, NEW p, NEW c, Proceeds(p, c), NEW d \in Sides, NEW x \in Queues,
           Aside(p, c, kpc[cur], call[cur], d, x)
    PROVE  OwnServed(p, c, d, x)
  <1>. DEFINE W == Wts(k, EventOn(d, x))
              W2 == Wts(k', EventOn(d, x))
  <1>1. PICK av, av2 \in Int : av = Available(d, x, q[x]) /\ av2 = Available(d, x, q'[x])
    BY SideTypes
  <1>2. W \subseteq Tasks /\ W2 \subseteq Tasks /\ W2 \subseteq W
    BY SideTypes DEF Aside
  <1>. HIDE DEF W, W2
  <1>3. Turns(p, c, kpc[cur], call[cur], W2, W, {}, {}, d, x)
    BY <1>2 DEF Turns, Aside
  <1>4. Somebody(kpc', call', W2, d, x) => Somebody(kpc, call, W, d, x)
    BY <1>2, OwnSomebody DEF Aside
  <1>5. Cardinality({}) = 0 /\ av2 + 0 <= av
    BY <1>1, FS_EmptySet DEF Aside
  <1>6. Provides(av2, LockOn(d, q'[x]), Somebody(kpc', call', W2, d, x),
                 av, LockOn(d, q[x]), Somebody(kpc, call, W, d, x),
                 Cardinality({}), Cardinality(W \ W2))
    BY <1>4, <1>5 DEF Provides, Aside
  <1>7. Numbers(d, x, {})
    BY <1>1, <1>6 DEF Numbers, W, W2
  <1>. QED BY <1>3, <1>7 DEF OwnServed, W, W2

\* Where nobody locks or unlocks, the locks stay as they fit.
LEMMA LocksStay ==
    ASSUME QueueInv, Watched, NEW p, NEW c, NEW d \in Sides, NEW x \in Queues,
           LockOn(d, q'[x]) = LockOn(d, q[x]),
           (p \in LockedAt(d) /\ c.queue = x) <=> (kpc[cur] \in LockedAt(d) /\ call[cur].queue = x)
    PROVE  LockFits(p, c, d, x)
  <1>1. Locked(kpc, call, d, x) <=> p \in LockedAt(d) /\ c.queue = x
    BY LockedBefore
  <1>. QED BY <1>1 DEF Watched, LocksOK, LockFits

\* prvLockQueue locks a queue that nobody has locked, and that nobody waits for yet.
LEMMA LockWatched ==
    ASSUME QueueInv, QueueNext, Watched, prvLockQueue
    PROVE  Watched'
  <1>. DEFINE y == call[cur].queue
              lock(l) == IF l = queueUNLOCKED THEN queueLOCKED_UNMODIFIED ELSE l
              n == [q[y] EXCEPT !.cRxLock = lock(@), !.cTxLock = lock(@)]
  <1>1. PICK c : c = call[cur]
    OBVIOUS
  <1>2. Within("lock")
    BY WithinCall DEF prvLockQueue, InQueue
  <1>3. Stores(q) /\ y \in Queues /\ StoreOK(y, q[y]) /\ kpc[cur] = "lock"
    BY <1>2 DEF Within, At
  <1>4. k' = k /\ Proceeds("check", c) /\ q' = [q EXCEPT ![y] = n]
    BY <1>1 DEF prvLockQueue, To, Proceeds
  <1>5. /\ n.uxMessagesWaiting = q[y].uxMessagesWaiting
        /\ n.cTxLock = lock(q[y].cTxLock) /\ n.cRxLock = lock(q[y].cRxLock)
    <2>1. q[y] \in Record(uxLength[y], Items \cup {NoItem}, Int, Tasks \cup {NoTask})
      BY <1>3 DEF StoreOK
    <2>. HIDE DEF y
    <2>. QED BY <2>1 DEF Record
  <1>6. \A x \in Queues : q'[x] = IF x = y THEN n ELSE q[x]
    BY <1>3, <1>4 DEF Stores
  <1>. HIDE DEF n, y
  <1>7. \A d \in Sides : "lock" \notin LockedAt(d) /\ "check" \in LockedAt(d)
    BY DEF LockedAt
  <1>8. ASSUME NEW d \in Sides, NEW x \in Queues
        PROVE  OwnServed("check", c, d, x) /\ LockFits("check", c, d, x)
    <2>1. Available(d, x, q'[x]) = Available(d, x, q[x])
      BY <1>5, <1>6 DEF Available
    <2>2. LockOn(d, q[x]) = queueUNLOCKED
      BY <1>3, <1>7, LockedBefore DEF Watched, LocksOK
    <2>3. CASE x # y
      <3>1. q'[x] = q[x]
        BY <1>6, <2>3
      <3>2. ~ Willing("lock", c, d, x) /\ ~ Placing("check", c, d, x)
        BY DEF Willing, Placing, Leaving
      <3>3. Aside("check", c, "lock", c, d, x)
        BY <1>4, <2>1, <3>1, <3>2, SideTypes DEF Aside
      <3>4. OwnServed("check", c, d, x)
        BY <1>1, <1>3, <1>4, <3>3, AsideServed
      <3>. QED BY <1>1, <2>2, <2>3, <3>1, <3>4 DEF LockFits, y
    <2>4. CASE x = y
      <3>1. LockOn(d, q'[x]) = queueLOCKED_UNMODIFIED
        BY <1>5, <1>6, <2>2, <2>4 DEF LockOn, Sides
      <3>. DEFINE W == Wts(k, EventOn(d, x))
                  W2 == Wts(k', EventOn(d, x))
      <3>2. W \subseteq Tasks /\ W2 = W
        BY <1>4, SideTypes
      <3>. HIDE DEF W, W2
      <3>3. ~ Willing("lock", c, d, x) /\ ~ Placing("check", c, d, x)
        BY DEF Willing, Placing, Leaving
      <3>4. Turns("check", c, "lock", c, W2, W, {}, {}, d, x)
        BY <3>2, <3>3 DEF Turns
      <3>5. Somebody(kpc', call', W2, d, x) => Somebody(kpc, call, W, d, x)
        BY <1>4, <3>2, <3>3, OwnSomebody
      <3>6. PICK av \in Int : av = Available(d, x, q[x])
        BY SideTypes
      <3>7. Cardinality({}) = 0 /\ av + 0 <= av
        BY <3>6, FS_EmptySet
      <3>8. Provides(av, queueLOCKED_UNMODIFIED, Somebody(kpc', call', W2, d, x),
                     av, queueUNLOCKED, Somebody(kpc, call, W, d, x),
                     Cardinality({}), Cardinality(W \ W2))
        BY <3>5, <3>7 DEF Provides
      <3>9. Numbers(d, x, {})
        BY <2>1, <2>2, <3>1, <3>6, <3>8 DEF Numbers, W, W2
      <3>10. OwnServed("check", c, d, x)
        BY <1>1, <1>3, <3>4, <3>9 DEF OwnServed, W, W2
      <3>. QED BY <1>1, <1>7, <2>4, <3>1, <3>10 DEF LockFits, queueLOCKED_UNMODIFIED, y
    <2>. QED BY <2>3, <2>4
  <1>. QED BY <1>4, <1>8, OwnWatched

\* A task looks again in vain, or not.
LEMMA RecheckWatched ==
    ASSUME QueueInv, QueueNext, Watched, Recheck
    PROVE  Watched'
  <1>1. PICK c : c = call[cur]
    OBVIOUS
  <1>2. Within("recheck")
    BY WithinCall DEF Recheck, InQueue
  <1>3. Stores(q) /\ c.queue \in Queues /\ kpc[cur] = "recheck" /\ k' = k /\ q' = q /\ c \in CallRecord
    BY <1>1, <1>2 DEF Within, At, Recheck
  <1>4. \/ MustWait(c) /\ \E p \in {"inherit", "place"} : Proceeds(p, c)
        \/ Proceeds("unlockTx", [c EXCEPT !.after = "retry"])
    BY <1>1 DEF Recheck, To, Proceeds
  <1>5. PICK e : e = [c EXCEPT !.after = "retry"]
    OBVIOUS
  <1>6. e.op = c.op /\ e.queue = c.queue /\ e.after = "retry"
    BY <1>3, <1>5 DEF CallRecord
  <1>7. \A d \in Sides : \A p \in {"recheck", "inherit", "place", "unlockTx"} : p \in LockedAt(d)
    BY DEF LockedAt
  <1>8. ASSUME NEW p \in {"inherit", "place", "unlockTx"}, NEW b, Proceeds(p, b),
               b.queue = c.queue, b.op = c.op, p = "unlockTx" \/ (b = c /\ MustWait(c))
        PROVE  Watched'
    <2>1. ASSUME NEW d \in Sides, NEW x \in Queues
          PROVE  OwnServed(p, b, d, x) /\ LockFits(p, b, d, x)
      <3>1. LockFits(p, b, d, x)
        BY <1>1, <1>3, <1>7, <1>8, LocksStay
      <3>2. ~ Willing("recheck", c, d, x)
        BY DEF Willing, Leaving
      <3>3. CASE ~ Placing(p, b, d, x)
        <4>1. Aside(p, b, "recheck", c, d, x)
          BY <1>3, <3>2, <3>3, SideTypes DEF Aside
        <4>. QED BY <1>1, <1>3, <1>8, <3>1, <4>1, AsideServed
      <3>4. CASE Placing(p, b, d, x)
        <4>1. On(c, d, x) /\ MustWait(c)
          BY <1>8, <3>4 DEF Placing, On
        <4>2. Available(d, x, q'[x]) = 0
          BY <1>3, <4>1, NothingThere
        <4>3. LockOn(d, q'[x]) \in Nat \cup {queueUNLOCKED}
          BY <3>1 DEF LockFits
        <4>. DEFINE W == Wts(k, EventOn(d, x))
                    W2 == Wts(k', EventOn(d, x))
        <4>4. W \subseteq Tasks /\ W2 = W
          BY <1>3, SideTypes
        <4>. HIDE DEF W, W2
        <4>5. Turns(p, b, "recheck", c, W2, W, {}, {}, d, x)
          BY <3>2, <4>4 DEF Turns
        <4>6. Numbers(d, x, {})
          BY <4>2, <4>3 DEF Numbers, Provides
        <4>7. OwnServed(p, b, d, x)
          BY <1>1, <1>3, <4>5, <4>6 DEF OwnServed, W, W2
        <4>. QED BY <3>1, <4>7
      <3>. QED BY <3>3, <3>4
    <2>. QED BY <1>8, <2>1, OwnWatched
  <1>9. CASE Proceeds("unlockTx", e)
    BY <1>6, <1>8, <1>9
  <1>10. ASSUME MustWait(c), NEW p \in {"inherit", "place"}, Proceeds(p, c) PROVE Watched'
    BY <1>8, <1>10
  <1>. QED BY <1>4, <1>5, <1>9, <1>10

\* vTaskPlaceOnEventList: the running task joins those who wait, and will look again.
LEMMA PlaceWatched ==
    ASSUME QueueInv, QueueNext, Watched, Place
    PROVE  Watched'
  <1>1. PICK c : c = call[cur]
    OBVIOUS
  <1>2. Within("place") /\ c \in CallRecord /\ Legal(c) /\ q' = q /\ kpc[cur] = "place"
        /\ cur \in Tasks
    BY <1>1, WithinCall DEF Place, InQueue, Within, At
  <1>3. PICK e : e = [c EXCEPT !.after = "block"]
    OBVIOUS
  <1>4. e.op = c.op /\ e.queue = c.queue /\ e.after = "block"
    BY <1>2, <1>3 DEF CallRecord
  <1>5. Proceeds("unlockTx", e)
    BY <1>1, <1>3 DEF Place, To, Proceeds
  <1>6. PICK own \in Sides : /\ On(c, own, c.queue)
                             /\ EventOn(own, c.queue) = IF c.op \in Receivers THEN ToReceive(c.queue)
                                                        ELSE ToSend(c.queue)
    BY <1>2, OwnSide
  <1>7. \A f \in Events : Wts(k', f) = IF f = EventOn(own, c.queue) THEN Wts(k, f) \cup {cur}
                                       ELSE Wts(k, f)
    BY <1>1, <1>6, PlacementFacts DEF Joins
  <1>8. \A d \in Sides : "place" \in LockedAt(d) /\ "unlockTx" \in LockedAt(d)
    BY DEF LockedAt
  <1>9. ASSUME NEW d \in Sides, NEW x \in Queues
        PROVE  OwnServed("unlockTx", e, d, x) /\ LockFits("unlockTx", e, d, x)
    <2>. DEFINE W == Wts(k, EventOn(d, x))
                W2 == Wts(k', EventOn(d, x))
    <2>0. W \subseteq Tasks /\ W2 \subseteq Tasks
      BY SideTypes
    <2>1. LockFits("unlockTx", e, d, x)
      BY <1>1, <1>2, <1>4, <1>8, LocksStay
    <2>2. ~ Willing("place", c, d, x) /\ ~ Placing("unlockTx", e, d, x)
      BY DEF Willing, Placing, Leaving
    <2>3. CASE ~ On(c, d, x)
      <3>1. EventOn(d, x) # EventOn(own, c.queue) /\ EventOn(d, x) \in Events
        BY <1>2, <1>6, <2>3, SidesApart DEF Legal
      <3>2. W2 = W
        BY <1>7, <3>1
      <3>3. Aside("unlockTx", e, "place", c, d, x)
        BY <1>2, <2>2, <3>2, SideTypes DEF Aside
      <3>. QED BY <1>1, <1>2, <1>5, <2>1, <3>3, AsideServed
    <2>4. CASE On(c, d, x)
      <3>1. d = own /\ x = c.queue /\ EventOn(d, x) \in Events
        BY <1>2, <1>6, <2>4, SidesApart DEF Legal
      <3>2. W2 = W \cup {cur}
        BY <1>7, <3>1
      <3>3. Willing("unlockTx", e, d, x) /\ Placing("place", c, d, x)
        BY <1>4, <2>4 DEF Willing, Placing, Leaving, On
      <3>. HIDE DEF W, W2
      <3>4. Turns("unlockTx", e, "place", c, W2, W, {}, {cur}, d, x)
        BY <2>0, <2>2, <3>2, <3>3 DEF Turns
      <3>5. Somebody(kpc, call, W, d, x)
        BY <1>1, <1>2, <3>3 DEF Somebody, Threads
      <3>6. PICK av \in Int : av = Available(d, x, q[x])
        BY SideTypes
      <3>7. Cardinality({}) = 0 /\ av + 0 <= av
        BY <3>6, FS_EmptySet
      <3>8. Provides(av, LockOn(d, q[x]), Somebody(kpc', call', W2, d, x),
                     av, LockOn(d, q[x]), Somebody(kpc, call, W, d, x),
                     Cardinality({}), Cardinality(W \ W2))
        BY <3>5, <3>7 DEF Provides
      <3>9. Numbers(d, x, {})
        BY <1>2, <3>6, <3>8 DEF Numbers, W, W2
      <3>. QED BY <1>1, <1>2, <2>1, <3>4, <3>9 DEF OwnServed, W, W2
    <2>. QED BY <2>3, <2>4
  <1>. QED BY <1>5, <1>9, OwnWatched

\* p0 and p are the places of the running task before and after it has unlocked the side b
Unlocking(p0, p, b) ==
    \/ p0 = "unlockTx" /\ p = "unlockRx" /\ b = "receive"
    \/ p0 = "unlockRx" /\ p = "resumeCall" /\ b = "send"
\* z has the side b of the queue y unlocked
UnlockedOn(z2, z, y, b) ==
    \A x \in Queues : /\ z2[x].uxMessagesWaiting = z[x].uxMessagesWaiting
                      /\ \A d \in Sides : LockOn(d, z2[x]) = IF x = y /\ d = b THEN queueUNLOCKED
                                                             ELSE LockOn(d, z[x])

\* What prvUnlockQueue does to one side.
LEMMA UnlockEffect ==
    ASSUME QueueInv, UnlockTx \/ UnlockRx
    PROVE  \E p \in {"unlockRx", "resumeCall"} : \E b \in Sides :
              LET c == call[cur] IN
              /\ Unlocking(kpc[cur], p, b) /\ Proceeds(p, c) /\ c.queue \in Queues
              /\ UnlockedOn(q', q, c.queue, b) /\ Fewer(k', k)
              /\ Served(k', k, EventOn(b, c.queue), LockOn(b, q[c.queue]))
  <1>. DEFINE c == call[cur]
              y == c.queue
  <1>0. Fewer(k', k)
    BY BrieflyGentle DEF Briefly, Gentle
  <1>1. CASE UnlockTx
    <2>1. Within("unlockTx")
      BY <1>1, WithinCall DEF UnlockTx, InQueue
    <2>2. /\ KernelOK(k) /\ Stores(q) /\ y \in Queues /\ StoreOK(y, q[y]) /\ ToReceive(y) \in Events
          /\ kpc[cur] = "unlockTx"
      BY <2>1 DEF Within, At
    <2>3. /\ k' = WakeFor(k, ToReceive(y), q[y].cTxLock)
          /\ q' = [q EXCEPT ![y] = [q[y] EXCEPT !.cTxLock = queueUNLOCKED]]
          /\ Proceeds("unlockRx", c)
      BY <1>1 DEF UnlockTx, To, Proceeds
    <2>. HIDE DEF y
    <2>4. q[y].cTxLock \in Int
      BY <2>2, LockTypes
    <2>5. Served(k', k, ToReceive(y), q[y].cTxLock)
      BY <2>2, <2>3, <2>4, WakeForGentle
    <2>. DEFINE n == [q[y] EXCEPT !.cTxLock = queueUNLOCKED]
    <2>6. /\ n.uxMessagesWaiting = q[y].uxMessagesWaiting /\ n.cRxLock = q[y].cRxLock
          /\ n.cTxLock = queueUNLOCKED
      <3>1. q[y] \in Record(uxLength[y], Items \cup {NoItem}, Int, Tasks \cup {NoTask})
        BY <2>2 DEF StoreOK
      <3>. QED BY <3>1 DEF Record
    <2>7. \A x \in Queues : q'[x] = IF x = y THEN n ELSE q[x]
      BY <2>2, <2>3 DEF Stores
    <2>. HIDE DEF n
    <2>8. UnlockedOn(q', q, y, "receive")
      BY <2>6, <2>7 DEF UnlockedOn, LockOn, Sides
    <2>9. /\ Unlocking(kpc[cur], "unlockRx", "receive") /\ Proceeds("unlockRx", c) /\ y \in Queues
          /\ UnlockedOn(q', q, y, "receive") /\ Fewer(k', k)
          /\ Served(k', k, EventOn("receive", y), LockOn("receive", q[y]))
      BY <1>0, <2>2, <2>3, <2>5, <2>8 DEF Unlocking, EventOn, LockOn
    <2>. QED BY <2>9 DEF Sides, y
  <1>2. CASE UnlockRx
    <2>1. Within("unlockRx")
      BY <1>2, WithinCall DEF UnlockRx, InQueue
    <2>2. /\ KernelOK(k) /\ Stores(q) /\ y \in Queues /\ StoreOK(y, q[y]) /\ ToSend(y) \in Events
          /\ kpc[cur] = "unlockRx"
      BY <2>1 DEF Within, At
    <2>3. /\ k' = WakeFor(k, ToSend(y), q[y].cRxLock)
          /\ q' = [q EXCEPT ![y] = [q[y] EXCEPT !.cRxLock = queueUNLOCKED]]
          /\ Proceeds("resumeCall", c)
      BY <1>2 DEF UnlockRx, To, Proceeds
    <2>. HIDE DEF y
    <2>4. q[y].cRxLock \in Int
      BY <2>2, LockTypes
    <2>5. Served(k', k, ToSend(y), q[y].cRxLock)
      BY <2>2, <2>3, <2>4, WakeForGentle
    <2>. DEFINE n == [q[y] EXCEPT !.cRxLock = queueUNLOCKED]
    <2>6. /\ n.uxMessagesWaiting = q[y].uxMessagesWaiting /\ n.cTxLock = q[y].cTxLock
          /\ n.cRxLock = queueUNLOCKED
      <3>1. q[y] \in Record(uxLength[y], Items \cup {NoItem}, Int, Tasks \cup {NoTask})
        BY <2>2 DEF StoreOK
      <3>. QED BY <3>1 DEF Record
    <2>7. \A x \in Queues : q'[x] = IF x = y THEN n ELSE q[x]
      BY <2>2, <2>3 DEF Stores
    <2>. HIDE DEF n
    <2>8. UnlockedOn(q', q, y, "send")
      BY <2>6, <2>7 DEF UnlockedOn, LockOn, Sides
    <2>9. /\ Unlocking(kpc[cur], "resumeCall", "send") /\ Proceeds("resumeCall", c) /\ y \in Queues
          /\ UnlockedOn(q', q, y, "send") /\ Fewer(k', k)
          /\ Served(k', k, EventOn("send", y), LockOn("send", q[y]))
      BY <1>0, <2>2, <2>3, <2>5, <2>8 DEF Unlocking, EventOn, LockOn
    <2>. QED BY <2>9 DEF Sides, y
  <1>. QED BY <1>1, <1>2

\* prvUnlockQueue wakes for what interrupts have put there meanwhile.
LEMMA UnlockWatched ==
    ASSUME QueueInv, QueueNext, Watched, UnlockTx \/ UnlockRx
    PROVE  Watched'
  <1>1. PICK c : c = call[cur]
    OBVIOUS
  <1>2. PICK p \in {"unlockRx", "resumeCall"}, own \in Sides :
              /\ Unlocking(kpc[cur], p, own) /\ Proceeds(p, c) /\ c.queue \in Queues
              /\ UnlockedOn(q', q, c.queue, own) /\ Fewer(k', k)
              /\ Served(k', k, EventOn(own, c.queue), LockOn(own, q[c.queue]))
    BY <1>1, UnlockEffect
  <1>3. PICK p0 : p0 = kpc[cur]
    OBVIOUS
  <1>4. Unlocking(p0, p, own)
    BY <1>2, <1>3
  <1>5. \A d \in Sides : (p \in LockedAt(d)) <=> (p0 \in LockedAt(d) /\ d # own)
    BY <1>4 DEF Unlocking, LockedAt, Sides
  <1>6. ASSUME NEW d \in Sides, NEW x \in Queues
        PROVE  OwnServed(p, c, d, x) /\ LockFits(p, c, d, x)
    <2>. DEFINE W == Wts(k, EventOn(d, x))
                W2 == Wts(k', EventOn(d, x))
    <2>1. W \subseteq Tasks /\ W2 \subseteq W
      BY <1>2, SideTypes, SidesApart DEF Fewer
    <2>2. (Willing(p0, c, d, x) => Willing(p, c, d, x)) /\ ~ Placing(p, c, d, x)
      BY <1>4 DEF Unlocking, Willing, Placing, Leaving
    <2>3. Available(d, x, q'[x]) = Available(d, x, q[x])
      BY <1>2 DEF Available, UnlockedOn
    <2>4. CASE ~ (x = c.queue /\ d = own)
      <3>1. LockOn(d, q'[x]) = LockOn(d, q[x])
        BY <1>2, <2>4 DEF UnlockedOn
      <3>2. (p \in LockedAt(d) /\ c.queue = x) <=> (p0 \in LockedAt(d) /\ c.queue = x)
        BY <1>5, <2>4
      <3>3. LockFits(p, c, d, x)
        BY <1>1, <1>3, <3>1, <3>2, LocksStay
      <3>4. Aside(p, c, p0, c, d, x)
        BY <2>1, <2>2, <2>3, <3>1, SideTypes DEF Aside
      <3>. QED BY <1>1, <1>2, <1>3, <3>3, <3>4, AsideServed
    <2>5. CASE x = c.queue /\ d = own
      <3>1. LockOn(d, q'[x]) = queueUNLOCKED /\ p \notin LockedAt(d)
        BY <1>2, <1>5, <2>5 DEF UnlockedOn
      <3>2. W2 = {} \/ Cardinality(W \ W2) >= LockOn(d, q[x])
        BY <1>2, <2>5 DEF Served, Spare
      <3>. HIDE DEF W, W2
      <3>3. Turns(p, c, p0, c, W2, W, {}, {}, d, x)
        BY <2>1, <2>2 DEF Turns
      <3>4. Somebody(kpc', call', W2, d, x) => Somebody(kpc, call, W, d, x)
        BY <1>2, <2>1, <2>2, OwnSomebody
      <3>5. Somebody(kpc', call', W2, d, x) => W2 # {}
        <4>1. cur \in Threads /\ \A t \in Threads : kpc[t] \in Alone => t = cur
          BY DEF QueueInv, CallsOK, Suspension, KernelOK, Kernel, cur
        <4>2. \A t \in Threads : /\ kpc'[t] = IF t = cur THEN p ELSE kpc[t]
                                 /\ call'[t] = IF t = cur THEN c ELSE call[t]
          BY <1>2 DEF Proceeds, QueueInv, CallsOK, InCalls
        <4>3. \A t \in Threads : ~ Placing(kpc'[t], call'[t], d, x)
          <5>1. ASSUME NEW t \in Threads, t # cur PROVE ~ Placing(kpc'[t], call'[t], d, x)
            BY <4>1, <4>2, <5>1 DEF Placing, Alone
          <5>. QED BY <2>2, <4>1, <4>2, <5>1
        <4>. QED BY <4>3 DEF Somebody
      <3>6. PICK av \in Int : av = Available(d, x, q[x])
        BY SideTypes
      <3>7. Cardinality({}) = 0 /\ av + 0 <= av
        BY <3>6, FS_EmptySet
      <3>8. Provides(av, queueUNLOCKED, Somebody(kpc', call', W2, d, x),
                     av, LockOn(d, q[x]), Somebody(kpc, call, W, d, x),
                     Cardinality({}), Cardinality(W \ W2))
        BY <3>2, <3>4, <3>5, <3>7 DEF Provides
      <3>9. Numbers(d, x, {})
        BY <2>3, <3>1, <3>6, <3>8 DEF Numbers, W, W2
      <3>10. OwnServed(p, c, d, x)
        BY <1>1, <1>3, <3>3, <3>9 DEF OwnServed, W, W2
      <3>. QED BY <3>1, <3>10 DEF LockFits
    <2>. QED BY <2>4, <2>5
  <1>. QED BY <1>2, <1>6, OwnWatched

\* Nobody waits there any more, or one who did does not.
Stirring(n, s, e) == Wts(n, e) = {} \/ Cardinality(Wts(s, e) \ Wts(n, e)) >= 1

\* Whoever is first in an event list is taken out of it, if anybody is.
LEMMA Stirs ==
    ASSUME NEW s \in Kernel, NEW n \in Kernel, NEW e \in Events, FirstWoken(n, s, e)
    PROVE  Stirring(n, s, e)
  <1>1. Served(s, s, e, 0)
    <2>1. Spare(s, s, e) = {}
      BY DEF Spare
    <2>. QED BY <2>1, FS_EmptySet DEF Served
  <1>2. Fewer(s, s)
    BY DEF Fewer
  <1>3. Served(n, s, e, 0 + 1)
    BY <1>1, <1>2, ServedOneMore
  <1>. QED BY <1>3 DEF Served, Spare, Stirring

\* what is on the side d of x, and who has been woken there, when a task in the call c has tried
Yields(d, x, c) ==
    LET av2 == Available(d, x, q'[x])
        av == Available(d, x, q[x])
        stirred == Stirring(k', k, EventOn(d, x))
    IN  IF On(c, d, x) THEN av2 <= 0 \/ av2 + 1 <= av \/ (av2 <= av /\ stirred)
        ELSE av2 <= av \/ (av2 <= av + 1 /\ stirred)
\* a task in the call c has tried, and is at p in the call b
Outcome(p, b, c) ==
    /\ Proceeds(p, b) /\ Fewer(k', k) /\ \A x \in Queues : SameLocks(q'[x], q[x])
    /\ \A d \in Sides, x \in Queues : Yields(d, x, c)

\* One queue is another, and the two sides of it have gained what they have.
LEMMA OneYields ==
    ASSUME Stores(q), NEW c, Legal(c), NEW y, y = c.queue, NEW n,
           q' = [q EXCEPT ![y] = n] \/ (q' = q /\ n = q[y]),
           SameLocks(n, q[y]), \A d \in Sides : Yields(d, y, c),
           Fewer(k', k), NEW p, NEW b, Proceeds(p, b)
    PROVE  Outcome(p, b, c)
  <1>1. y \in Queues /\ \A x \in Queues : q'[x] = IF x = y THEN n ELSE q[x]
    BY DEF Stores, Legal
  <1>2. \A x \in Queues : SameLocks(q'[x], q[x])
    BY <1>1 DEF SameLocks
  <1>3. ASSUME NEW d \in Sides, NEW x \in Queues, x # y PROVE Yields(d, x, c)
    <2>1. q'[x] = q[x] /\ ~ On(c, d, x)
      BY <1>1, <1>3 DEF On
    <2>2. StoreOK(x, q[x])
      BY DEF Stores
    <2>3. Available(d, x, q[x]) \in Int
      BY <2>2, QueueAssumption DEF StoreOK, Record, Available
    <2>. QED BY <2>1, <2>3 DEF Yields
  <1>. QED BY <1>2, <1>3 DEF Outcome

\* xQueueGenericSend
LEMMA SendOutcome ==
    ASSUME NEW p0, NEW c, Tries(p0, c), xQueueGenericSend(c), k' \in Kernel
    PROVE  \E b : Outcome("done", b, c)
  <1>. DEFINE x == c.queue
              e == ToReceive(x)
              s == IF x \in Mutexes THEN xTaskPriorityDisinherit(k, cur) ELSE k
              n == prvCopyDataToQueue(x, c)
  <1>1. /\ KernelOK(k) /\ Stores(q) /\ cur \in Tasks /\ x \in Queues /\ StoreOK(x, q[x])
        /\ Legal(c) /\ e \in Events /\ QueueInv /\ cur \in Threads
    BY TriesFacts DEF Tries, Threads
  <1>2. c.op \in Senders /\ q' = [q EXCEPT ![x] = n] /\ k' = Wake(s, e).s
    BY DEF xQueueGenericSend
  <1>3. PICK b : Proceeds("done", b)
    BY DEF xQueueGenericSend, Finish, To, Proceeds
  <1>4. KernelOK(s) /\ \A f \in Events : Wts(s, f) = Wts(k, f)
    <2>1. CASE x \in Mutexes /\ Disinherits(cur)
      <3>1. PICK own \in Priorities : own = InitialPriority[cur]
        BY <1>1, InitialPriorityType
      <3>2. s = ChangePriority(k, cur, own)
        BY <2>1, <3>1 DEF xTaskPriorityDisinherit
      <3>. QED BY <1>1, <3>2, ChangeGentle, ChangeKeeps DEF Reprioritised
    <2>2. CASE ~ (x \in Mutexes /\ Disinherits(cur))
      <3>1. s = k
        BY <2>2 DEF xTaskPriorityDisinherit
      <3>. QED BY <1>1, <3>1
    <2>. QED BY <2>1, <2>2
  <1>5. SameLocks(n, q[x]) /\ n.uxMessagesWaiting \in Int
        /\ n.uxMessagesWaiting <= q[x].uxMessagesWaiting + 1
        /\ (n.uxMessagesWaiting >= q[x].uxMessagesWaiting + 1 \/ n.uxMessagesWaiting >= uxLength[x])
    BY <1>1, <1>2, SendCounts
  <1>. HIDE DEF s, n
  <1>6. Fewer(k', k) /\ Stirring(k', k, e)
    <2>. HIDE DEF e
    <2>1. Gentle(k', s) /\ FirstWoken(k', s, e) /\ s \in Kernel
      BY <1>1, <1>2, <1>4, WakeGentle DEF KernelOK
    <2>2. Stirring(k', s, e)
      BY <1>1, <2>1, Stirs
    <2>. QED BY <1>1, <1>4, <2>1, <2>2 DEF Gentle, Fewer, Stirring
  <1>7. ASSUME NEW d \in Sides PROVE Yields(d, x, c)
    <2>1. q'[x] = n
      BY <1>1, <1>2 DEF Stores
    <2>2. PICK i, j, l \in Int : /\ i = q[x].uxMessagesWaiting /\ j = n.uxMessagesWaiting
                                 /\ l = uxLength[x]
      BY <1>1, <1>5, QueueAssumption DEF StoreOK, Record
    <2>3. j <= i + 1 /\ (j >= i + 1 \/ j >= l)
      BY <1>5, <2>2
    <2>4. Senders \cap Receivers = {}
      BY DEF Senders, Receivers
    <2>5. CASE d = "receive"
      <3>1. ~ On(c, d, x) /\ Available(d, x, q'[x]) = j /\ Available(d, x, q[x]) = i
            /\ EventOn(d, x) = e
        BY <1>2, <2>1, <2>2, <2>4, <2>5 DEF On, OpsOn, Available, EventOn
      <3>. QED BY <1>6, <2>3, <3>1 DEF Yields
    <2>6. CASE d = "send"
      <3>1. On(c, d, x) /\ Available(d, x, q'[x]) = l - j /\ Available(d, x, q[x]) = l - i
        BY <1>2, <2>1, <2>2, <2>6 DEF On, OpsOn, Available
      <3>2. l - j <= 0 \/ l - j + 1 <= l - i
        BY <2>3
      <3>. QED BY <3>1, <3>2 DEF Yields
    <2>. QED BY <2>5, <2>6 DEF Sides
  <1>8. Outcome("done", b, c)
    BY <1>1, <1>2, <1>3, <1>5, <1>6, <1>7, OneYields
  <1>. QED BY <1>8

\* xQueueReceive and xQueueSemaphoreTake
LEMMA ReceiveOutcome ==
    ASSUME NEW p0, NEW c, Tries(p0, c), xQueueReceive(c) \/ xQueueSemaphoreTake(c), k' \in Kernel
    PROVE  \E b : Outcome("done", b, c)
  <1>. DEFINE x == c.queue
              e == ToSend(x)
  <1>1. /\ KernelOK(k) /\ Stores(q) /\ x \in Queues /\ StoreOK(x, q[x])
        /\ Legal(c) /\ e \in Events /\ k \in Kernel
    BY TriesFacts DEF KernelOK
  <1>2. c.op \in Receivers /\ k' = Wake(k, e).s
    BY DEF xQueueReceive, xQueueSemaphoreTake, Receivers
  <1>3. PICK b : Proceeds("done", b)
    BY DEF xQueueReceive, xQueueSemaphoreTake, Finish, To, Proceeds
  <1>4. PICK n : /\ q' = [q EXCEPT ![x] = n] /\ SameLocks(n, q[x])
                 /\ n.uxMessagesWaiting = q[x].uxMessagesWaiting - 1
    <2>1. CASE xQueueReceive(c)
      <3>1. q' = [q EXCEPT ![x] = prvCopyDataFromQueue(x)]
        BY <2>1 DEF xQueueReceive
      <3>. QED BY <1>1, <3>1, ReceiveCounts
    <2>2. CASE xQueueSemaphoreTake(c)
      <3>. DEFINE h == IF x \in Mutexes THEN cur ELSE NoTask
                  m == [prvCopyDataFromQueue(x) EXCEPT !.xMutexHolder = h]
      <3>1. q' = [q EXCEPT ![x] = m]
        BY <2>2 DEF xQueueSemaphoreTake
      <3>2. SameLocks(m, q[x]) /\ m.uxMessagesWaiting = q[x].uxMessagesWaiting - 1
        <4>. HIDE DEF h, x
        <4>. QED BY <1>1, ReceiveCounts
      <3>. HIDE DEF m
      <3>. QED BY <3>1, <3>2
    <2>. QED BY <2>1, <2>2
  <1>6. Fewer(k', k) /\ Stirring(k', k, e)
    <2>. HIDE DEF e
    <2>1. Gentle(k', k) /\ FirstWoken(k', k, e)
      BY <1>1, <1>2, WakeGentle
    <2>. QED BY <1>1, <2>1, Stirs DEF Gentle
  <1>7. ASSUME NEW d \in Sides PROVE Yields(d, x, c)
    <2>1. q'[x] = n
      BY <1>1, <1>4 DEF Stores
    <2>2. PICK i, l \in Int : i = q[x].uxMessagesWaiting /\ l = uxLength[x]
      BY <1>1, QueueAssumption DEF StoreOK, Record
    <2>3. PICK j \in Int : j = n.uxMessagesWaiting /\ j = i - 1
      BY <1>4, <2>2
    <2>4. Senders \cap Receivers = {}
      BY DEF Senders, Receivers
    <2>5. CASE d = "receive"
      <3>1. On(c, d, x) /\ Available(d, x, q'[x]) = j /\ Available(d, x, q[x]) = i
        BY <1>2, <2>1, <2>2, <2>3, <2>5 DEF On, OpsOn, Available
      <3>2. j + 1 <= i
        BY <2>3
      <3>. QED BY <3>1, <3>2 DEF Yields
    <2>6. CASE d = "send"
      <3>1. ~ On(c, d, x) /\ Available(d, x, q'[x]) = l - j /\ Available(d, x, q[x]) = l - i
            /\ EventOn(d, x) = e
        BY <1>2, <2>1, <2>2, <2>3, <2>4, <2>6 DEF On, OpsOn, Available, EventOn
      <3>2. l - j <= l - i + 1
        BY <2>3
      <3>. QED BY <1>6, <3>1, <3>2 DEF Yields
    <2>. QED BY <2>5, <2>6 DEF Sides
  <1>8. Outcome("done", b, c)
    BY <1>1, <1>3, <1>4, <1>6, <1>7, OneYields
  <1>. QED BY <1>8

\* xQueuePeek, and a call that finds nothing.
LEMMA LookOutcome ==
    ASSUME NEW p0, NEW c, Tries(p0, c), xQueuePeek(c) \/ Refuse(c) \/ GoToWait(c), k' \in Kernel
    PROVE  \E p \in {"done", "suspend"} : \E b : Outcome(p, b, c)
  <1>. DEFINE x == c.queue
              e == ToReceive(x)
  <1>1. /\ KernelOK(k) /\ Stores(q) /\ x \in Queues /\ StoreOK(x, q[x])
        /\ Legal(c) /\ e \in Events /\ k \in Kernel
    BY TriesFacts DEF KernelOK
  <1>2. q' = q
    BY DEF xQueuePeek, Refuse, GoToWait
  <1>3. PICK p \in {"done", "suspend"} : \E b : Proceeds(p, b)
    BY DEF xQueuePeek, Refuse, GoToWait, Finish, To, Proceeds
  <1>9. PICK b : Proceeds(p, b)
    BY <1>3
  <1>4. \/ c.op = "peek" /\ k' = Wake(k, e).s
        \/ MustWait(c) /\ k' = k
    BY DEF xQueuePeek, PeekWakes, Refuse, GoToWait
  <1>5. Fewer(k', k) /\ (MustWait(c) \/ Stirring(k', k, e))
    <2>1. CASE k' = k /\ MustWait(c)
      BY <2>1 DEF Fewer
    <2>2. CASE k' = Wake(k, e).s
      <3>. HIDE DEF e
      <3>1. Gentle(k', k) /\ FirstWoken(k', k, e)
        BY <1>1, <2>2, WakeGentle
      <3>. QED BY <1>1, <3>1, Stirs DEF Gentle
    <2>. QED BY <1>4, <2>1, <2>2
  <1>6. ASSUME NEW d \in Sides PROVE Yields(d, x, c)
    <2>1. PICK av \in Int : av = Available(d, x, q[x]) /\ av = Available(d, x, q'[x])
      BY <1>1, <1>2, QueueAssumption DEF Stores, StoreOK, Record, Available
    <2>2. av <= av
      BY <2>1
    <2>3. CASE ~ On(c, d, x)
      BY <2>1, <2>2, <2>3 DEF Yields
    <2>4. CASE On(c, d, x) /\ MustWait(c)
      <3>1. av = 0
        BY <1>1, <2>1, <2>4, NothingThere
      <3>. QED BY <2>1, <2>4, <3>1 DEF Yields
    <2>5. CASE On(c, d, x) /\ ~ MustWait(c)
      <3>1. d = "receive"
        BY <1>4, <2>5 DEF On, OpsOn, Sides, Senders
      <3>2. Stirring(k', k, EventOn(d, x))
        BY <1>5, <2>5, <3>1 DEF EventOn
      <3>. QED BY <2>1, <2>2, <2>5, <3>2 DEF Yields
    <2>. QED BY <2>3, <2>4, <2>5
  <1>7. SameLocks(q[x], q[x])
    BY DEF SameLocks
  <1>8. Outcome(p, b, c)
    <2>1. PICK n : n = q[x]
      OBVIOUS
    <2>. QED BY <1>1, <1>2, <1>5, <1>6, <1>7, <1>9, <2>1, OneYields
  <1>. QED BY <1>3, <1>8

\* A task that has tried leaves for those who wait what it has not used itself.
LEMMA TriedWatched ==
    ASSUME QueueNext, Watched, NEW p0, NEW c, Tries(p0, c), p0 = "run" \/ c = call[cur],
           NEW p \in {"done", "suspend"}, NEW b, Outcome(p, b, c)
    PROVE  Watched'
  <1>1. /\ QueueInv /\ kpc[cur] = p0 /\ p0 \in {"run", "try"} /\ cur \in Tasks /\ cur \in Threads
        /\ IsReady(k, cur) /\ KernelOK(k)
    BY TriesFacts DEF Tries, At, cur, Threads
  <1>2. /\ Proceeds(p, b) /\ Fewer(k', k) /\ \A x \in Queues : SameLocks(q'[x], q[x])
        /\ \A d \in Sides, x \in Queues : Yields(d, x, c)
    BY DEF Outcome
  <1>3. \A e \in Events : cur \notin Wts(k, e)
    <2>1. ~ Waits(k, cur)
      BY <1>1 DEF KernelOK, ListsOK, TaskOK
    <2>. QED BY <2>1 DEF Waits
  <1>4. \A t \in Threads : kpc'[t] \notin Alone
    <2>1. \A t \in Threads : kpc[t] \in Alone => t = cur
      BY <1>1 DEF QueueInv, CallsOK, Suspension, cur
    <2>2. p \notin Alone
      BY DEF Alone
    <2>3. \A t \in Threads : kpc'[t] = IF t = cur THEN p ELSE kpc[t]
      BY <1>1, <1>2 DEF Proceeds, QueueInv, CallsOK, InCalls
    <2>. QED BY <2>1, <2>2, <2>3
  <1>5. ASSUME NEW d \in Sides, NEW x \in Queues
        PROVE  OwnServed(p, b, d, x) /\ LockFits(p, b, d, x)
    <2>. DEFINE W == Wts(k, EventOn(d, x))
                W2 == Wts(k', EventOn(d, x))
    <2>1. W \subseteq Tasks /\ W2 \subseteq W /\ cur \notin W
      BY <1>1, <1>2, <1>3, SideTypes, SidesApart DEF Fewer
    <2>2. p \notin LockedAt(d) /\ p0 \notin LockedAt(d)
      BY <1>1 DEF LockedAt
    <2>3. LockOn(d, q[x]) = queueUNLOCKED /\ LockOn(d, q'[x]) = queueUNLOCKED
      <3>1. LockOn(d, q[x]) = queueUNLOCKED
        BY <1>1, <2>2, LockedBefore DEF Watched, LocksOK
      <3>. QED BY <1>2, <3>1 DEF SameLocks, LockOn
    <2>4. LockFits(p, b, d, x)
      BY <2>2, <2>3 DEF LockFits
    <2>. DEFINE some2 == Somebody(kpc', call', W2, d, x)
                some == Somebody(kpc, call, W, d, x)
                v == Cardinality(W \ W2)
    <2>5. (some2 => W2 # {}) /\ (W # {} => some)
      BY <1>4 DEF Somebody, Placing, Alone
    <2>6. PICK av2, av \in Int : av2 = Available(d, x, q'[x]) /\ av = Available(d, x, q[x])
      BY <1>1, SideTypes
    <2>7. Stirring(k', k, EventOn(d, x)) => (some2 => v >= 1)
      BY <2>5 DEF Stirring
    <2>8. some2 => some
      BY <2>1, <2>5
    <2>. HIDE DEF W, W2, some2, some, v
    <2>9. CASE On(c, d, x)
      <3>1. Turns(p, b, p0, call[cur], W2, W, {cur}, {}, d, x)
        BY <1>1, <2>1 DEF Turns
      <3>2. av2 <= 0 \/ av2 + 1 <= av \/ (av2 <= av /\ (some2 => v >= 1))
        BY <1>2, <2>6, <2>7, <2>9 DEF Yields
      <3>3. av2 <= av => av2 + 1 <= av + 1
        BY <2>6
      <3>4. Cardinality({cur}) = 1
        BY FS_Singleton
      <3>5. Provides(av2, queueUNLOCKED, some2, av, queueUNLOCKED, some, 1, v)
        BY <2>8, <3>2, <3>3 DEF Provides
      <3>6. Numbers(d, x, {cur})
        BY <2>3, <2>6, <3>4, <3>5 DEF Numbers, W, W2, some2, some, v
      <3>. QED BY <1>1, <2>4, <3>1, <3>6 DEF OwnServed, W, W2
    <2>10. CASE ~ On(c, d, x)
      <3>1. ~ Willing(p0, call[cur], d, x)
        BY <1>1, <2>10 DEF Willing, Leaving
      <3>2. Turns(p, b, p0, call[cur], W2, W, {}, {}, d, x)
        BY <1>1, <2>1, <3>1 DEF Turns
      <3>3. av2 + 0 <= av \/ (av2 + 0 <= av + 1 /\ (some2 => v >= 1))
        BY <1>2, <2>6, <2>7, <2>10 DEF Yields
      <3>4. Cardinality({}) = 0
        BY FS_EmptySet
      <3>5. Provides(av2, queueUNLOCKED, some2, av, queueUNLOCKED, some, 0, v)
        BY <2>8, <3>3 DEF Provides
      <3>6. Numbers(d, x, {})
        BY <2>3, <2>6, <3>4, <3>5 DEF Numbers, W, W2, some2, some, v
      <3>. QED BY <1>1, <2>4, <3>2, <3>6 DEF OwnServed, W, W2
    <2>. QED BY <2>9, <2>10
  <1>. QED BY <1>1, <1>2, <1>5, OwnWatched

\* The first critical section of a call.
LEMMA TryWatched ==
    ASSUME QueueInv, QueueNext, Watched, (\E r \in Requests : Start(r)) \/ Retry
    PROVE  Watched'
  <1>0. UNCHANGED load /\ k' \in Kernel
    BY NextKernel DEF QueueNext, KernelOK
  <1>1. PICK p0, c : Tries(p0, c) /\ Try(c) /\ (p0 = "run" \/ c = call[cur])
    BY <1>0, StartTries, RetryTries
  <1>2. \E p \in {"done", "suspend"} : \E b : Outcome(p, b, c)
    BY <1>0, <1>1, SendOutcome, ReceiveOutcome, LookOutcome DEF Try
  <1>. QED BY <1>1, <1>2, TriedWatched

\* an interrupt has put one more there for those who wait on the side b of y, at most, and
\* has counted it, or woken one of them
Counts(b, y) ==
    /\ UNCHANGED <<kpc, call>> /\ Fewer(k', k)
    /\ \A d \in Sides, x \in Queues :
          IF d = b /\ x = y
          THEN /\ LockOn(d, q'[x]) = prvIncrementQueueLock(LockOn(d, q[x]))
               /\ Available(d, x, q'[x]) <= Available(d, x, q[x]) + 1
               /\ LockOn(d, q[x]) = queueUNLOCKED => Stirring(k', k, EventOn(d, x))
          ELSE /\ LockOn(d, q'[x]) = LockOn(d, q[x])
               /\ Available(d, x, q'[x]) <= Available(d, x, q[x])

\* What an interrupt does to a queue is known to those who wait, or will be.
LEMMA CountsWatched ==
    ASSUME QueueInv, QueueNext, Watched, NEW b \in Sides, NEW y \in Queues, Counts(b, y)
    PROVE  Watched'
  <1>1. kpc' = kpc /\ call' = call
    BY DEF Counts
  <1>2. ASSUME NEW d \in Sides, NEW x \in Queues
        PROVE  /\ Serving(d, x)
               /\ IF Locked(kpc, call, d, x) THEN LockOn(d, q'[x]) \in Nat
                  ELSE LockOn(d, q'[x]) = queueUNLOCKED
    <2>. DEFINE W == Wts(k, EventOn(d, x))
                W2 == Wts(k', EventOn(d, x))
                some2 == Somebody(kpc', call', W2, d, x)
                some == Somebody(kpc, call, W, d, x)
                v == Cardinality(W \ W2)
                locked == Locked(kpc, call, d, x)
    <2>1. W \subseteq Tasks /\ W2 \subseteq W
      BY SideTypes, SidesApart DEF Fewer, Counts
    <2>2. some2 => some
      BY <1>1, <2>1 DEF Somebody
    <2>3. ~ locked => (some2 => W2 # {})
      BY <1>1 DEF Somebody, Placing, Locked, LockedAt, On
    <2>4. PICK lock, lock2 : lock = LockOn(d, q[x]) /\ lock2 = LockOn(d, q'[x])
      OBVIOUS
    <2>5. IF locked THEN lock \in Nat ELSE lock = queueUNLOCKED
      BY <2>4 DEF Watched, LocksOK
    <2>6. PICK av2, av \in Int : av2 = Available(d, x, q'[x]) /\ av = Available(d, x, q[x])
      BY SideTypes
    <2>7. PICK all \in Nat : all = uxTaskGetNumberOfTasks
      BY TasksCounted
    <2>8. -1 = queueUNLOCKED
      BY DEF queueUNLOCKED
    <2>. HIDE DEF some2, some, v, locked
    <2>9. Provides(av2, lock2, some2, av, lock, some, 0, v)
          /\ IF locked THEN lock2 \in Nat ELSE lock2 = queueUNLOCKED
      <3>1. CASE ~ (d = b /\ x = y)
        <4>1. lock2 = lock /\ av2 <= av
          BY <2>4, <2>6, <3>1 DEF Counts
        <4>2. av2 + 0 <= av
          BY <2>6, <4>1
        <4>. QED BY <2>2, <2>5, <4>1, <4>2 DEF Provides
      <3>2. CASE d = b /\ x = y
        <4>1. /\ lock2 = prvIncrementQueueLock(lock) /\ av2 <= av + 1
              /\ lock = queueUNLOCKED => Stirring(k', k, EventOn(d, x))
          BY <2>4, <2>6, <3>2 DEF Counts
        <4>2. av2 + 0 <= av + 1
          BY <2>6, <4>1
        <4>3. CASE locked
          <5>1. lock \in Nat /\ lock2 \in Nat
            BY <2>5, <2>7, <4>1, <4>3 DEF prvIncrementQueueLock
          <5>. QED BY <2>2, <4>1, <4>2, <4>3, <5>1 DEF Provides
        <4>4. CASE ~ locked
          <5>1. lock = queueUNLOCKED /\ lock2 = queueUNLOCKED
            BY <2>5, <4>1, <4>4 DEF prvIncrementQueueLock
          <5>2. some2 => v >= 1
            BY <2>3, <4>1, <4>4, <5>1 DEF Stirring, v
          <5>. QED BY <2>2, <4>2, <4>4, <5>1, <5>2 DEF Provides
        <4>. QED BY <4>3, <4>4
      <3>. QED BY <3>1, <3>2
    <2>. HIDE DEF W, W2
    <2>10. Shifts(kpc', call', W2, kpc, call, W, {}, {}, d, x)
      BY <1>1, <2>1 DEF Shifts
    <2>11. Cardinality({}) = 0
      BY FS_EmptySet
    <2>12. \E g, j : /\ Shifts(kpc', call', W2, kpc, call, W, g, j, d, x)
                     /\ Provides(Available(d, x, q'[x]), LockOn(d, q'[x]), some2,
                                 Available(d, x, q[x]), LockOn(d, q[x]), some, Cardinality(g), v)
      BY <2>4, <2>6, <2>9, <2>10, <2>11
    <2>13. Serving(d, x)
      BY <2>12 DEF Serving, Serves, W, W2, some2, some, v
    <2>. QED BY <2>4, <2>9, <2>13 DEF locked
  <1>3. LocksOK(kpc', call', q')
    BY <1>1, <1>2 DEF LocksOK
  <1>. QED BY <1>2, <1>3, WatchedOn

\* A wake-up from an interrupt, where the queue is not locked.
LEMMA IsrStirs ==
    ASSUME QueueInv, NEW e \in Events, NEW lock, WakeFromIsr(e, lock)
    PROVE  Fewer(k', k) /\ (lock = queueUNLOCKED => Stirring(k', k, e))
  <1>1. Fewer(k', k)
    BY WakeIsrEffect DEF Gentle
  <1>2. ASSUME lock = queueUNLOCKED PROVE Stirring(k', k, e)
    <2>1. PICK m : /\ m \in Kernel /\ k' \in Kernel /\ FirstWoken(m, k, e)
                   /\ Gentle(m, k) /\ Gentle(k', m)
      BY <1>2, WakeIsrEffect
    <2>2. k \in Kernel
      BY DEF QueueInv, CallsOK, KernelOK
    <2>3. Stirring(m, k, e)
      BY <2>1, <2>2, Stirs
    <2>4. Wts(k', e) \subseteq Wts(m, e) /\ Wts(m, e) \subseteq Wts(k, e)
      BY <2>1 DEF Gentle, Fewer
    <2>5. IsFiniteSet(Wts(k, e))
      BY <2>2, FiniteWaits
    <2>. DEFINE A == Wts(k, e) \ Wts(m, e)
                B == Wts(k, e) \ Wts(k', e)
    <2>6. A \subseteq B /\ IsFiniteSet(B)
      BY <2>4, <2>5, FS_Subset
    <2>. HIDE DEF A, B
    <2>7. Cardinality(A) <= Cardinality(B) /\ Cardinality(A) \in Nat /\ Cardinality(B) \in Nat
      BY <2>6, FS_Subset, FS_CardinalityType
    <2>8. Wts(m, e) = {} => Wts(k', e) = {}
      BY <2>4
    <2>. QED BY <2>3, <2>7, <2>8 DEF Stirring, A, B
  <1>. QED BY <1>1, <1>2

\* xQueueGenericSendFromISR and xQueueGiveFromISR
LEMMA SendIsrWatched ==
    ASSUME QueueInv, QueueNext, Watched, NEW r \in IsrRequests, xQueueGenericSendFromISR(r)
    PROVE  Watched'
  <1>. DEFINE y == r.queue
              m == prvCopyDataToQueue(y, r)
              n == [m EXCEPT !.cTxLock = prvIncrementQueueLock(@)]
  <1>1. Legal(r) /\ y \in Queues /\ ToReceive(y) \in Events /\ Stores(q) /\ StoreOK(y, q[y])
    BY IsrRequest, IsrFacts DEF Stores
  <1>2. /\ r.op \in Senders /\ ~ MustWait(r) /\ q' = [q EXCEPT ![y] = n]
        /\ WakeFromIsr(ToReceive(y), q[y].cTxLock) /\ UNCHANGED <<kpc, call>>
    BY DEF xQueueGenericSendFromISR
  <1>3. StoreOK(y, m)
    BY <1>1, <1>2, CopyTo
  <1>4. /\ SameLocks(m, q[y]) /\ m.uxMessagesWaiting <= q[y].uxMessagesWaiting + 1
        /\ \/ m.uxMessagesWaiting >= q[y].uxMessagesWaiting + 1
           \/ m.uxMessagesWaiting >= uxLength[y]
    BY <1>1, <1>2, SendCounts
  <1>5. Fewer(k', k) /\ (q[y].cTxLock = queueUNLOCKED => Stirring(k', k, ToReceive(y)))
    <2>1. PICK lock : lock = q[y].cTxLock
      OBVIOUS
    <2>. HIDE DEF y
    <2>. QED BY <1>1, <1>2, <2>1, IsrStirs
  <1>. HIDE DEF m, y
  <1>6. /\ n.uxMessagesWaiting = m.uxMessagesWaiting /\ n.cRxLock = m.cRxLock
        /\ n.cTxLock = prvIncrementQueueLock(m.cTxLock)
    <2>1. m \in Record(uxLength[y], Items \cup {NoItem}, Int, Tasks \cup {NoTask})
      BY <1>3 DEF StoreOK
    <2>. QED BY <2>1 DEF Record
  <1>7. \A x \in Queues : q'[x] = IF x = y THEN n ELSE q[x]
    BY <1>1, <1>2 DEF Stores
  <1>. HIDE DEF n
  <1>8. PICK i, j, l \in Int : /\ i = q[y].uxMessagesWaiting /\ j = n.uxMessagesWaiting
                               /\ l = uxLength[y] /\ i <= l
    <2>1. m.uxMessagesWaiting \in Int /\ q[y].uxMessagesWaiting \in 0..uxLength[y] /\ uxLength[y] \in Int
      BY <1>1, <1>3, QueueAssumption DEF StoreOK, Record
    <2>. QED BY <1>6, <2>1
  <1>9. j <= i + 1 /\ (j >= i + 1 \/ j >= l)
    BY <1>4, <1>6, <1>8
  <1>10. ASSUME NEW d \in Sides, NEW x \in Queues
         PROVE  IF d = "receive" /\ x = y
                THEN /\ LockOn(d, q'[x]) = prvIncrementQueueLock(LockOn(d, q[x]))
                     /\ Available(d, x, q'[x]) <= Available(d, x, q[x]) + 1
                     /\ LockOn(d, q[x]) = queueUNLOCKED => Stirring(k', k, EventOn(d, x))
                ELSE /\ LockOn(d, q'[x]) = LockOn(d, q[x])
                     /\ Available(d, x, q'[x]) <= Available(d, x, q[x])
    <2>1. CASE x # y
      <3>1. q'[x] = q[x]
        BY <1>7, <2>1
      <3>2. StoreOK(x, q[x])
        BY <1>1 DEF Stores
      <3>3. Available(d, x, q[x]) \in Int
        BY <3>2, QueueAssumption DEF StoreOK, Record, Available
      <3>. QED BY <2>1, <3>1, <3>3
    <2>2. CASE x = y /\ d = "receive"
      <3>1. /\ LockOn(d, q'[x]) = prvIncrementQueueLock(LockOn(d, q[x]))
            /\ Available(d, x, q'[x]) = j /\ Available(d, x, q[x]) = i
        BY <1>4, <1>6, <1>7, <1>8, <2>2 DEF LockOn, Available, SameLocks
      <3>2. LockOn(d, q[x]) = queueUNLOCKED => Stirring(k', k, EventOn(d, x))
        BY <1>5, <2>2 DEF LockOn, EventOn
      <3>. QED BY <1>9, <2>2, <3>1, <3>2
    <2>3. CASE x = y /\ d = "send"
      <3>1. /\ LockOn(d, q'[x]) = LockOn(d, q[x])
            /\ Available(d, x, q'[x]) = l - j /\ Available(d, x, q[x]) = l - i
        BY <1>4, <1>6, <1>7, <1>8, <2>3 DEF LockOn, Available, SameLocks
      <3>2. l - j <= l - i
        BY <1>8, <1>9
      <3>. QED BY <2>3, <3>1, <3>2
    <2>. QED BY <2>1, <2>2, <2>3 DEF Sides
  <1>11. Counts("receive", y)
    BY <1>2, <1>5, <1>10 DEF Counts
  <1>. QED BY <1>1, <1>11, CountsWatched DEF Sides

\* xQueueReceiveFromISR
LEMMA ReceiveIsrWatched ==
    ASSUME QueueInv, QueueNext, Watched, NEW r \in IsrRequests, xQueueReceiveFromISR(r)
    PROVE  Watched'
  <1>. DEFINE y == r.queue
              m == prvCopyDataFromQueue(y)
              n == [m EXCEPT !.cRxLock = prvIncrementQueueLock(@)]
  <1>1. Legal(r) /\ y \in Queues /\ ToSend(y) \in Events /\ Stores(q) /\ StoreOK(y, q[y])
    BY IsrRequest, IsrFacts DEF Stores
  <1>2. /\ r.op = "receive" /\ ~ MustWait(r) /\ q' = [q EXCEPT ![y] = n]
        /\ WakeFromIsr(ToSend(y), q[y].cRxLock) /\ UNCHANGED <<kpc, call>>
    BY DEF xQueueReceiveFromISR
  <1>3. y \in Buffers /\ q[y].uxMessagesWaiting # 0
    BY <1>1, <1>2 DEF Legal, MustWait, IsEmpty, Receivers, Ops
  <1>4. SameLocks(m, q[y]) /\ m.uxMessagesWaiting = q[y].uxMessagesWaiting - 1
    <2>. HIDE DEF y
    <2>. QED BY <1>1, ReceiveCounts
  <1>5. Fewer(k', k) /\ (q[y].cRxLock = queueUNLOCKED => Stirring(k', k, ToSend(y)))
    <2>1. PICK lock : lock = q[y].cRxLock
      OBVIOUS
    <2>. HIDE DEF y
    <2>. QED BY <1>1, <1>2, <2>1, IsrStirs
  <1>12. m \in Store(y)
    <2>1. q[y] \in Store(y) /\ WellFormed(q[y], uxLength[y], Stored) /\ NoItem \in Stored
      BY <1>1, <1>3 DEF StoreOK, Store, Stored
    <2>2. m = CopyFrom(q[y], uxLength[y])
      BY <1>3 DEF prvCopyDataFromQueue
    <2>. HIDE DEF m, y
    <2>. QED BY <1>1, <2>1, <2>2, CopyTypes
  <1>. HIDE DEF m, y
  <1>6. /\ n.uxMessagesWaiting = m.uxMessagesWaiting /\ n.cTxLock = m.cTxLock
        /\ n.cRxLock = prvIncrementQueueLock(m.cRxLock)
    BY <1>12 DEF Store, Record
  <1>7. \A x \in Queues : q'[x] = IF x = y THEN n ELSE q[x]
    BY <1>1, <1>2 DEF Stores
  <1>. HIDE DEF n
  <1>8. PICK i, l \in Int : i = q[y].uxMessagesWaiting /\ l = uxLength[y]
    BY <1>1, QueueAssumption DEF StoreOK, Record
  <1>9. PICK j \in Int : j = n.uxMessagesWaiting /\ j = i - 1
    BY <1>4, <1>6, <1>8
  <1>10. ASSUME NEW d \in Sides, NEW x \in Queues
         PROVE  IF d = "send" /\ x = y
                THEN /\ LockOn(d, q'[x]) = prvIncrementQueueLock(LockOn(d, q[x]))
                     /\ Available(d, x, q'[x]) <= Available(d, x, q[x]) + 1
                     /\ LockOn(d, q[x]) = queueUNLOCKED => Stirring(k', k, EventOn(d, x))
                ELSE /\ LockOn(d, q'[x]) = LockOn(d, q[x])
                     /\ Available(d, x, q'[x]) <= Available(d, x, q[x])
    <2>1. CASE x # y
      <3>1. q'[x] = q[x]
        BY <1>7, <2>1
      <3>2. StoreOK(x, q[x])
        BY <1>1 DEF Stores
      <3>3. Available(d, x, q[x]) \in Int
        BY <3>2, QueueAssumption DEF StoreOK, Record, Available
      <3>. QED BY <2>1, <3>1, <3>3
    <2>2. CASE x = y /\ d = "send"
      <3>1. /\ LockOn(d, q'[x]) = prvIncrementQueueLock(LockOn(d, q[x]))
            /\ Available(d, x, q'[x]) = l - j /\ Available(d, x, q[x]) = l - i
        BY <1>4, <1>6, <1>7, <1>8, <1>9, <2>2 DEF LockOn, Available, SameLocks
      <3>2. LockOn(d, q[x]) = queueUNLOCKED => Stirring(k', k, EventOn(d, x))
        BY <1>5, <2>2 DEF LockOn, EventOn
      <3>3. l - j <= l - i + 1
        BY <1>8, <1>9
      <3>. QED BY <2>2, <3>1, <3>2, <3>3
    <2>3. CASE x = y /\ d = "receive"
      <3>1. /\ LockOn(d, q'[x]) = LockOn(d, q[x])
            /\ Available(d, x, q'[x]) = j /\ Available(d, x, q[x]) = i
        BY <1>4, <1>6, <1>7, <1>8, <1>9, <2>3 DEF LockOn, Available, SameLocks
      <3>. QED BY <1>8, <1>9, <2>3, <3>1
    <2>. QED BY <2>1, <2>2, <2>3 DEF Sides
  <1>11. Counts("send", y)
    BY <1>2, <1>5, <1>10 DEF Counts
  <1>. QED BY <1>1, <1>11, CountsWatched DEF Sides

\* At first nobody waits, and no queue is locked.
LEMMA InitialWatched == QueueInit => Watched
  <1>. SUFFICES ASSUME QueueInit PROVE Watched
    OBVIOUS
  <1>1. /\ Init /\ q = [x \in Queues |-> InitialQueue(x)] /\ call = [t \in Threads |-> NoCall]
        /\ kpc = [t \in Threads |-> "run"]
    BY DEF QueueInit, Init
  <1>2. \A t \in Threads : kpc[t] = "run"
    BY <1>1
  <1>3. \A x \in Queues : q[x].cTxLock = queueUNLOCKED /\ q[x].cRxLock = queueUNLOCKED
    BY <1>1 DEF InitialQueue
  <1>4. LocksOK(kpc, call, q)
    BY <1>2, <1>3 DEF LocksOK, Locked, LockedAt, LockOn, Sides
  <1>5. ASSUME NEW d \in Sides, NEW x \in Queues PROVE SideOK(k, kpc, call, q[x], d, x)
    <2>. DEFINE W == Wts(k, EventOn(d, x))
    <2>1. W = {}
      BY <1>1, InitPriorities, SidesApart
    <2>. HIDE DEF W
    <2>2. Queued(kpc, call, W, d, x)
      BY <2>1 DEF Queued
    <2>3. ~ Somebody(kpc, call, W, d, x)
      BY <1>2, <2>1 DEF Somebody, Placing
    <2>. QED BY <2>2, <2>3 DEF SideOK, W
  <1>. QED BY <1>4, <1>5 DEF Watched

\* Every step keeps the two sides of every queue in order.
LEMMA WatchedStep ==
    ASSUME QueueInv, Watched, QueueNext
    PROVE  Watched'
  <1>1. CASE QueueCall
    <2>1. CASE (\E r \in Requests : Start(r)) \/ Retry
      BY <2>1, TryWatched
    <2>2. CASE Waiting \/ ReturnCall
      BY <2>2, CallWatched, TimeWatched, LockWatched, RecheckWatched, PlaceWatched, UnlockWatched
         DEF Waiting
    <2>. QED BY <1>1, <2>1, <2>2 DEF QueueCall
  <1>2. CASE Delaying \/ Tick
    BY <1>2, TimeWatched
  <1>3. CASE QueueIsr
    BY <1>3, SendIsrWatched, ReceiveIsrWatched DEF QueueIsr
  <1>. QED BY <1>1, <1>2, <1>3 DEF QueueNext

\* Every step of the specification keeps the sides of the queues watched.
LEMMA WatchedKept == QueueInv /\ Watched /\ [QueueNext]_allVars => Watched'
  <1>1. ASSUME QueueInv, Watched, UNCHANGED allVars PROVE Watched'
    <2>1. k' = k /\ q' = q /\ call' = call /\ kpc' = kpc
      BY <1>1 DEF allVars, vars, qvars
    <2>. QED BY <1>1, <2>1 DEF Watched, LocksOK, Locked, SideOK, Queued, Somebody, Roused, Wts
  <1>. QED BY <1>1, WatchedStep

\* The queues are locked only between prvLockQueue and prvUnlockQueue, and what is there is never
\* more than those who have been woken, or will be when the queue is unlocked, and have yet to look.
THEOREM WatchedInvariant == QueueSpec => []Watched
  <1>1. QueueInit => Watched
    BY InitialWatched
  <1>2. QueueInv /\ Watched /\ [QueueNext]_allVars => Watched'
    BY WatchedKept
  <1>. QED BY <1>1, <1>2, QueueInvariant, PTL DEF QueueSpec

\* Who has been woken and has yet to look is under way.
LEMMA RousedUnderway ==
    ASSUME NEW d \in Sides, NEW x \in Queues, NEW W, NEW U, IsFiniteSet(U), U \subseteq Tasks,
           \A t \in Tasks \ W : call[t].queue = x /\ call[t].op \in OpsOn(d) /\ kpc[t] # "done"
                                    => t \in U
    PROVE  Cardinality(Roused(kpc, call, W, d, x)) <= Cardinality(U)
           /\ Cardinality(Roused(kpc, call, W, d, x)) \in Nat /\ Cardinality(U) \in Nat
  <1>. DEFINE R == Roused(kpc, call, W, d, x)
  <1>1. R \subseteq U
    BY DEF Roused, Willing, On, Leaving
  <1>. HIDE DEF R
  <1>2. IsFiniteSet(R) /\ Cardinality(R) <= Cardinality(U)
    BY <1>1, FS_Subset
  <1>. QED BY <1>2, FS_CardinalityType DEF R

\* What is there on one side of an unlocked queue is for those under way to it.
LEMMA WatchedWaits ==
    ASSUME Watched, NEW d \in Sides, NEW x \in Queues, LockOn(d, q[x]) = queueUNLOCKED,
           WaitingOn(EventOn(d, x)) # {}, Available(d, x, q[x]) \in Int
    PROVE  Available(d, x, q[x]) <= Cardinality(Underway(x, OpsOn(d), EventOn(d, x)))
  <1>. DEFINE W == Wts(k, EventOn(d, x))
              U == Underway(x, OpsOn(d), EventOn(d, x))
              r == Cardinality(Roused(kpc, call, W, d, x))
  <1>0. W = WaitingOn(EventOn(d, x))
    BY DEF Wts, WaitingOn
  <1>1. SideOK(k, kpc, call, q[x], d, x) /\ W # {}
    BY <1>0 DEF Watched
  <1>2. Enough(Available(d, x, q[x]), LockOn(d, q[x]), r)
    BY <1>1 DEF SideOK, Somebody
  <1>3. IsFiniteSet(U) /\ U \subseteq Tasks
    <2>1. U \subseteq Tasks
      BY DEF Underway
    <2>. QED BY <2>1, TasksAssumption, FS_Subset
  <1>4. \A t \in Tasks \ W : call[t].queue = x /\ call[t].op \in OpsOn(d) /\ kpc[t] # "done"
                                 => t \in U
    BY <1>0 DEF Underway
  <1>. HIDE DEF W, U
  <1>5. r <= Cardinality(U) /\ r \in Nat /\ Cardinality(U) \in Nat
    BY <1>3, <1>4, RousedUnderway
  <1>. HIDE DEF r
  <1>6. PICK av \in Int : av = Available(d, x, q[x])
    OBVIOUS
  <1>7. av <= r
    BY <1>2, <1>6 DEF Enough, queueUNLOCKED
  <1>8. PICK u \in Nat : u = Cardinality(U)
    BY <1>5
  <1>. QED BY <1>5, <1>6, <1>7, <1>8 DEF U

\* The two halves of NoLostWakeup.
LEMMA WatchedLosesNone == QueueInv /\ Watched => NoLostWakeup
  <1>. SUFFICES ASSUME QueueInv, Watched, NEW x \in Queues
                PROVE  /\ q[x].cTxLock = queueUNLOCKED /\ WaitingOn(ToReceive(x)) # {} =>
                             q[x].uxMessagesWaiting
                                <= Cardinality(Underway(x, Receivers, ToReceive(x)))
                       /\ q[x].cRxLock = queueUNLOCKED /\ WaitingOn(ToSend(x)) # {} =>
                             uxLength[x] - q[x].uxMessagesWaiting
                                <= Cardinality(Underway(x, Senders, ToSend(x)))
    BY DEF NoLostWakeup
  <1>1. StoreOK(x, q[x])
    BY DEF QueueInv, Stores
  <1>2. \A d \in Sides : Available(d, x, q[x]) \in Int
    BY <1>1, QueueAssumption DEF StoreOK, Record, Available
  <1>3. "receive" \in Sides /\ "send" \in Sides
    BY DEF Sides
  <1>4. /\ LockOn("receive", q[x]) = q[x].cTxLock /\ EventOn("receive", x) = ToReceive(x)
        /\ Available("receive", x, q[x]) = q[x].uxMessagesWaiting /\ OpsOn("receive") = Receivers
    BY DEF LockOn, EventOn, Available, OpsOn
  <1>5. /\ LockOn("send", q[x]) = q[x].cRxLock /\ EventOn("send", x) = ToSend(x)
        /\ Available("send", x, q[x]) = uxLength[x] - q[x].uxMessagesWaiting
        /\ OpsOn("send") = Senders
    BY DEF LockOn, EventOn, Available, OpsOn
  <1>6. ASSUME q[x].cTxLock = queueUNLOCKED, WaitingOn(ToReceive(x)) # {}
        PROVE  q[x].uxMessagesWaiting <= Cardinality(Underway(x, Receivers, ToReceive(x)))
    <2>1. Available("receive", x, q[x])
             <= Cardinality(Underway(x, OpsOn("receive"), EventOn("receive", x)))
      BY <1>2, <1>3, <1>4, <1>6, WatchedWaits
    <2>. QED BY <1>4, <2>1
  <1>7. ASSUME q[x].cRxLock = queueUNLOCKED, WaitingOn(ToSend(x)) # {}
        PROVE  uxLength[x] - q[x].uxMessagesWaiting
                  <= Cardinality(Underway(x, Senders, ToSend(x)))
    <2>1. Available("send", x, q[x]) <= Cardinality(Underway(x, OpsOn("send"), EventOn("send", x)))
      BY <1>2, <1>3, <1>5, <1>7, WatchedWaits
    <2>. QED BY <1>5, <2>1
  <1>. QED BY <1>6, <1>7

\* Nobody sleeps through a message or a free place: while tasks wait for an unlocked queue, each
\* message in it is for a receiver that has been woken, or has yet to look, and will find it, and
\* each free place for such a sender, however tasks, interrupts and the timer interleave.
THEOREM NoWakeupLost == QueueSpec => []NoLostWakeup
  <1>. QED BY QueueInvariant, WatchedInvariant, WatchedLosesNone, PTL
==============================================================================
