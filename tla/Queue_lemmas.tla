---------------------------- MODULE Queue_lemmas -----------------------------
(***************************************************************************)
(* What the proofs about queue.c (Queue_proofs) rest on. The functions of  *)
(* tasks.c under the calls are at the end of Scheduler_lemmas.             *)
(*                                                                         *)
(* 1. The ring: its four copies are Append, a prepend, Head with Tail and  *)
(*    a replacement of the sequence it holds.                              *)
(* 2. The invariant QueueInv, and what a step that respects it shows.      *)
(* 3. What a queue holds, the steps of BoundedBuffer, and QueueInv after   *)
(*    each action on the way through a call.                               *)
(* 4. What a task owes: its priority and the mutexes it holds.             *)
(* 5. The two sides of a queue: those who wait, those who have been        *)
(*    roused and look for what is there, and what is there for them.       *)
(* 6. What each action does to the waits, the delays and the time.         *)
(***************************************************************************)
EXTENDS Queue, Scheduler_lemmas

(***************************************************************************)
(* The ring of queue.c holds a sequence: for every length n, every set V   *)
(* of items and every well-formed storage, the four copies prvCopyDataTo-  *)
(* Queue and prvCopyDataFromQueue make are Append, a prepend, Head with    *)
(* Tail, and the replacement of the only item.  L and H are whatever the   *)
(* fields of Queue_t the copies leave alone may be (locks, mutex holder).  *)
(*                                                                         *)
(* Each theorem has the same shape: one lemma on positions (arithmetic     *)
(* modulo n), one on the fields of the record the copy returns, and the    *)
(* comparison of the two Contents place by place.                          *)
(***************************************************************************)
\* Below 2n, i modulo n is i or i - n: a position wraps at most once.
LEMMA ModSmall ==
    ASSUME NEW n \in Nat \ {0}, NEW i \in Int, 0 <= i, i < n + n
    PROVE  i % n = IF i < n THEN i ELSE i - n
  <1>1. CASE i < n
    BY <1>1, SMT
  <1>2. CASE i >= n
    <2>1. i = n + (i - n) /\ i - n \in 0..(n-1)
      BY <1>2
    <2>. QED BY <1>2, <2>1, SMT
  <1>. QED BY <1>1, <1>2

\* The place i steps after the read position r, as pcReadFrom reaches it with one wrap.
LEMMA Places ==
    ASSUME NEW n \in Nat \ {0}, NEW r \in 0..(n - 1), NEW i \in 0..n
    PROVE  (r + i) % n = IF r + i < n THEN r + i ELSE r + i - n
  <1>. DEFINE j == r + i
  <1>1. j \in Int /\ 0 <= j /\ j < n + n
    OBVIOUS
  <1>. HIDE DEF j
  <1>2. j % n = IF j < n THEN j ELSE j - n
    BY <1>1, ModSmall
  <1>. QED BY <1>2 DEF j

\* Where the next item goes: just after the c items that wait, on none of them.
PlaceFacts(n, r, c, w) ==
    /\ w \in 0..(n - 1) /\ w = (r + (c + 1)) % n
    /\ Forward(w, n) = (r + 1 + (c + 1)) % n
    /\ \A i \in 1..c : (r + i) % n # w

\* The write position of a ring that is not full is that place.
LEMMA WritePlace ==
    ASSUME NEW n \in Nat \ {0}, NEW r \in 0..(n - 1), NEW c \in 0..(n - 1),
           NEW w, w = (r + 1 + c) % n
    PROVE  PlaceFacts(n, r, c, w)
  <1>1. r + 1 + c = r + (c + 1) /\ c + 1 \in 0..n
    OBVIOUS
  <1>2. w = IF r + (c + 1) < n THEN r + (c + 1) ELSE r + (c + 1) - n
    BY <1>1, Places
  <1>3. \A i \in 1..c : (r + i) % n # w
    <2>. TAKE i \in 1..c
    <2>1. i \in 0..n
      OBVIOUS
    <2>2. (r + i) % n = IF r + i < n THEN r + i ELSE r + i - n
      BY <2>1, Places
    <2>. QED BY <1>2, <2>2
  <1>4. Forward(w, n) = (r + 1 + (c + 1)) % n
    <2>. DEFINE j == r + 1 + (c + 1)
    <2>1. j \in Int /\ 0 <= j /\ j <= n + n /\ j = r + c + 2
      OBVIOUS
    <2>. HIDE DEF j
    <2>2. CASE j < n + n
      <3>1. j % n = IF j < n THEN j ELSE j - n
        BY <2>1, <2>2, ModSmall
      <3>. QED BY <1>2, <2>1, <2>2, <3>1 DEF j, Forward
    <2>3. CASE j = n + n
      <3>1. j % n = 0
        BY <2>3, SMT
      <3>. QED BY <1>2, <2>1, <2>3, <3>1 DEF j, Forward
    <2>. QED BY <2>1, <2>2, <2>3
  <1>. QED BY <1>1, <1>2, <1>3, <1>4 DEF PlaceFacts

\* The fields of Queue_t the model keeps.
Record(n, V, L, H) ==
    [items : [0..(n - 1) -> V], pcWriteTo : Int, pcReadFrom : Int,
     uxMessagesWaiting : Int, cRxLock : L, cTxLock : L, xMutexHolder : H]

\* What prvCopyDataToQueue writes for queueSEND_TO_BACK, field by field.
LEMMA CopyToBackFields ==
    ASSUME NEW n \in Nat \ {0}, NEW V, NEW L, NEW H, NEW s \in Record(n, V, L, H),
           WellFormed(s, n, V), NEW v \in V
    PROVE  /\ CopyToBack(s, n, v) \in Record(n, V, L, H)
           /\ CopyToBack(s, n, v).items = [s.items EXCEPT ![s.pcWriteTo] = v]
           /\ CopyToBack(s, n, v).pcWriteTo = Forward(s.pcWriteTo, n)
           /\ CopyToBack(s, n, v).pcReadFrom = s.pcReadFrom
           /\ CopyToBack(s, n, v).uxMessagesWaiting = s.uxMessagesWaiting + 1
  <1>1. Forward(s.pcWriteTo, n) \in Int /\ s.pcWriteTo \in 0..(n - 1) /\ s.uxMessagesWaiting + 1 \in Int
    BY DEF Forward, WellFormed, Record
  <1>2. PICK j \in 0..(n - 1), h \in Int, p \in Int :
            j = s.pcWriteTo /\ h = Forward(s.pcWriteTo, n) /\ p = s.uxMessagesWaiting + 1
    BY <1>1, Zenon
  <1>3. CopyToBack(s, n, v) = [s EXCEPT !.items[j] = v, !.pcWriteTo = h, !.uxMessagesWaiting = p]
    BY <1>2, Zenon DEF CopyToBack
  <1>4. LET t == [s EXCEPT !.items[j] = v, !.pcWriteTo = h, !.uxMessagesWaiting = p]
        IN /\ t.items = [s.items EXCEPT ![j] = v]
           /\ t.pcWriteTo = h
           /\ t.pcReadFrom = s.pcReadFrom
           /\ t.uxMessagesWaiting = p
           /\ t \in Record(n, V, L, H)
    BY DEF Record
  <1>. QED BY <1>2, <1>3, <1>4, Zenon

\* A send to the back of a ring with room keeps the representation and appends the
\* item: pcWriteTo, wrapped at pcTail, never lands on an item that waits.
THEOREM CopyToBackAppends ==
    ASSUME NEW n \in Nat \ {0}, NEW V, NEW L, NEW H, NEW s \in Record(n, V, L, H),
           WellFormed(s, n, V), s.uxMessagesWaiting < n, NEW v \in V
    PROVE  /\ WellFormed(CopyToBack(s, n, v), n, V)
           /\ Contents(CopyToBack(s, n, v), n) = Append(Contents(s, n), v)
  <1>1. PICK t \in Record(n, V, L, H), f \in [0..(n - 1) -> V], w \in 0..(n - 1), r \in 0..(n - 1), c \in 0..(n - 1) :
            /\ t = CopyToBack(s, n, v)
            /\ f = s.items /\ w = s.pcWriteTo /\ r = s.pcReadFrom /\ c = s.uxMessagesWaiting
            /\ w = (r + 1 + c) % n
    <2>1. /\ CopyToBack(s, n, v) \in Record(n, V, L, H)
          /\ s.items \in [0..(n - 1) -> V] /\ s.pcWriteTo \in 0..(n - 1) /\ s.pcReadFrom \in 0..(n - 1)
          /\ s.pcWriteTo = (s.pcReadFrom + 1 + s.uxMessagesWaiting) % n
      BY CopyToBackFields DEF WellFormed
    <2>2. s.uxMessagesWaiting \in 0..(n - 1)
      BY DEF WellFormed
    <2>. QED BY <2>1, <2>2, Zenon
  <1>2. /\ t.items = [f EXCEPT ![w] = v] /\ t.pcWriteTo = Forward(w, n)
        /\ t.pcReadFrom = r /\ t.uxMessagesWaiting = c + 1
    <2>1. /\ CopyToBack(s, n, v).items = [s.items EXCEPT ![s.pcWriteTo] = v]
          /\ CopyToBack(s, n, v).pcWriteTo = Forward(s.pcWriteTo, n)
          /\ CopyToBack(s, n, v).pcReadFrom = s.pcReadFrom
          /\ CopyToBack(s, n, v).uxMessagesWaiting = s.uxMessagesWaiting + 1
      BY CopyToBackFields
    <2>. QED BY <1>1, <2>1, Zenon
  <1>3. /\ w = (r + (c + 1)) % n
        /\ Forward(w, n) = (r + 1 + (c + 1)) % n
        /\ \A i \in 1..c : (r + i) % n # w
    <2>1. w = (r + 1 + c) % n /\ n \in Nat \ {0} /\ r \in 0..(n - 1) /\ c \in 0..(n - 1)
      BY <1>1, Zenon
    <2>2. PlaceFacts(n, r, c, w)
      BY <2>1, WritePlace, Zenon
    <2>. QED BY <2>2, Zenon DEF PlaceFacts
  <1>4. WellFormed(t, n, V)
    <2>1. [f EXCEPT ![w] = v] \in [0..(n - 1) -> V] /\ Forward(w, n) \in 0..(n - 1) /\ c + 1 \in 0..n
      BY DEF Forward
    <2>. QED BY <1>2, <1>3, <2>1, Zenon DEF WellFormed
  <1>5. ASSUME NEW i \in 1..(c + 1)
        PROVE [f EXCEPT ![w] = v][(r + i) % n] = IF i = c + 1 THEN v ELSE f[(r + i) % n]
    <2>1. CASE i = c + 1
      BY <1>3, <2>1, Zenon
    <2>2. CASE i # c + 1
      <3>1. i \in 1..c /\ i \in 0..n
        BY <2>2
      <3>2. PICK j \in Int : j = (r + i) % n /\ j # w /\ j \in 0..(n - 1)
        <4>1. (r + i) % n # w
          BY <1>3, <3>1, Zenon
        <4>2. (r + i) % n \in 0..(n - 1)
          BY <3>1, Places
        <4>. QED BY <4>1, <4>2
      <3>. QED BY <2>2, <3>2
    <2>. QED BY <2>1, <2>2
  <1>6. Contents(t, n) = [i \in 1..(c + 1) |-> [f EXCEPT ![w] = v][(r + i) % n]]
    BY <1>2, Zenon DEF Contents
  <1>7. Contents(s, n) = [i \in 1..c |-> f[(r + i) % n]]
    BY <1>1, Zenon DEF Contents
  <1>8. Append([i \in 1..c |-> f[(r + i) % n]], v)
            = [i \in 1..(c + 1) |-> IF i = c + 1 THEN v ELSE f[(r + i) % n]]
    OBVIOUS
  <1>9. Contents(t, n) = [i \in 1..(c + 1) |-> IF i = c + 1 THEN v ELSE f[(r + i) % n]]
    BY <1>5, <1>6, Zenon
  <1>. QED BY <1>1, <1>4, <1>7, <1>8, <1>9, Zenon

\* Advancing the read position by one moves every place by one.
TakeFacts(n, r, c, h) ==
    /\ h \in 0..(n - 1) /\ h = (r + 1) % n
    /\ (r + 1 + c) % n = (h + 1 + (c - 1)) % n
    /\ \A i \in 1..(c - 1) : (h + i) % n = (r + (i + 1)) % n

\* Advancing pcReadFrom, with its wrap at pcTail, is that move.
LEMMA ReadPlace ==
    ASSUME NEW n \in Nat \ {0}, NEW r \in 0..(n - 1), NEW c \in 1..n,
           NEW h, h = Forward(r, n)
    PROVE  TakeFacts(n, r, c, h)
  <1>1. h \in 0..(n - 1) /\ h = IF r + 1 < n THEN r + 1 ELSE 0
    BY DEF Forward
  <1>2. h = (r + 1) % n
    <2>1. 1 \in 0..n
      OBVIOUS
    <2>2. (r + 1) % n = IF r + 1 < n THEN r + 1 ELSE r + 1 - n
      BY <2>1, Places
    <2>. QED BY <1>1, <2>2
  <1>3. ASSUME NEW i \in 0..(n - 1)
        PROVE  (h + i) % n = (r + (i + 1)) % n
    <2>1. i \in 0..n /\ i + 1 \in 0..n
      OBVIOUS
    <2>2. (h + i) % n = IF h + i < n THEN h + i ELSE h + i - n
      BY <1>1, <2>1, Places
    <2>3. (r + (i + 1)) % n = IF r + (i + 1) < n THEN r + (i + 1) ELSE r + (i + 1) - n
      BY <2>1, Places
    <2>. QED BY <1>1, <2>2, <2>3
  <1>4. \A i \in 1..(c - 1) : (h + i) % n = (r + (i + 1)) % n
    BY <1>3
  <1>5. (r + 1 + c) % n = (h + 1 + (c - 1)) % n
    <2>1. h + 1 + (c - 1) = h + c /\ r + 1 + c = r + (c + 1)
      BY <1>1
    <2>2. CASE c <= n - 1
      <3>1. c \in 0..(n - 1)
        BY <2>2
      <3>. QED BY <1>3, <2>1, <3>1
    <2>3. CASE c = n
      <3>. n \in 0..n /\ h \in 0..(n - 1)
        BY <1>1
      <3>1. (h + n) % n = IF h + n < n THEN h + n ELSE h + n - n
        BY Places
      <3>2. (h + c) % n = h
        BY <1>1, <2>3, <3>1
      <3>3. (r + 1 + c) % n = h
        <4>. DEFINE j == r + 1 + c
        <4>1. j \in Int /\ 0 <= j /\ j = r + n + 1
          BY <2>3
        <4>. HIDE DEF j
        <4>2. CASE j < n + n
          <5>1. j % n = IF j < n THEN j ELSE j - n
            BY <4>1, <4>2, ModSmall
          <5>. QED BY <1>1, <4>1, <4>2, <5>1 DEF j
        <4>3. CASE j = n + n
          <5>1. j % n = 0
            BY <4>3, SMT
          <5>. QED BY <1>1, <4>1, <4>3, <5>1 DEF j
        <4>. QED BY <4>1, <4>2, <4>3
      <3>. QED BY <2>1, <3>2, <3>3
    <2>. QED BY <2>2, <2>3
  <1>. QED BY <1>1, <1>2, <1>4, <1>5 DEF TakeFacts

\* What a receive writes: prvCopyDataFromQueue and the count, field by field.
LEMMA CopyFromFields ==
    ASSUME NEW n \in Nat \ {0}, NEW V, NEW L, NEW H, NEW s \in Record(n, V, L, H),
           WellFormed(s, n, V)
    PROVE  /\ CopyFrom(s, n) \in Record(n, V, L, H)
           /\ CopyFrom(s, n).items = s.items
           /\ CopyFrom(s, n).pcWriteTo = s.pcWriteTo
           /\ CopyFrom(s, n).pcReadFrom = Forward(s.pcReadFrom, n)
           /\ CopyFrom(s, n).uxMessagesWaiting = s.uxMessagesWaiting - 1
  <1>1. Forward(s.pcReadFrom, n) \in Int /\ s.uxMessagesWaiting - 1 \in Int
    BY DEF Forward, WellFormed, Record
  <1>2. PICK h \in Int, p \in Int :
            h = Forward(s.pcReadFrom, n) /\ p = s.uxMessagesWaiting - 1
    BY <1>1, Zenon
  <1>3. CopyFrom(s, n) = [s EXCEPT !.pcReadFrom = h, !.uxMessagesWaiting = p]
    BY <1>2, Zenon DEF CopyFrom
  <1>4. LET t == [s EXCEPT !.pcReadFrom = h, !.uxMessagesWaiting = p]
        IN /\ t.items = s.items
           /\ t.pcWriteTo = s.pcWriteTo
           /\ t.pcReadFrom = h
           /\ t.uxMessagesWaiting = p
           /\ t \in Record(n, V, L, H)
    BY DEF Record
  <1>. QED BY <1>2, <1>3, <1>4, Zenon

\* A receive from a ring with items hands out the oldest and leaves the rest in
\* order: the read position is advanced before it is read, and wrapped.
THEOREM CopyFromTakesFirst ==
    ASSUME NEW n \in Nat \ {0}, NEW V, NEW L, NEW H, NEW s \in Record(n, V, L, H),
           WellFormed(s, n, V), s.uxMessagesWaiting > 0
    PROVE  /\ WellFormed(CopyFrom(s, n), n, V)
           /\ FirstItem(s, n) = Head(Contents(s, n))
           /\ Contents(CopyFrom(s, n), n) = Tail(Contents(s, n))
  <1>1. PICK t \in Record(n, V, L, H), f \in [0..(n - 1) -> V], w \in 0..(n - 1),
             r \in 0..(n - 1), c \in 1..n, h \in 0..(n - 1) :
            /\ t = CopyFrom(s, n) /\ h = Forward(r, n)
            /\ f = s.items /\ w = s.pcWriteTo /\ r = s.pcReadFrom /\ c = s.uxMessagesWaiting
            /\ w = (r + 1 + c) % n
    <2>1. /\ CopyFrom(s, n) \in Record(n, V, L, H)
          /\ s.items \in [0..(n - 1) -> V] /\ s.pcWriteTo \in 0..(n - 1) /\ s.pcReadFrom \in 0..(n - 1)
          /\ s.pcWriteTo = (s.pcReadFrom + 1 + s.uxMessagesWaiting) % n
      BY CopyFromFields DEF WellFormed
    <2>2. s.uxMessagesWaiting \in 1..n /\ Forward(s.pcReadFrom, n) \in 0..(n - 1)
      BY DEF WellFormed, Forward
    <2>. QED BY <2>1, <2>2, Zenon
  <1>2. /\ t.items = f /\ t.pcWriteTo = w /\ t.pcReadFrom = h /\ t.uxMessagesWaiting = c - 1
    <2>1. /\ CopyFrom(s, n).items = s.items
          /\ CopyFrom(s, n).pcWriteTo = s.pcWriteTo
          /\ CopyFrom(s, n).pcReadFrom = Forward(s.pcReadFrom, n)
          /\ CopyFrom(s, n).uxMessagesWaiting = s.uxMessagesWaiting - 1
      BY CopyFromFields
    <2>. QED BY <1>1, <2>1, Zenon
  <1>3. /\ h = (r + 1) % n
        /\ (r + 1 + c) % n = (h + 1 + (c - 1)) % n
        /\ \A i \in 1..(c - 1) : (h + i) % n = (r + (i + 1)) % n
    <2>1. h = Forward(r, n) /\ n \in Nat \ {0} /\ r \in 0..(n - 1) /\ c \in 1..n
      BY <1>1, Zenon
    <2>2. TakeFacts(n, r, c, h)
      BY <2>1, ReadPlace, Zenon
    <2>. QED BY <2>2, Zenon DEF TakeFacts
  <1>4. WellFormed(t, n, V)
    <2>1. c - 1 \in 0..n
      OBVIOUS
    <2>. QED BY <1>1, <1>2, <1>3, <2>1, Zenon DEF WellFormed
  <1>5. Contents(s, n) = [i \in 1..c |-> f[(r + i) % n]]
    BY <1>1, Zenon DEF Contents
  <1>6. FirstItem(s, n) = Head(Contents(s, n))
    <2>1. FirstItem(s, n) = f[(r + 1) % n]
      BY <1>1, <1>3, Zenon DEF FirstItem
    <2>2. Head([i \in 1..c |-> f[(r + i) % n]]) = f[(r + 1) % n]
      OBVIOUS
    <2>. QED BY <1>5, <2>1, <2>2, Zenon
  <1>7. Contents(t, n) = [i \in 1..(c - 1) |-> f[(h + i) % n]]
    BY <1>2, Zenon DEF Contents
  <1>8. [i \in 1..(c - 1) |-> f[(h + i) % n]] = [i \in 1..(c - 1) |-> f[(r + (i + 1)) % n]]
    BY <1>3, Zenon
  <1>9. Tail([i \in 1..c |-> f[(r + i) % n]]) = [i \in 1..(c - 1) |-> f[(r + (i + 1)) % n]]
    OBVIOUS
  <1>. QED BY <1>1, <1>4, <1>5, <1>6, <1>7, <1>8, <1>9, Zenon

\* Moving the read position back by one makes room for one place before the first.
FrontFacts(n, r, c, b) ==
    /\ b \in 0..(n - 1) /\ (b + 1) % n = r
    /\ (r + 1 + c) % n = (b + 1 + (c + 1)) % n
    /\ \A i \in 1..c : (b + (i + 1)) % n = (r + i) % n /\ (r + i) % n # r

\* Stepping pcReadFrom back, with its wrap at pcHead, is that move.
LEMMA FrontPlace ==
    ASSUME NEW n \in Nat \ {0}, NEW r \in 0..(n - 1), NEW c \in 0..(n - 1),
           NEW b, b = Back(r, n)
    PROVE  FrontFacts(n, r, c, b)
  <1>1. b \in 0..(n - 1) /\ b = IF r = 0 THEN n - 1 ELSE r - 1
    BY DEF Back
  <1>2. ASSUME NEW i \in 0..(n - 1)
        PROVE  (b + (i + 1)) % n = IF r + i < n THEN r + i ELSE r + i - n
    <2>1. i + 1 \in 0..n
      OBVIOUS
    <2>2. (b + (i + 1)) % n = IF b + (i + 1) < n THEN b + (i + 1) ELSE b + (i + 1) - n
      BY <1>1, <2>1, Places
    <2>. QED BY <1>1, <2>2
  <1>3. ASSUME NEW i \in 0..(n - 1)
        PROVE  (r + i) % n = IF r + i < n THEN r + i ELSE r + i - n
    <2>1. i \in 0..n
      OBVIOUS
    <2>. QED BY <2>1, Places
  <1>4. (b + 1) % n = r
    <2>1. 0 \in 0..(n - 1) /\ 0 + 1 = 1
      OBVIOUS
    <2>2. (b + (0 + 1)) % n = IF r + 0 < n THEN r + 0 ELSE r + 0 - n
      BY <1>2, <2>1
    <2>. QED BY <2>1, <2>2
  <1>5. ASSUME NEW i \in 1..c
        PROVE  (b + (i + 1)) % n = (r + i) % n /\ (r + i) % n # r
    <2>1. i \in 0..(n - 1)
      OBVIOUS
    <2>2. (b + (i + 1)) % n = IF r + i < n THEN r + i ELSE r + i - n
      BY <1>2, <2>1
    <2>3. (r + i) % n = IF r + i < n THEN r + i ELSE r + i - n
      BY <1>3, <2>1
    <2>. QED BY <2>2, <2>3
  <1>6. (r + 1 + c) % n = (b + 1 + (c + 1)) % n
    <2>1. r + 1 + c = r + (c + 1) /\ b + 1 + (c + 1) = b + c + 2
      BY <1>1
    <2>2. CASE r = 0
      <3>. DEFINE j == b + 1 + (c + 1)
      <3>1. j \in Int /\ j = n + (c + 1)
        BY <1>1, <2>2
      <3>. HIDE DEF j
      <3>2. CASE c + 1 < n
        <4>. 0 <= j /\ j < n + n /\ ~(j < n) /\ j - n = c + 1
          BY <3>1, <3>2
        <4>1. j % n = c + 1
          <5>1. j % n = IF j < n THEN j ELSE j - n
            BY <3>1, ModSmall
          <5>. QED BY <5>1
        <4>2. (c + 1) % n = c + 1
          BY <3>2, ModSmall
        <4>. QED BY <2>2, <4>1, <4>2 DEF j
      <3>3. CASE c + 1 = n
        <4>1. j = n + n
          BY <3>1, <3>3
        <4>2. j % n = 0 /\ n % n = 0
          BY <4>1, SMT
        <4>. QED BY <2>2, <3>3, <4>2 DEF j
      <3>. QED BY <3>2, <3>3
    <2>3. CASE r # 0
      <3>1. b + 1 + (c + 1) = r + 1 + c
        BY <1>1, <2>3
      <3>. QED BY <3>1, Zenon
    <2>. QED BY <2>2, <2>3
  <1>. QED BY <1>1, <1>4, <1>5, <1>6 DEF FrontFacts

\* What prvCopyDataToQueue writes for queueSEND_TO_FRONT, field by field.
LEMMA CopyToFrontFields ==
    ASSUME NEW n \in Nat \ {0}, NEW V, NEW L, NEW H, NEW s \in Record(n, V, L, H),
           WellFormed(s, n, V), NEW v \in V
    PROVE  /\ CopyToFront(s, n, v) \in Record(n, V, L, H)
           /\ CopyToFront(s, n, v).items = [s.items EXCEPT ![s.pcReadFrom] = v]
           /\ CopyToFront(s, n, v).pcWriteTo = s.pcWriteTo
           /\ CopyToFront(s, n, v).pcReadFrom = Back(s.pcReadFrom, n)
           /\ CopyToFront(s, n, v).uxMessagesWaiting = s.uxMessagesWaiting + 1
  <1>1. Back(s.pcReadFrom, n) \in Int /\ s.pcReadFrom \in 0..(n - 1) /\ s.uxMessagesWaiting + 1 \in Int
    BY DEF Back, WellFormed, Record
  <1>2. PICK j \in 0..(n - 1), h \in Int, p \in Int :
            j = s.pcReadFrom /\ h = Back(s.pcReadFrom, n) /\ p = s.uxMessagesWaiting + 1
    BY <1>1, Zenon
  <1>3. CopyToFront(s, n, v) = [s EXCEPT !.items[j] = v, !.pcReadFrom = h, !.uxMessagesWaiting = p]
    BY <1>2, Zenon DEF CopyToFront
  <1>4. LET t == [s EXCEPT !.items[j] = v, !.pcReadFrom = h, !.uxMessagesWaiting = p]
        IN /\ t.items = [s.items EXCEPT ![j] = v]
           /\ t.pcWriteTo = s.pcWriteTo
           /\ t.pcReadFrom = h
           /\ t.uxMessagesWaiting = p
           /\ t \in Record(n, V, L, H)
    BY DEF Record
  <1>. QED BY <1>2, <1>3, <1>4, Zenon

\* A send to the front of a ring with room keeps the representation, writes over no
\* item that waits and puts the item before them all.
THEOREM CopyToFrontPrepends ==
    ASSUME NEW n \in Nat \ {0}, NEW V, NEW L, NEW H, NEW s \in Record(n, V, L, H),
           WellFormed(s, n, V), s.uxMessagesWaiting < n, NEW v \in V
    PROVE  /\ WellFormed(CopyToFront(s, n, v), n, V)
           /\ Contents(CopyToFront(s, n, v), n) = <<v>> \o Contents(s, n)
  <1>1. PICK t \in Record(n, V, L, H), f \in [0..(n - 1) -> V], w \in 0..(n - 1),
             r \in 0..(n - 1), c \in 0..(n - 1), b \in 0..(n - 1) :
            /\ t = CopyToFront(s, n, v) /\ b = Back(r, n)
            /\ f = s.items /\ w = s.pcWriteTo /\ r = s.pcReadFrom /\ c = s.uxMessagesWaiting
            /\ w = (r + 1 + c) % n
    <2>1. /\ CopyToFront(s, n, v) \in Record(n, V, L, H)
          /\ s.items \in [0..(n - 1) -> V] /\ s.pcWriteTo \in 0..(n - 1) /\ s.pcReadFrom \in 0..(n - 1)
          /\ s.pcWriteTo = (s.pcReadFrom + 1 + s.uxMessagesWaiting) % n
      BY CopyToFrontFields DEF WellFormed
    <2>2. s.uxMessagesWaiting \in 0..(n - 1) /\ Back(s.pcReadFrom, n) \in 0..(n - 1)
      BY DEF WellFormed, Back
    <2>. QED BY <2>1, <2>2, Zenon
  <1>2. /\ t.items = [f EXCEPT ![r] = v] /\ t.pcWriteTo = w
        /\ t.pcReadFrom = b /\ t.uxMessagesWaiting = c + 1
    <2>1. /\ CopyToFront(s, n, v).items = [s.items EXCEPT ![s.pcReadFrom] = v]
          /\ CopyToFront(s, n, v).pcWriteTo = s.pcWriteTo
          /\ CopyToFront(s, n, v).pcReadFrom = Back(s.pcReadFrom, n)
          /\ CopyToFront(s, n, v).uxMessagesWaiting = s.uxMessagesWaiting + 1
      BY CopyToFrontFields
    <2>. QED BY <1>1, <2>1, Zenon
  <1>3. /\ (b + 1) % n = r
        /\ (r + 1 + c) % n = (b + 1 + (c + 1)) % n
        /\ \A i \in 1..c : (b + (i + 1)) % n = (r + i) % n /\ (r + i) % n # r
    <2>1. b = Back(r, n) /\ n \in Nat \ {0} /\ r \in 0..(n - 1) /\ c \in 0..(n - 1)
      BY <1>1, Zenon
    <2>2. FrontFacts(n, r, c, b)
      BY <2>1, FrontPlace, Zenon
    <2>. QED BY <2>2, Zenon DEF FrontFacts
  <1>4. WellFormed(t, n, V)
    <2>1. [f EXCEPT ![r] = v] \in [0..(n - 1) -> V] /\ c + 1 \in 0..n
      OBVIOUS
    <2>. QED BY <1>1, <1>2, <1>3, <2>1, Zenon DEF WellFormed
  <1>5. ASSUME NEW i \in 1..(c + 1)
        PROVE [f EXCEPT ![r] = v][(b + i) % n] = IF i = 1 THEN v ELSE f[(r + (i - 1)) % n]
    <2>1. CASE i = 1
      BY <1>3, <2>1, Zenon
    <2>2. CASE i # 1
      <3>1. i - 1 \in 1..c /\ i - 1 \in 0..n /\ (i - 1) + 1 = i
        BY <2>2
      <3>2. PICK j \in 0..(n - 1) : j = (b + i) % n /\ j # r /\ j = (r + (i - 1)) % n
        <4>1. (b + i) % n = (r + (i - 1)) % n /\ (r + (i - 1)) % n # r
          BY <1>3, <3>1
        <4>2. (r + (i - 1)) % n \in 0..(n - 1)
          BY <3>1, Places
        <4>. QED BY <4>1, <4>2, Zenon
      <3>. QED BY <2>2, <3>2
    <2>. QED BY <2>1, <2>2
  <1>6. Contents(t, n) = [i \in 1..(c + 1) |-> [f EXCEPT ![r] = v][(b + i) % n]]
    BY <1>2, Zenon DEF Contents
  <1>7. Contents(s, n) = [i \in 1..c |-> f[(r + i) % n]]
    BY <1>1, Zenon DEF Contents
  <1>8. <<v>> \o [i \in 1..c |-> f[(r + i) % n]]
            = [i \in 1..(c + 1) |-> IF i = 1 THEN v ELSE f[(r + (i - 1)) % n]]
    OBVIOUS
  <1>9. Contents(t, n) = [i \in 1..(c + 1) |-> IF i = 1 THEN v ELSE f[(r + (i - 1)) % n]]
    BY <1>5, <1>6, Zenon
  <1>. QED BY <1>1, <1>4, <1>7, <1>8, <1>9, Zenon

\* An overwrite of a mailbox, empty or full, leaves exactly the new item: the count
\* that prvCopyDataToQueue raises is lowered first when an item was replaced.
THEOREM OverwriteReplaces ==
    ASSUME NEW n \in Nat \ {0}, n = 1, NEW V, NEW L, NEW H, NEW s \in Record(n, V, L, H),
           WellFormed(s, n, V), NEW v \in V
    PROVE  /\ WellFormed(Overwrite(s, n, v), n, V)
           /\ Contents(Overwrite(s, n, v), n) = <<v>>
  <1>0. PICK f \in [0..(n - 1) -> V], r \in 0..(n - 1), c \in 0..n :
            f = s.items /\ r = s.pcReadFrom /\ c = s.uxMessagesWaiting
    BY DEF WellFormed
  <1>1. PICK u \in Record(n, V, L, H) :
            /\ u = CopyToFront(s, n, v)
            /\ u.items = [f EXCEPT ![r] = v]
            /\ u.pcWriteTo = s.pcWriteTo /\ u.pcReadFrom = Back(r, n)
            /\ u.uxMessagesWaiting = c + 1
    <2>1. /\ CopyToFront(s, n, v) \in Record(n, V, L, H)
          /\ CopyToFront(s, n, v).items = [s.items EXCEPT ![s.pcReadFrom] = v]
          /\ CopyToFront(s, n, v).pcWriteTo = s.pcWriteTo
          /\ CopyToFront(s, n, v).pcReadFrom = Back(s.pcReadFrom, n)
          /\ CopyToFront(s, n, v).uxMessagesWaiting = s.uxMessagesWaiting + 1
      BY CopyToFrontFields
    <2>. QED BY <1>0, <2>1, Zenon
  <1>2. PICK p \in Int : p = (IF c > 0 THEN (c + 1) - 1 ELSE c + 1) /\ p = 1
    OBVIOUS
  <1>3. Overwrite(s, n, v) = [u EXCEPT !.uxMessagesWaiting = p]
    BY <1>0, <1>1, <1>2, Zenon DEF Overwrite
  <1>4. LET t == [u EXCEPT !.uxMessagesWaiting = p]
        IN /\ t.items = u.items
           /\ t.pcWriteTo = u.pcWriteTo
           /\ t.pcReadFrom = u.pcReadFrom
           /\ t.uxMessagesWaiting = p
    BY DEF Record
  <1>5. PICK t : /\ t = Overwrite(s, n, v)
                 /\ t.items = [f EXCEPT ![r] = v] /\ t.pcWriteTo = s.pcWriteTo
                 /\ t.pcReadFrom = Back(r, n) /\ t.uxMessagesWaiting = 1
    BY <1>1, <1>2, <1>3, <1>4, Zenon
  <1>6. PICK g \in [0..(n - 1) -> V] : g = [f EXCEPT ![r] = v] /\ g[0] = v
    <2>1. [f EXCEPT ![r] = v] \in [0..(n - 1) -> V] /\ r = 0
      OBVIOUS
    <2>2. [f EXCEPT ![r] = v][r] = v
      OBVIOUS
    <2>. QED BY <2>1, <2>2, Zenon
  <1>7. Back(r, n) = 0 /\ s.pcWriteTo = 0
    BY DEF Back, WellFormed
  <1>8. \A i \in Int : (0 + i) % n = 0
    BY SMT
  <1>9. WellFormed(t, n, V)
    <2>1. 0 \in 0..(n - 1) /\ 1 \in 0..n /\ (0 + 1 + 1) % n = 0
      BY SMT
    <2>. QED BY <1>5, <1>6, <1>7, <2>1, Zenon DEF WellFormed
  <1>10. Contents(t, n) = [i \in 1..1 |-> g[(0 + i) % n]]
    BY <1>5, <1>6, <1>7, Zenon DEF Contents
  <1>11. [i \in 1..1 |-> g[(0 + i) % n]] = [i \in 1..1 |-> v]
    <2>1. \A i \in 1..1 : i \in Int
      OBVIOUS
    <2>. QED BY <1>6, <1>8, <2>1, Zenon
  <1>12. [i \in 1..1 |-> v] = <<v>>
    OBVIOUS
  <1>. QED BY <1>5, <1>9, <1>10, <1>11, <1>12, Zenon

\* A queue just created is well formed and holds nothing (prvInitialiseNewQueue
\* with xQueueGenericReset: pcReadFrom starts at the last item, not the first).
THEOREM EmptyIsEmpty ==
    ASSUME NEW n \in Nat \ {0}, NEW V, NEW d \in V
    PROVE  /\ WellFormed(EmptyStorage(n, d), n, V)
           /\ Contents(EmptyStorage(n, d), n) = <<>>
  <1>1. ((n - 1) + 1 + 0) % n = 0
    <2>1. (n - 1) + 1 + 0 = n /\ n % n = 0
      BY SMT
    <2>. QED BY <2>1, Zenon
  <1>2. WellFormed(EmptyStorage(n, d), n, V)
    BY <1>1 DEF WellFormed, EmptyStorage
  <1>3. Contents(EmptyStorage(n, d), n) = <<>>
    BY DEF Contents, EmptyStorage
  <1>. QED BY <1>2, <1>3

\* Waking the first task that waits, if any.
LEMMA WakeKeeps ==
    ASSUME NEW s, KernelOK(s), NEW e \in Events
    PROVE  /\ KernelOK(Wake(s, e).s) /\ Keeps(Wake(s, e).s, s)
           /\ Wake(s, e).higher \in BOOLEAN
  <1>1. CASE s.xTasksWaiting[e] = <<>>
    <2>1. Wake(s, e).s = s /\ Wake(s, e).higher = FALSE
      BY <1>1 DEF Wake
    <2>. QED BY <2>1 DEF Keeps
  <1>2. CASE s.xTasksWaiting[e] # <<>>
    <2>1. Wake(s, e) = xTaskRemoveFromEventList(s, e)
      BY <1>2 DEF Wake
    <2>2. /\ s \in Kernel /\ ListsOK(s) /\ TimesOK(s)
          /\ s.uxSchedulerSuspended = 0 => s.xPendedTicks = 0 /\ Pnd(s) = {}
      BY DEF KernelOK
    <2>3. PICK l \in [Threads -> Nat] : LeftOK(s, l, s.xPendedTicks)
      BY DEF KernelOK
    <2>. DEFINE r == xTaskRemoveFromEventList(s, e)
                t == Head(s.xTasksWaiting[e])
                h == [l EXCEPT ![t] = 0]
    <2>4. s.uxSchedulerSuspended \in Nat
      BY <2>2 DEF Kernel
    <2>5. Pnd(s) # {} => s.uxSchedulerSuspended > 0
      BY <2>2, <2>4
    <2>6. /\ t \in Tasks /\ Signalled(r.s, s)
          /\ ListsOK(r.s) /\ TimesOK(r.s) /\ LeftOK(r.s, h, s.xPendedTicks)
          /\ r.higher \in BOOLEAN
      <3>. HIDE DEF r, t, h
      <3>. QED BY <1>2, <2>2, <2>3, <2>5, SignalFacts DEF r, t, h
    <2>7. h \in [Threads -> Nat]
      OBVIOUS
    <2>. HIDE DEF r, t, h
    <2>8. /\ r.s \in Kernel /\ r.s.xPendedTicks = s.xPendedTicks
          /\ r.s.uxSchedulerSuspended = s.uxSchedulerSuspended
          /\ r.s.pxCurrentTCB = s.pxCurrentTCB
          /\ Pnd(r.s) # {} => r.s.uxSchedulerSuspended > 0
          /\ \A u \in Threads : IsReady(s, u) => IsReady(r.s, u)
      BY <2>6 DEF Signalled
    <2>9. KernelOK(r.s)
      BY <2>2, <2>4, <2>6, <2>7, <2>8 DEF KernelOK
    <2>10. Keeps(r.s, s)
      BY <2>8 DEF Keeps
    <2>. QED BY <2>1, <2>6, <2>9, <2>10 DEF r
  <1>. QED BY <1>1, <1>2

\* What prvUnlockQueue makes good, task by task.
Consistent == {s \in Kernel : KernelOK(s)}
WakeFold == INSTANCE Folding WITH Op <- AfterWake, K <- Consistent, D <- Events

\* A task woken for every item counted while the queue was locked.
LEMMA WakeForKeeps ==
    ASSUME NEW s, KernelOK(s), NEW e \in Events, NEW count \in Int
    PROVE  KernelOK(WakeFor(s, e, count)) /\ Keeps(WakeFor(s, e, count), s)
  <1>. DEFINE seq == [i \in 1..count |-> e]
              n == WakeFor(s, e, count)
  <1>1. /\ seq \in Seq(Events)
        /\ \A i \in 1..Len(seq) : seq[i] = e
    <2>1. PICK c \in Nat : 1..count = 1..c
      <3>1. CASE count < 0
        <4>1. 1..count = 1..0
          BY <3>1
        <4>. QED BY <4>1
      <3>. QED BY <3>1
    <2>2. seq = [i \in 1..c |-> e]
      BY <2>1, Zenon
    <2>. HIDE DEF seq
    <2>. QED BY <2>2
  <1>2. s \in Consistent
    BY DEF Consistent, KernelOK
  <1>3. \A u \in Consistent, d \in Events : AfterWake(u, d) \in Consistent
    BY WakeKeeps DEF AfterWake, Consistent, KernelOK
  <1>4. n = WakeFold!FoldLeft(AfterWake, s, seq)
    BY DEF WakeFor, FoldLeft, MapThenFoldSet, WakeFold!FoldLeft, WakeFold!MapThenFoldSet,
           Max, WakeFold!Max
  <1>. HIDE DEF seq, n
  <1>5. PICK g \in [0..Len(seq) -> Consistent] :
            /\ g[0] = s
            /\ \A i \in 1..Len(seq) : g[i] = AfterWake(g[i - 1], seq[i])
            /\ n = g[Len(seq)]
    BY <1>1, <1>2, <1>3, <1>4, Induct, WakeFold!FoldSteps
  <1>. DEFINE Q == {i \in Nat : i <= Len(seq) => Keeps(g[i], s)}
  <1>6. 0 \in Q
    BY <1>5 DEF Keeps
  <1>7. ASSUME NEW i \in Nat, i \in Q PROVE i + 1 \in Q
    <2>. SUFFICES ASSUME i + 1 <= Len(seq) PROVE Keeps(g[i + 1], s)
      OBVIOUS
    <2>1. i \in 0..Len(seq) /\ i + 1 \in 1..Len(seq) /\ i + 1 - 1 = i /\ Keeps(g[i], s)
      BY <1>1, <1>7
    <2>2. g[i + 1] = AfterWake(g[i], e) /\ g[i] \in Consistent
      BY <1>1, <1>5, <2>1
    <2>3. Keeps(AfterWake(g[i], e), g[i])
      BY <2>2, WakeKeeps DEF AfterWake, Consistent
    <2>. QED BY <2>1, <2>2, <2>3 DEF Keeps
  <1>8. Nat \subseteq Q
    <2>. HIDE DEF Q
    <2>. QED BY <1>6, <1>7, Induct
  <1>9. Len(seq) \in Nat
    BY <1>1
  <1>. QED BY <1>5, <1>8, <1>9 DEF n, Consistent

\* A change of priority by inheritance.
LEMMA ChangeKeeps ==
    ASSUME NEW s, KernelOK(s), NEW t \in Tasks, NEW p \in Priorities
    PROVE  KernelOK(ChangePriority(s, t, p)) /\ Keeps(ChangePriority(s, t, p), s)
  <1>. DEFINE n == Relist(SetPriority(s, t, p), t, s.uxPriority[t])
  <1>1. ChangePriority(s, t, p) = n
    BY DEF ChangePriority, SetPriority
  <1>2. s \in Kernel /\ ListsOK(s) /\ TimesOK(s)
        /\ (s.uxSchedulerSuspended = 0 => s.xPendedTicks = 0 /\ Pnd(s) = {})
    BY DEF KernelOK
  <1>3. PICK l \in [Threads -> Nat] : LeftOK(s, l, s.xPendedTicks)
    BY DEF KernelOK
  <1>4. /\ Retained(n, s, t, p) /\ ListsOK(n)
        /\ \A u \in Threads : IsReady(n, u) <=> IsReady(s, u)
        /\ Pnd(n) = Pnd(s) /\ TimesOK(n)
        /\ LeftOK(n, l, s.xPendedTicks)
    <2>. HIDE DEF n
    <2>. QED BY <1>2, <1>3, RelistOutcome DEF n
  <1>. HIDE DEF n
  <1>5. /\ n \in Kernel /\ n.xPendedTicks = s.xPendedTicks
        /\ n.uxSchedulerSuspended = s.uxSchedulerSuspended
        /\ n.pxCurrentTCB = s.pxCurrentTCB
    BY <1>4 DEF Retained
  <1>6. KernelOK(n)
    BY <1>2, <1>3, <1>4, <1>5 DEF KernelOK
  <1>7. Keeps(n, s)
    BY <1>4, <1>5 DEF Keeps
  <1>. QED BY <1>1, <1>6, <1>7

(***************************************************************************)
(* The invariant of the calls.                                             *)
(***************************************************************************)
InQueue == {"try", "suspend", "lock", "check", "recheck", "inherit", "place", "unlockTx",
           "unlockRx", "resumeCall", "yieldCall", "expired", "disinherit"}
QueueKpcs == InQueue \cup {"run", "add", "resume", "yield", "done"}
\* where a task has suspended the scheduler
Alone == {"lock", "check", "recheck", "inherit", "place", "unlockTx", "unlockRx",
          "resumeCall", "add", "resume"}
\* where it is about to wait, with time left
Patient == {"suspend", "lock", "check", "recheck", "inherit", "place"}
\* where it may have blocked already
Leaving == {"unlockTx", "unlockRx", "resumeCall"}

Ops == Senders \cup Receivers
Answers == Items \cup {NoItem, Nothing, Done, Failed}
CallRecord ==
    [op : Ops \cup {"none"}, queue : Queues \cup {NoQueue}, item : Items \cup {NoItem},
     ticks : 0..portMAX_DELAY, entered : Int, overflowed : BOOLEAN, inherited : BOOLEAN,
     after : {"none", "expired", "retry", "block"}, answer : Answers,
     asked : 0..portMAX_DELAY, waited : Nat]

\* a call the application makes
Legal(c) ==
    /\ c.queue \in Queues /\ c.op \in Ops
    /\ c.op \in {"give", "take"} <=> c.queue \notin Buffers
    /\ c.op \in {"send", "front", "overwrite"} => c.item \in Items
    /\ c.op = "overwrite" => uxLength[c.queue] = 1

\* task t is at p in the call c, or in vTaskDelay with the argument a
CalledAt(t, p, c, a) ==
    /\ t = Idle => p = "run"
    /\ p \in InQueue => Legal(c) /\ c.op # "give"
    /\ p # "done" => c.answer = Nothing
    /\ p \in Patient => c.ticks > 0
    /\ p = "add" => a.ticks > 0
InCalls(pc, cl, a) ==
    /\ pc \in [Threads -> QueueKpcs] /\ cl \in [Threads -> CallRecord] /\ a \in [Threads -> Args]
    /\ \A t \in Threads : CalledAt(t, pc[t], cl[t], a[t])

\* only the running task has the scheduler suspended, once
Suspension(s, pc) ==
    /\ \A t \in Threads : pc[t] \in Alone => t = s.pxCurrentTCB
    /\ s.uxSchedulerSuspended = IF pc[s.pxCurrentTCB] \in Alone THEN 1 ELSE 0

\* the running task, at p in the call c, is ready until it has blocked
Processor(s, p, c, y) ==
    /\ y \in BOOLEAN /\ (s.uxSchedulerSuspended > 0 => ~ y)
    /\ \/ IsReady(s, s.pxCurrentTCB) \/ y \/ p \in {"resume", "yield", "yieldCall"}
       \/ p \in Leaving /\ c.after = "block"

\* a mutex has a holder exactly when it cannot be taken; a semaphore has none
StoreOK(x, s) ==
    /\ s \in Record(uxLength[x], Items \cup {NoItem}, Int, Tasks \cup {NoTask})
    /\ s.uxMessagesWaiting \in 0..uxLength[x]
    /\ x \in Buffers => WellFormed(s, uxLength[x], Items \cup {NoItem})
    /\ s.xMutexHolder = NoTask <=> ~ (x \in Mutexes /\ s.uxMessagesWaiting = 0)
Stores(z) == DOMAIN z = Queues /\ \A x \in Queues : StoreOK(x, z[x])

CallsOK(s, pc, cl, a, y) ==
    /\ KernelOK(s) /\ InCalls(pc, cl, a) /\ Suspension(s, pc)
    /\ Processor(s, pc[s.pxCurrentTCB], cl[s.pxCurrentTCB], y)

QueueInv == load \in DOMAIN Workloads /\ CallsOK(k, kpc, call, arg, yieldReq) /\ Stores(q)

\* the running task goes to p with the call d and the argument b; the kernel becomes n
StepOK(s, p, d, b, n, z) ==
    /\ p \in QueueKpcs /\ d \in CallRecord /\ b \in Args /\ CalledAt(s.pxCurrentTCB, p, d, b)
    /\ KernelOK(n) /\ n.pxCurrentTCB = s.pxCurrentTCB
    /\ n.uxSchedulerSuspended = IF p \in Alone THEN 1 ELSE 0
    /\ Processor(n, p, d, z)

\* A step of the running task that respects StepOK keeps the calls consistent.
LEMMA StepTo ==
    ASSUME NEW s, NEW pc, NEW cl, NEW a, NEW y, CallsOK(s, pc, cl, a, y),
           NEW p, NEW d, NEW b, NEW n, NEW z, StepOK(s, p, d, b, n, z)
    PROVE  CallsOK(n, [pc EXCEPT ![s.pxCurrentTCB] = p], [cl EXCEPT ![s.pxCurrentTCB] = d],
                      [a EXCEPT ![s.pxCurrentTCB] = b], z)
  <1>. DEFINE c == s.pxCurrentTCB
              pc2 == [pc EXCEPT ![c] = p]
              cl2 == [cl EXCEPT ![c] = d]
              a2 == [a EXCEPT ![c] = b]
  <1>1. c \in Threads
    BY DEF CallsOK, KernelOK, Kernel
  <1>2. /\ pc \in [Threads -> QueueKpcs] /\ cl \in [Threads -> CallRecord] /\ a \in [Threads -> Args]
        /\ \A t \in Threads : CalledAt(t, pc[t], cl[t], a[t])
    BY DEF CallsOK, InCalls
  <1>3. /\ p \in QueueKpcs /\ d \in CallRecord /\ b \in Args /\ CalledAt(c, p, d, b)
        /\ KernelOK(n) /\ n.pxCurrentTCB = c
        /\ n.uxSchedulerSuspended = IF p \in Alone THEN 1 ELSE 0
        /\ Processor(n, p, d, z)
    BY DEF StepOK
  <1>4. \A t \in Threads : t # c => pc[t] \notin Alone
    BY DEF CallsOK, Suspension
  <1>. HIDE DEF c
  <1>5. /\ pc2 \in [Threads -> QueueKpcs] /\ cl2 \in [Threads -> CallRecord] /\ a2 \in [Threads -> Args]
        /\ pc2[c] = p /\ cl2[c] = d /\ a2[c] = b
        /\ \A t \in Threads : t # c => pc2[t] = pc[t] /\ cl2[t] = cl[t] /\ a2[t] = a[t]
    BY <1>1, <1>2, <1>3
  <1>. HIDE DEF pc2, cl2, a2
  <1>6. InCalls(pc2, cl2, a2)
    <2>1. \A t \in Threads : CalledAt(t, pc2[t], cl2[t], a2[t])
      BY <1>2, <1>3, <1>5
    <2>. QED BY <1>5, <2>1 DEF InCalls
  <1>7. Suspension(n, pc2)
    BY <1>1, <1>3, <1>4, <1>5 DEF Suspension
  <1>8. CallsOK(n, pc2, cl2, a2, z)
    BY <1>3, <1>5, <1>6, <1>7 DEF CallsOK
  <1>. QED BY <1>8 DEF pc2, cl2, a2, c

\* An interrupt leaves every task where it is in its calls.
LEMMA IsrKeeps ==
    ASSUME NEW s, NEW pc, NEW cl, NEW a, NEW y, CallsOK(s, pc, cl, a, y),
           NEW n, NEW z, AfterIsr(n, s, y, z)
    PROVE  CallsOK(n, pc, cl, a, z)
  <1>1. /\ InCalls(pc, cl, a) /\ Suspension(s, pc)
        /\ Processor(s, pc[s.pxCurrentTCB], cl[s.pxCurrentTCB], y)
    BY DEF CallsOK
  <1>2. s.pxCurrentTCB \in Threads
    BY DEF CallsOK, KernelOK, Kernel
  <1>3. /\ KernelOK(n) /\ z \in BOOLEAN
        /\ n.uxSchedulerSuspended = s.uxSchedulerSuspended
    BY DEF AfterIsr
  <1>4. n.pxCurrentTCB \in Threads
    BY <1>3 DEF KernelOK, Kernel
  <1>5. CASE Keeps(n, s) /\ z = y
    <2>1. /\ n.pxCurrentTCB = s.pxCurrentTCB
          /\ IsReady(s, s.pxCurrentTCB) => IsReady(n, s.pxCurrentTCB)
      BY <1>2, <1>5 DEF Keeps
    <2>2. Suspension(n, pc)
      BY <1>1, <1>3, <2>1 DEF Suspension
    <2>3. Processor(n, pc[n.pxCurrentTCB], cl[n.pxCurrentTCB], z)
      BY <1>1, <1>3, <1>5, <2>1 DEF Processor
    <2>. QED BY <1>1, <1>3, <2>2, <2>3 DEF CallsOK
  <1>6. CASE s.uxSchedulerSuspended = 0 /\ IsReady(n, n.pxCurrentTCB) /\ z = FALSE
    <2>1. \A t \in Threads : pc[t] \notin Alone
      BY <1>1, <1>2, <1>6 DEF Suspension
    <2>2. Suspension(n, pc)
      BY <1>3, <1>4, <1>6, <2>1 DEF Suspension
    <2>3. Processor(n, pc[n.pxCurrentTCB], cl[n.pxCurrentTCB], z)
      BY <1>3, <1>6 DEF Processor
    <2>. QED BY <1>1, <1>3, <2>2, <2>3 DEF CallsOK
  <1>. QED BY <1>5, <1>6 DEF AfterIsr

\* the calls differ only in what they know of the time
SameCalls(f, cl) ==
    /\ f \in [Threads -> CallRecord]
    /\ \A t \in Threads : /\ f[t].op = cl[t].op /\ f[t].queue = cl[t].queue
                          /\ f[t].item = cl[t].item /\ f[t].ticks = cl[t].ticks
                          /\ f[t].after = cl[t].after /\ f[t].answer = cl[t].answer

\* What is known of the time is no part of the invariant.
LEMMA SameCallsOK ==
    ASSUME NEW s, NEW pc, NEW cl, NEW a, NEW y, CallsOK(s, pc, cl, a, y),
           NEW f, SameCalls(f, cl)
    PROVE  CallsOK(s, pc, f, a, y)
  <1>1. s.pxCurrentTCB \in Threads
    BY DEF CallsOK, KernelOK, Kernel
  <1>2. \A t \in Threads : CalledAt(t, pc[t], cl[t], a[t]) => CalledAt(t, pc[t], f[t], a[t])
    BY DEF SameCalls, CalledAt, Legal
  <1>3. InCalls(pc, f, a)
    BY <1>2 DEF CallsOK, InCalls, SameCalls
  <1>4. f[s.pxCurrentTCB].after = cl[s.pxCurrentTCB].after
    BY <1>1 DEF SameCalls
  <1>5. Processor(s, pc[s.pxCurrentTCB], f[s.pxCurrentTCB], y)
    BY <1>4 DEF CallsOK, Processor
  <1>. QED BY <1>3, <1>5 DEF CallsOK

\* What a step of the running task finds.
Finds(t, p) ==
    /\ t = k.pxCurrentTCB /\ t \in Threads /\ yieldReq = FALSE /\ kpc[t] = p
    /\ CalledAt(t, p, call[t], arg[t]) /\ call[t] \in CallRecord /\ arg[t] \in Args
    /\ KernelOK(k) /\ Processor(k, p, call[t], FALSE)
    /\ k.uxSchedulerSuspended = IF p \in Alone THEN 1 ELSE 0

\* The running task is where the action At(p) finds it.
LEMMA AtFinds ==
    ASSUME QueueInv, NEW p, At(p)
    PROVE  Finds(k.pxCurrentTCB, p)
  <1>. DEFINE t == k.pxCurrentTCB
  <1>1. CallsOK(k, kpc, call, arg, yieldReq)
    BY DEF QueueInv
  <1>2. t \in Threads /\ KernelOK(k)
    BY <1>1 DEF CallsOK, KernelOK, Kernel
  <1>3. ~ yieldReq /\ kpc[t] = p
    BY DEF At, cur
  <1>4. yieldReq = FALSE /\ Processor(k, p, call[t], FALSE)
    <2>1. Processor(k, p, call[t], yieldReq)
      BY <1>1, <1>3 DEF CallsOK
    <2>2. yieldReq = FALSE
      BY <1>3, <2>1 DEF Processor
    <2>. QED BY <2>1, <2>2
  <1>5. CalledAt(t, p, call[t], arg[t]) /\ call[t] \in CallRecord /\ arg[t] \in Args
    BY <1>1, <1>2, <1>3 DEF CallsOK, InCalls
  <1>6. k.uxSchedulerSuspended = IF p \in Alone THEN 1 ELSE 0
    BY <1>1, <1>3 DEF CallsOK, Suspension
  <1>. QED BY <1>2, <1>3, <1>4, <1>5, <1>6 DEF Finds

(***************************************************************************)
(* The data.                                                               *)
(***************************************************************************)
Held(x, s) == Contents(s, uxLength[x])
Inserts(new, old, n) ==
    \E v \in Items : \/ Len(old) < n /\ (new = Append(old, v) \/ new = <<v>> \o old)
                     \/ n = 1 /\ new = <<v>>

\* A queue has room for one item at least, a mutex for just one.
LEMMA LengthFacts ==
    /\ \A x \in Queues : uxLength[x] \in Nat \ {0}
    /\ \A x \in Mutexes : x \in Queues /\ x \notin Buffers /\ uxLength[x] = 1
    /\ \A x \in Buffers : x \in Queues
  BY QueueAssumption

\* As many messages are held as are counted.
LEMMA HeldLength ==
    ASSUME NEW x \in Queues, NEW s, StoreOK(x, s)
    PROVE  /\ Len(Held(x, s)) = s.uxMessagesWaiting
           /\ s.uxMessagesWaiting \in 0..uxLength[x] /\ uxLength[x] \in Nat \ {0}
  <1>1. s.uxMessagesWaiting \in 0..uxLength[x] /\ uxLength[x] \in Nat \ {0}
    BY LengthFacts DEF StoreOK
  <1>. DEFINE m == s.uxMessagesWaiting
  <1>2. m \in Nat
    BY <1>1
  <1>3. Held(x, s) = [i \in 1..m |-> s.items[(s.pcReadFrom + i) % uxLength[x]]]
    BY DEF Held, Contents
  <1>. HIDE DEF m
  <1>4. Len(Held(x, s)) = m
    BY <1>2, <1>3
  <1>. QED BY <1>1, <1>4 DEF m

Stored == Items \cup {NoItem}
Store(x) == Record(uxLength[x], Stored, Int, Tasks \cup {NoTask})

\* A buffer holds a sequence.
LEMMA HeldSeq ==
    ASSUME NEW x \in Buffers, NEW s, StoreOK(x, s)
    PROVE  Held(x, s) \in Seq(Stored)
  <1>. DEFINE m == s.uxMessagesWaiting
              n == uxLength[x]
              f == s.items
              r == s.pcReadFrom
  <1>1. m \in 0..n /\ n \in Nat \ {0} /\ f \in [0..(n - 1) -> Stored] /\ r \in 0..(n - 1)
    BY LengthFacts DEF StoreOK, WellFormed, Stored
  <1>2. Held(x, s) = [i \in 1..m |-> f[(r + i) % n]]
    BY DEF Held, Contents
  <1>. HIDE DEF m, n, f, r
  <1>3. \A i \in 1..m : (r + i) % n \in 0..(n - 1)
    <2>. TAKE i \in 1..m
    <2>1. i \in 0..n
      BY <1>1
    <2>2. (r + i) % n = IF r + i < n THEN r + i ELSE r + i - n
      BY <1>1, <2>1, Places
    <2>. QED BY <1>1, <2>1, <2>2
  <1>4. \A i \in 1..m : f[(r + i) % n] \in Stored
    BY <1>1, <1>3
  <1>5. m \in Nat
    BY <1>1
  <1>. QED BY <1>2, <1>4, <1>5

WithLocks(s, i, j) == [s EXCEPT !.cRxLock = i, !.cTxLock = j]

\* The locks are no part of what a queue holds.
LEMMA LocksKeep ==
    ASSUME NEW x \in Queues, NEW s, StoreOK(x, s), NEW i \in Int, NEW j \in Int
    PROVE  StoreOK(x, WithLocks(s, i, j)) /\ Held(x, WithLocks(s, i, j)) = Held(x, s)
  <1>. DEFINE n == [s EXCEPT !.cRxLock = i, !.cTxLock = j]
  <1>1. s \in Record(uxLength[x], Items \cup {NoItem}, Int, Tasks \cup {NoTask})
    BY DEF StoreOK
  <1>2. /\ n \in Record(uxLength[x], Items \cup {NoItem}, Int, Tasks \cup {NoTask})
        /\ n.items = s.items /\ n.pcWriteTo = s.pcWriteTo /\ n.pcReadFrom = s.pcReadFrom
        /\ n.uxMessagesWaiting = s.uxMessagesWaiting /\ n.xMutexHolder = s.xMutexHolder
    BY <1>1 DEF Record
  <1>. HIDE DEF n
  <1>3. StoreOK(x, n)
    BY <1>2 DEF StoreOK, WellFormed
  <1>4. Held(x, n) = Held(x, s)
    BY <1>2 DEF Held, Contents
  <1>. QED BY <1>3, <1>4 DEF n, WithLocks

\* The fields a copy leaves alone.
LEMMA CopyHolder ==
    ASSUME NEW x \in Queues, NEW s \in Store(x), NEW n, NEW v
    PROVE  /\ CopyToBack(s, n, v).xMutexHolder = s.xMutexHolder
           /\ CopyToFront(s, n, v).xMutexHolder = s.xMutexHolder
           /\ Overwrite(s, n, v).xMutexHolder = s.xMutexHolder
           /\ CopyFrom(s, n).xMutexHolder = s.xMutexHolder
  BY DEF Store, Record, CopyToBack, CopyToFront, Overwrite, CopyFrom

\* Overwriting the only item keeps the fields typed.
LEMMA OverwriteType ==
    ASSUME NEW x \in Queues, NEW s \in Store(x), WellFormed(s, uxLength[x], Stored), NEW v \in Stored
    PROVE  Overwrite(s, uxLength[x], v) \in Store(x)
  <1>. DEFINE n == uxLength[x]
              u == CopyToFront(s, n, v)
              p == IF s.uxMessagesWaiting > 0 THEN u.uxMessagesWaiting - 1 ELSE u.uxMessagesWaiting
  <1>1. n \in Nat \ {0}
    BY LengthFacts
  <1>2. u \in Store(x)
    <2>. HIDE DEF u
    <2>. QED BY <1>1, CopyToFrontFields DEF Store, u
  <1>3. Overwrite(s, n, v) = [u EXCEPT !.uxMessagesWaiting = p]
    BY DEF Overwrite
  <1>4. p \in Int
    <2>. HIDE DEF u
    <2>. QED BY <1>2 DEF Store, Record
  <1>. HIDE DEF u, p
  <1>. QED BY <1>2, <1>3, <1>4 DEF Store, Record

\* Sending leaves the storage well formed, whatever the call.
LEMMA CopyTypes ==
    ASSUME NEW x \in Queues, NEW s \in Store(x), WellFormed(s, uxLength[x], Stored), NEW v \in Stored
    PROVE  /\ CopyToBack(s, uxLength[x], v) \in Store(x)
           /\ CopyToFront(s, uxLength[x], v) \in Store(x)
           /\ CopyFrom(s, uxLength[x]) \in Store(x)
  <1>. DEFINE n == uxLength[x]
              a == CopyToBack(s, n, v)
              b == CopyToFront(s, n, v)
              c == CopyFrom(s, n)
  <1>1. n \in Nat \ {0}
    BY LengthFacts
  <1>2. a \in Store(x)
    <2>. HIDE DEF a
    <2>. QED BY <1>1, CopyToBackFields DEF Store, a
  <1>3. b \in Store(x)
    <2>. HIDE DEF b
    <2>. QED BY <1>1, CopyToFrontFields DEF Store, b
  <1>4. c \in Store(x)
    <2>. HIDE DEF c
    <2>. QED BY <1>1, CopyFromFields DEF Store, c
  <1>. QED BY <1>2, <1>3, <1>4

\* A send to a buffer puts the item where it says.
LEMMA SendBuffer ==
    ASSUME NEW x \in Buffers, NEW s, StoreOK(x, s), NEW v \in Items, NEW o \in {"send", "front", "overwrite"},
           o = "overwrite" => uxLength[x] = 1,
           o # "overwrite" => s.uxMessagesWaiting # uxLength[x],
           NEW n, n = CASE o = "send" -> CopyToBack(s, uxLength[x], v)
                        [] o = "front" -> CopyToFront(s, uxLength[x], v)
                        [] o = "overwrite" -> Overwrite(s, uxLength[x], v)
    PROVE  StoreOK(x, n) /\ Inserts(Held(x, n), Held(x, s), uxLength[x])
  <1>. DEFINE l == uxLength[x]
  <1>0. x \in Queues /\ x \notin Mutexes /\ l \in Nat \ {0}
    BY LengthFacts
  <1>1. /\ s \in Store(x) /\ WellFormed(s, l, Stored) /\ s.uxMessagesWaiting \in 0..l
        /\ s.xMutexHolder = NoTask /\ v \in Stored
    BY <1>0 DEF StoreOK, Stored, Store
  <1>2. Len(Held(x, s)) = s.uxMessagesWaiting
    BY <1>0, HeldLength
  <1>3. o # "overwrite" => s.uxMessagesWaiting < l
    BY <1>0, <1>1
  <1>9. CopyToBack(s, l, v) \in Store(x) /\ CopyToFront(s, l, v) \in Store(x)
    BY <1>0, <1>1, CopyTypes
  <1>4. ASSUME n \in Store(x), WellFormed(n, l, Stored), n.xMutexHolder = NoTask
        PROVE  StoreOK(x, n)
    BY <1>0, <1>4 DEF StoreOK, Stored, Store, WellFormed
  <1>. HIDE DEF l
  <1>5. n.xMutexHolder = NoTask
    <2>1. /\ CopyToBack(s, l, v).xMutexHolder = NoTask
          /\ CopyToFront(s, l, v).xMutexHolder = NoTask
          /\ Overwrite(s, l, v).xMutexHolder = NoTask
      BY <1>0, <1>1, CopyHolder
    <2>. QED BY <2>1 DEF l
  <1>6. CASE o = "send"
    <2>1. n = CopyToBack(s, l, v)
      BY <1>6 DEF l
    <2>2. n \in Store(x)
      BY <1>9, <2>1
    <2>3. WellFormed(n, l, Stored) /\ Contents(n, l) = Append(Contents(s, l), v)
      BY <1>0, <1>1, <1>3, <1>6, <2>1, CopyToBackAppends DEF Store, l
    <2>4. Inserts(Held(x, n), Held(x, s), l)
      BY <1>2, <1>3, <1>6, <2>3 DEF Inserts, Held, l
    <2>. QED BY <1>4, <1>5, <2>2, <2>3, <2>4 DEF l
  <1>7. CASE o = "front"
    <2>1. n = CopyToFront(s, l, v)
      BY <1>7 DEF l
    <2>2. n \in Store(x)
      BY <1>9, <2>1
    <2>3. WellFormed(n, l, Stored) /\ Contents(n, l) = <<v>> \o Contents(s, l)
      BY <1>0, <1>1, <1>3, <1>7, <2>1, CopyToFrontPrepends DEF Store, l
    <2>4. Inserts(Held(x, n), Held(x, s), l)
      BY <1>2, <1>3, <1>7, <2>3 DEF Inserts, Held, l
    <2>. QED BY <1>4, <1>5, <2>2, <2>3, <2>4 DEF l
  <1>8. CASE o = "overwrite"
    <2>1. n = Overwrite(s, l, v) /\ l = 1
      BY <1>8 DEF l
    <2>2. n \in Store(x)
      BY <1>0, <1>1, <2>1, OverwriteType DEF l
    <2>3. WellFormed(n, l, Stored) /\ Contents(n, l) = <<v>>
      BY <1>0, <1>1, <2>1, OverwriteReplaces DEF Store, l
    <2>4. Inserts(Held(x, n), Held(x, s), l)
      BY <2>1, <2>3 DEF Inserts, Held, l
    <2>. QED BY <1>4, <1>5, <2>2, <2>3, <2>4 DEF l
  <1>. QED BY <1>6, <1>7, <1>8

\* A give counts one more; a mutex has no holder then.
LEMMA GiveStore ==
    ASSUME NEW x \in Queues \ Buffers, NEW s, StoreOK(x, s), s.uxMessagesWaiting # uxLength[x],
           NEW n, n = IF x \in Mutexes
                      THEN [s EXCEPT !.uxMessagesWaiting = @ + 1, !.xMutexHolder = NoTask]
                      ELSE [s EXCEPT !.uxMessagesWaiting = @ + 1]
    PROVE  StoreOK(x, n)
  <1>. DEFINE l == uxLength[x]
              m == s.uxMessagesWaiting
  <1>1. /\ s \in Store(x) /\ m \in 0..l /\ l \in Nat \ {0} /\ m + 1 \in 1..l
        /\ s.xMutexHolder = NoTask <=> ~ (x \in Mutexes /\ m = 0)
    BY LengthFacts DEF StoreOK, Store, Stored
  <1>. HIDE DEF m
  <1>. DEFINE h == IF x \in Mutexes THEN NoTask ELSE s.xMutexHolder
  <1>6. h = NoTask /\ h \in Tasks \cup {NoTask}
    BY <1>1
  <1>. HIDE DEF h
  <1>2. n = [s EXCEPT !.uxMessagesWaiting = m + 1, !.xMutexHolder = h]
    <2>1. CASE x \in Mutexes
      <3>1. h = NoTask
        BY <2>1 DEF h
      <3>. QED BY <2>1, <3>1 DEF m
    <2>2. CASE x \notin Mutexes
      <3>1. h = s.xMutexHolder /\ n = [s EXCEPT !.uxMessagesWaiting = m + 1]
        BY <2>2 DEF h, m
      <3>2. \A g, i : g = s.xMutexHolder => [s EXCEPT !.uxMessagesWaiting = i]
                    = [s EXCEPT !.uxMessagesWaiting = i, !.xMutexHolder = g]
        BY <1>1 DEF Store, Record
      <3>. QED BY <3>1, <3>2
    <2>. QED BY <2>1, <2>2
  <1>3. n \in Store(x) /\ n.uxMessagesWaiting = m + 1 /\ n.xMutexHolder = h
    <2>1. PICK i \in Int : i = m + 1
      BY <1>1
    <2>2. PICK u : u = [s EXCEPT !.uxMessagesWaiting = i, !.xMutexHolder = h]
      OBVIOUS
    <2>3. u \in Store(x) /\ u.uxMessagesWaiting = i /\ u.xMutexHolder = h
      BY <1>1, <1>6, <2>2 DEF Store, Record
    <2>4. u = n
      BY <1>2, <2>1, <2>2, Zenon
    <2>. QED BY <2>1, <2>3, <2>4, Zenon
  <1>4. n.xMutexHolder = NoTask
    BY <1>3, <1>6
  <1>5. m + 1 # 0
    BY <1>1
  <1>. HIDE DEF l
  <1>. QED BY <1>1, <1>3, <1>4, <1>5 DEF StoreOK, Store, Stored, l

\* What prvCopyDataToQueue does to a queue with room, or to a mailbox.
LEMMA CopyTo ==
    ASSUME Stores(q), NEW c, Legal(c), c.op \in Senders, ~ MustWait(c),
           NEW x, x = c.queue
    PROVE  LET n == prvCopyDataToQueue(x, c)
           IN  /\ StoreOK(x, n)
               /\ x \in Buffers => Inserts(Held(x, n), Held(x, q[x]), uxLength[x])
  <1>. DEFINE n == prvCopyDataToQueue(x, c)
              s == q[x]
  <1>1. x \in Queues /\ StoreOK(x, s)
    BY DEF Legal, Stores
  <1>2. c.op # "overwrite" => s.uxMessagesWaiting # uxLength[x]
    BY DEF MustWait, IsFull, Senders, Receivers
  <1>3. CASE x \in Buffers
    <2>1. x \notin Mutexes /\ c.op \in {"send", "front", "overwrite"} /\ c.item \in Items
          /\ (c.op = "overwrite" => uxLength[x] = 1)
      BY <1>3, LengthFacts DEF Legal, Senders
    <2>2. n = CASE c.op = "send" -> CopyToBack(s, uxLength[x], c.item)
                [] c.op = "front" -> CopyToFront(s, uxLength[x], c.item)
                [] c.op = "overwrite" -> Overwrite(s, uxLength[x], c.item)
      BY <2>1 DEF prvCopyDataToQueue
    <2>. HIDE DEF n, s
    <2>3. StoreOK(x, n) /\ Inserts(Held(x, n), Held(x, s), uxLength[x])
      BY <1>1, <1>2, <1>3, <2>1, <2>2, SendBuffer
    <2>. QED BY <2>3 DEF n, s
  <1>4. CASE x \notin Buffers
    <2>1. c.op = "give"
      BY <1>4 DEF Legal, Senders
    <2>2. n = IF x \in Mutexes
              THEN [s EXCEPT !.uxMessagesWaiting = @ + 1, !.xMutexHolder = NoTask]
              ELSE [s EXCEPT !.uxMessagesWaiting = @ + 1]
      BY <2>1 DEF prvCopyDataToQueue
    <2>3. s.uxMessagesWaiting # uxLength[x]
      BY <1>2, <2>1
    <2>. HIDE DEF n, s
    <2>4. StoreOK(x, n)
      BY <1>1, <1>4, <2>2, <2>3, GiveStore
    <2>. QED BY <1>4, <2>4 DEF n
  <1>. QED BY <1>3, <1>4

\* A receive hands out the first item.
LEMMA ReceiveStore ==
    ASSUME NEW x \in Buffers, NEW s, StoreOK(x, s), s.uxMessagesWaiting # 0
    PROVE  /\ StoreOK(x, CopyFrom(s, uxLength[x]))
           /\ Held(x, s) # <<>>
           /\ FirstItem(s, uxLength[x]) = Head(Held(x, s))
           /\ Held(x, CopyFrom(s, uxLength[x])) = Tail(Held(x, s))
           /\ FirstItem(s, uxLength[x]) \in Stored
  <1>. DEFINE l == uxLength[x]
              n == CopyFrom(s, l)
  <1>1. x \in Queues /\ x \notin Mutexes /\ l \in Nat \ {0}
    BY LengthFacts
  <1>2. /\ s \in Store(x) /\ WellFormed(s, l, Stored) /\ s.uxMessagesWaiting \in 0..l
        /\ s.xMutexHolder = NoTask /\ NoItem \in Stored
    BY <1>1 DEF StoreOK, Stored, Store
  <1>3. n \in Store(x)
    BY <1>1, <1>2, CopyTypes
  <1>4. n.xMutexHolder = NoTask
    BY <1>1, <1>2, CopyHolder
  <1>5. /\ WellFormed(n, l, Stored)
        /\ FirstItem(s, l) = Head(Contents(s, l))
        /\ Contents(n, l) = Tail(Contents(s, l))
    <2>1. s.uxMessagesWaiting > 0
      BY <1>1, <1>2
    <2>. HIDE DEF n
    <2>. QED BY <1>1, <1>2, <2>1, CopyFromTakesFirst DEF Store, n
  <1>6. Held(x, s) # <<>>
    BY <1>1, HeldLength
  <1>7. FirstItem(s, l) \in Stored
    <2>1. s.pcReadFrom \in 0..(l - 1) /\ s.items \in [0..(l - 1) -> Stored]
      BY <1>2 DEF WellFormed
    <2>2. Forward(s.pcReadFrom, l) \in 0..(l - 1)
      BY <1>1, <2>1 DEF Forward
    <2>. QED BY <2>1, <2>2 DEF FirstItem
  <1>. HIDE DEF n
  <1>8. StoreOK(x, n)
    BY <1>1, <1>3, <1>4, <1>5 DEF StoreOK, Stored, Store, WellFormed
  <1>. QED BY <1>5, <1>6, <1>7, <1>8 DEF Held, n

\* A take counts one less; who takes a mutex holds it.
LEMMA TakeStore ==
    ASSUME NEW x \in Queues \ Buffers, NEW s, StoreOK(x, s), s.uxMessagesWaiting # 0,
           NEW t \in Tasks,
           NEW n, n = [[s EXCEPT !.uxMessagesWaiting = @ - 1]
                          EXCEPT !.xMutexHolder = IF x \in Mutexes THEN t ELSE NoTask]
    PROVE  StoreOK(x, n)
  <1>. DEFINE m == s.uxMessagesWaiting
              h == IF x \in Mutexes THEN t ELSE NoTask
  <1>1. s \in Store(x) /\ m \in 1..uxLength[x] /\ uxLength[x] \in Nat \ {0}
    BY LengthFacts DEF StoreOK, Store, Stored
  <1>2. h \in Tasks \cup {NoTask} /\ (h = NoTask <=> x \notin Mutexes)
    BY ThreadsAssumption
  <1>3. PICK i \in Int : i = m - 1
    BY <1>1
  <1>. HIDE DEF h
  <1>4. PICK u : u = [s EXCEPT !.uxMessagesWaiting = i, !.xMutexHolder = h]
    OBVIOUS
  <1>5. u \in Store(x) /\ u.uxMessagesWaiting = i /\ u.xMutexHolder = h
    BY <1>1, <1>2, <1>4 DEF Store, Record
  <1>6. u = n
    <2>1. [s EXCEPT !.uxMessagesWaiting = i] = [s EXCEPT !.uxMessagesWaiting = @ - 1]
      BY <1>3
    <2>2. \A v, g : v = [s EXCEPT !.uxMessagesWaiting = i] => [v EXCEPT !.xMutexHolder = g]
              = [s EXCEPT !.uxMessagesWaiting = i, !.xMutexHolder = g]
      BY <1>1 DEF Store, Record
    <2>3. n = [[s EXCEPT !.uxMessagesWaiting = @ - 1] EXCEPT !.xMutexHolder = h]
      BY DEF h
    <2>. QED BY <1>4, <2>1, <2>2, <2>3, Zenon
  <1>7. i \in 0..uxLength[x] /\ (x \in Mutexes => i = 0)
    BY <1>1, <1>3, LengthFacts
  <1>. QED BY <1>2, <1>5, <1>6, <1>7 DEF StoreOK, Store, Stored

-----------------------------------------------------------------------------
(***************************************************************************)
(* The queues as buffers.                                                  *)
(***************************************************************************)
Buf(z) == [x \in Buffers |-> Held(x, z[x])]
Ans(cl) == [t \in Tasks |-> IF cl[t].queue \in Buffers THEN cl[t].answer ELSE Nothing]

\* y is z where the queue x became n.
Became(y, z, x, n) ==
    /\ Stores(y)
    /\ x \in Buffers => Buf(y) = [Buf(z) EXCEPT ![x] = Held(x, n)]
    /\ x \notin Buffers \/ Held(x, n) = Held(x, z[x]) => Buf(y) = Buf(z)

\* One queue changes, the others hold what they held.
LEMMA OneStore ==
    ASSUME NEW z, Stores(z), NEW x \in Queues, NEW n, StoreOK(x, n),
           NEW y, y = [z EXCEPT ![x] = n]
    PROVE  Became(y, z, x, n)
  <1>1. DOMAIN y = Queues /\ \A w \in Queues : y[w] = IF w = x THEN n ELSE z[w]
    BY DEF Stores
  <1>2. Stores(y)
    BY <1>1 DEF Stores
  <1>3. \A w \in Buffers : Held(w, y[w]) = IF w = x THEN Held(x, n) ELSE Held(w, z[w])
    BY <1>1, LengthFacts
  <1>4. x \in Buffers => Buf(y) = [Buf(z) EXCEPT ![x] = Held(x, n)]
    BY <1>3 DEF Buf
  <1>5. x \notin Buffers \/ Held(x, n) = Held(x, z[x]) => Buf(y) = Buf(z)
    BY <1>3 DEF Buf
  <1>. QED BY <1>2, <1>4, <1>5 DEF Became

Puts(b2, b, x) == \E s : b2 = [b EXCEPT ![x] = s] /\ Inserts(s, b[x], uxLength[x])
Takes(b2, b, x) == b[x] # <<>> /\ b2 = [b EXCEPT ![x] = Tail(b[x])]

\* a call of the task t ends
Ends(b2, a2, b, a, t) ==
    \/ \E x \in Buffers : Puts(b2, b, x) /\ a2 = [a EXCEPT ![t] = Done]
    \/ \E x \in Buffers : Takes(b2, b, x) /\ a2 = [a EXCEPT ![t] = Head(b[x])]
    \/ \E x \in Buffers : b[x] # <<>> /\ b2 = b /\ a2 = [a EXCEPT ![t] = Head(b[x])]
    \/ b2 = b /\ a2 = [a EXCEPT ![t] = Failed]

Abstractly(b2, a2, b, a) ==
    \/ b2 = b /\ a2 = a
    \/ \E t \in Tasks : a[t] = Nothing /\ Ends(b2, a2, b, a, t)
    \/ \E t \in Tasks : b2 = b /\ a2 = [a EXCEPT ![t] = Nothing]
    \/ \E x \in Buffers : (Puts(b2, b, x) \/ Takes(b2, b, x)) /\ a2 = a

\* a step of BoundedBuffer, from the buffers b and the answers a
Inserted(b2, b, x, v) ==
    \/ Len(b[x]) < uxLength[x] /\ b2 = [b EXCEPT ![x] = Append(b[x], v)]
    \/ Len(b[x]) < uxLength[x] /\ b2 = [b EXCEPT ![x] = <<v>> \o b[x]]
    \/ uxLength[x] = 1 /\ b2 = [b EXCEPT ![x] = <<v>>]
Answered(a2, a, t, v) == a[t] = Nothing /\ a2 = [a EXCEPT ![t] = v]
ClientDoes(b2, a2, b, a, t) ==
    \/ \E x \in Buffers : /\ \E v \in Items : Inserted(b2, b, x, v)
                          /\ Answered(a2, a, t, Done)
    \/ \E x \in Buffers : Takes(b2, b, x) /\ Answered(a2, a, t, Head(b[x]))
    \/ \E x \in Buffers : b[x] # <<>> /\ Answered(a2, a, t, Head(b[x])) /\ b2 = b
    \/ Answered(a2, a, t, Failed) /\ b2 = b
    \/ a2 = [a EXCEPT ![t] = Nothing] /\ b2 = b
NextOn(b2, a2, b, a) ==
    \/ \E t \in Tasks : a2[t] # a[t] /\ ClientDoes(b2, a2, b, a, t)
    \/ \E x \in Buffers : b2[x] # b[x] /\ (Takes(b2, b, x) \/ \E v \in Items : Inserted(b2, b, x, v)) /\ a2 = a

\* The operators of BoundedBuffer on the buffers and answers of the queues.
LEMMA OpsAbstract ==
    /\ \A t, v : BB!Answer(t, v) <=> Answered(Ans(call'), Ans(call), t, v)
    /\ \A x, s : BB!Change(x, s) <=> Buf(q') = [Buf(q) EXCEPT ![x] = s]
    /\ \A x : BB!HasRoom(x) <=> Len(Buf(q)[x]) < uxLength[x]
  <1>1. \A t, v : BB!Answer(t, v) <=> Answered(Ans(call'), Ans(call), t, v)
    BY DEF BB!Answer, Answered, Ans
  <1>2. \A x, s : BB!Change(x, s) <=> Buf(q') = [Buf(q) EXCEPT ![x] = s]
    BY DEF BB!Change, Buf, Held
  <1>3. \A x : BB!HasRoom(x) <=> Len(Buf(q)[x]) < uxLength[x]
    BY DEF BB!HasRoom, Buf, Held
  <1>. QED BY <1>1, <1>2, <1>3

\* A send, at the front, at the back or over the item, inserts what it carries.
LEMMA InsertionAbstract ==
    /\ \A x, v : Inserted(Buf(q'), Buf(q), x, v) => BB!Insertion(x, v)
    /\ \A x : Takes(Buf(q'), Buf(q), x) => BB!Take(x)
  <1>1. \A x, v : BB!Put(x, v) <=> BB!HasRoom(x) /\ BB!Change(x, Append(Buf(q)[x], v))
    BY DEF BB!Put, Buf, Held
  <1>2. \A x, v : BB!PutFront(x, v) <=> BB!HasRoom(x) /\ BB!Change(x, <<v>> \o Buf(q)[x])
    BY DEF BB!PutFront, Buf, Held
  <1>3. \A x, v : BB!Replace(x, v) <=> uxLength[x] = 1 /\ BB!Change(x, <<v>>)
    BY DEF BB!Replace
  <1>4. \A x : BB!Take(x) <=> Buf(q)[x] # <<>> /\ BB!Change(x, Tail(Buf(q)[x]))
    BY DEF BB!Take, Buf, Held
  <1>5. \A x, v : Inserted(Buf(q'), Buf(q), x, v) => BB!Insertion(x, v)
    <2>. DEFINE b == Buf(q)
                b2 == Buf(q')
    <2>. TAKE x, v
    <2>. HIDE DEF b, b2
    <2>1. Inserted(b2, b, x, v) => BB!Put(x, v) \/ BB!PutFront(x, v) \/ BB!Replace(x, v)
      BY <1>1, <1>2, <1>3, OpsAbstract DEF Inserted, b, b2
    <2>. QED BY <2>1 DEF BB!Insertion, b, b2
  <1>6. \A x : Takes(Buf(q'), Buf(q), x) => BB!Take(x)
    BY <1>4, OpsAbstract DEF Takes
  <1>. QED BY <1>5, <1>6

\* A client's call is a step of BoundedBuffer.
LEMMA NextAbstract ==
    NextOn(Buf(q'), Ans(call'), Buf(q), Ans(call)) => BB!Next
  <1>. DEFINE b == Buf(q)
              b2 == Buf(q')
              a == Ans(call)
              a2 == Ans(call')
  <1>b. /\ b = [x \in Buffers |-> Contents(q[x], uxLength[x])]
        /\ b2 = [x \in Buffers |-> Contents(q[x], uxLength[x])]'
    BY DEF Buf, Held
  <1>a. /\ a = [t \in Tasks |-> IF call[t].queue \in Buffers THEN call[t].answer ELSE Nothing]
        /\ a2 = [t \in Tasks |-> IF call[t].queue \in Buffers THEN call[t].answer ELSE Nothing]'
    BY DEF Ans
  <1>o. /\ \A t, v : Answered(a2, a, t, v) => BB!Answer(t, v)
        /\ \A x, v : Inserted(b2, b, x, v) => BB!Insertion(x, v)
        /\ \A x : Takes(b2, b, x) => BB!Take(x)
    BY OpsAbstract, InsertionAbstract
  <1>. HIDE DEF a, b, a2, b2
  <1>1. ASSUME NEW t \in Tasks, ClientDoes(b2, a2, b, a, t) PROVE BB!ClientStep(t)
    <2>1. ASSUME NEW x \in Buffers, NEW v \in Items, Inserted(b2, b, x, v), Answered(a2, a, t, Done)
          PROVE  BB!ClientStep(t)
      BY <2>1, <1>o DEF BB!ClientStep
    <2>2. ASSUME NEW x \in Buffers, Takes(b2, b, x), Answered(a2, a, t, Head(b[x]))
          PROVE  BB!ClientStep(t)
      <3>1. BB!Take(x) /\ BB!Answer(t, Head([y \in Buffers |-> Contents(q[y], uxLength[y])][x]))
        <4>1. Head(b[x]) = Head([y \in Buffers |-> Contents(q[y], uxLength[y])][x])
          BY <1>b
        <4>2. a[t] = Nothing /\ a2 = [a EXCEPT ![t] = Head(b[x])]
          BY <2>2 DEF Answered
        <4>. QED BY <4>1, <4>2, <2>2, <1>o, <1>a DEF BB!Answer
      <3>. QED BY <3>1 DEF BB!ClientStep, BB!Answer
    <2>3. ASSUME NEW x \in Buffers, b[x] # <<>>, Answered(a2, a, t, Head(b[x])), b2 = b
          PROVE  BB!ClientStep(t)
      <3>1. /\ [y \in Buffers |-> Contents(q[y], uxLength[y])][x] # <<>>
            /\ BB!Answer(t, Head([y \in Buffers |-> Contents(q[y], uxLength[y])][x]))
            /\ UNCHANGED [y \in Buffers |-> Contents(q[y], uxLength[y])]
        <4>1. Head(b[x]) = Head([y \in Buffers |-> Contents(q[y], uxLength[y])][x])
          BY <1>b
        <4>2. a[t] = Nothing /\ a2 = [a EXCEPT ![t] = Head(b[x])]
          BY <2>3 DEF Answered
        <4>. QED BY <4>1, <4>2, <2>3, <1>a, <1>b DEF BB!Answer
      <3>. QED BY <3>1 DEF BB!ClientStep, BB!Answer
    <2>4. ASSUME Answered(a2, a, t, Failed), b2 = b
          PROVE  BB!ClientStep(t)
      BY <2>4, <1>o, <1>b DEF BB!ClientStep
    <2>5. ASSUME a2 = [a EXCEPT ![t] = Nothing], b2 = b
          PROVE  BB!ClientStep(t)
      BY <2>5, <1>a, <1>b DEF BB!ClientStep
    <2>. QED BY <1>1, <2>1, <2>2, <2>3, <2>4, <2>5 DEF ClientDoes
  <1>2. ASSUME NEW x \in Buffers, Takes(b2, b, x) \/ \E v \in Items : Inserted(b2, b, x, v), a2 = a
        PROVE  BB!InterruptStep(x)
    BY <1>2, <1>o, <1>a DEF BB!InterruptStep
  <1>3. \A t \in Tasks : a2[t] # a[t] /\ ClientDoes(b2, a2, b, a, t) => BB!Next
    BY <1>1, <1>a DEF BB!Next
  <1>4. \A x \in Buffers : b2[x] # b[x] /\ BB!InterruptStep(x) => BB!Next
    BY <1>b DEF BB!Next
  <1>5. NextOn(b2, a2, b, a) => BB!Next
    BY <1>2, <1>3, <1>4 DEF NextOn
  <1>. QED BY <1>5 DEF a, b, a2, b2

\* Nothing changes through the mapping: a stutter.
LEMMA SameAbstract ==
    Buf(q') = Buf(q) /\ Ans(call') = Ans(call) => UNCHANGED BB!vars
  BY DEF BB!vars, Buf, Ans, Held

\* Every such step is a step of the bounded buffers.
LEMMA BufferStep ==
    ASSUME Stores(q), Abstractly(Buf(q'), Ans(call'), Buf(q), Ans(call))
    PROVE  [BB!Next]_(BB!vars)
  <1>. DEFINE b == Buf(q)
              b2 == Buf(q')
              a == Ans(call)
              a2 == Ans(call')
  <1>2. \A x \in Buffers : b[x] \in Seq(Stored)
    <2>1. \A x \in Buffers : b[x] = Held(x, q[x]) /\ StoreOK(x, q[x])
      BY LengthFacts DEF Buf, Stores
    <2>. QED BY <2>1, HeldSeq
  <1>3. b = [x \in Buffers |-> b[x]] /\ a = [t \in Tasks |-> a[t]]
    BY DEF Buf, Ans
  <1>. HIDE DEF b, b2, a, a2
  <1>4. Abstractly(b2, a2, b, a)
    BY DEF b, b2, a, a2
  <1>5. (b2 = b /\ a2 = a) \/ NextOn(b2, a2, b, a)
    <2>1. CASE b2 = b /\ a2 = a
      BY <2>1
    <2>2. ASSUME NEW t \in Tasks, a[t] = Nothing, Ends(b2, a2, b, a, t)
          PROVE  (b2 = b /\ a2 = a) \/ NextOn(b2, a2, b, a)
      <3>. SUFFICES ASSUME ~ (b2 = b /\ a2 = a) PROVE NextOn(b2, a2, b, a)
        OBVIOUS
      <3>1. ASSUME NEW x \in Buffers, Puts(b2, b, x), a2 = [a EXCEPT ![t] = Done]
            PROVE  NextOn(b2, a2, b, a)
        <4>1. PICK v \in Items : Inserted(b2, b, x, v)
          BY <3>1 DEF Puts, Inserts, Inserted
        <4>2. a2[t] # a[t]
          BY <1>3, <2>2, <3>1 DEF Done, Nothing
        <4>. QED BY <2>2, <3>1, <4>1, <4>2 DEF NextOn, ClientDoes, Answered
      <3>2. ASSUME NEW x \in Buffers, Takes(b2, b, x), a2 = [a EXCEPT ![t] = Head(b[x])]
            PROVE  NextOn(b2, a2, b, a)
        <4>1. CASE Head(b[x]) = Nothing
          <5>1. a2 = a
            BY <1>3, <2>2, <3>2, <4>1
          <5>2. b2[x] = Tail(b[x]) /\ Len(Tail(b[x])) # Len(b[x])
            BY <1>2, <1>3, <3>2 DEF Takes
          <5>. QED BY <3>2, <5>1, <5>2 DEF NextOn
        <4>2. CASE Head(b[x]) # Nothing
          <5>1. a2[t] # a[t]
            BY <1>3, <2>2, <3>2, <4>2
          <5>. QED BY <2>2, <3>2, <5>1 DEF NextOn, ClientDoes, Answered
        <4>. QED BY <4>1, <4>2
      <3>3. ASSUME NEW x \in Buffers, b[x] # <<>>, b2 = b, a2 = [a EXCEPT ![t] = Head(b[x])]
            PROVE  NextOn(b2, a2, b, a)
        <4>1. a2[t] # a[t]
          <5>1. a2[t] = Head(b[x])
            BY <1>3, <3>3
          <5>2. a2[t] = a[t] => a2 = a
            BY <1>3, <3>3, <5>1
          <5>. QED BY <3>3, <5>2
        <4>. QED BY <2>2, <3>3, <4>1 DEF NextOn, ClientDoes, Answered
      <3>4. ASSUME b2 = b, a2 = [a EXCEPT ![t] = Failed]
            PROVE  NextOn(b2, a2, b, a)
        <4>1. a2[t] # a[t]
          BY <1>3, <2>2, <3>4 DEF Failed, Nothing
        <4>. QED BY <2>2, <3>4, <4>1 DEF NextOn, ClientDoes, Answered
      <3>. QED BY <2>2, <3>1, <3>2, <3>3, <3>4 DEF Ends
    <2>3. ASSUME NEW t \in Tasks, b2 = b, a2 = [a EXCEPT ![t] = Nothing]
          PROVE  (b2 = b /\ a2 = a) \/ NextOn(b2, a2, b, a)
      <3>1. a2[t] = a[t] => a2 = a
        BY <1>3, <2>3
      <3>. QED BY <2>3, <3>1 DEF NextOn, ClientDoes
    <2>4. ASSUME NEW x \in Buffers, Puts(b2, b, x) \/ Takes(b2, b, x), a2 = a
          PROVE  (b2 = b /\ a2 = a) \/ NextOn(b2, a2, b, a)
      <3>1. CASE Puts(b2, b, x)
        <4>1. PICK v \in Items : Inserted(b2, b, x, v)
          BY <3>1 DEF Puts, Inserts, Inserted
        <4>2. b2[x] = b[x] => b2 = b
          BY <1>3, <3>1 DEF Puts
        <4>. QED BY <2>4, <4>1, <4>2 DEF NextOn
      <3>2. CASE Takes(b2, b, x)
        <4>1. b2[x] = b[x] => b2 = b
          BY <1>3, <3>2 DEF Takes
        <4>. QED BY <2>4, <3>2, <4>1 DEF NextOn
      <3>. QED BY <2>4, <3>1, <3>2
    <2>. QED BY <1>4, <2>1, <2>2, <2>3, <2>4 DEF Abstractly
  <1>. QED BY <1>5, NextAbstract, SameAbstract DEF b, b2, a, a2

\* A wake-up takes the first task out of the list, ends its delay, and touches nobody else.
LEMMA WakeGentle ==
    ASSUME NEW s, KernelOK(s), NEW e \in Events
    PROVE  Gentle(Wake(s, e).s, s) /\ FirstWoken(Wake(s, e).s, s, e)
  <1>0. s \in Kernel
    BY DEF KernelOK
  <1>1. CASE s.xTasksWaiting[e] = <<>>
    <2>1. Wake(s, e).s = s
      BY <1>1 DEF Wake
    <2>. QED BY <1>0, <1>1, <2>1, GentleSame, EmptyWaits DEF FirstWoken
  <1>2. CASE s.xTasksWaiting[e] # <<>>
    <2>. DEFINE r == xTaskRemoveFromEventList(s, e)
                n == r.s
                t == Head(s.xTasksWaiting[e])
    <2>1. Wake(s, e).s = n
      BY <1>2 DEF Wake
    <2>2. /\ \A f \in Events : Wts(n, f) = Wts(s, f) \ {t}
          /\ n.uxPriority = s.uxPriority /\ SameClock(n, s) /\ t \in Wts(s, e)
      <3>1. Released(n, s, t, e)
        BY <1>0, <1>2, FirstReleased
      <3>. HIDE DEF n, t
      <3>. QED BY <3>1 DEF Released
    <2>3. /\ ListsOK(s) /\ TimesOK(s)
          /\ s.uxSchedulerSuspended = 0 => s.xPendedTicks = 0 /\ Pnd(s) = {}
          /\ s.uxSchedulerSuspended \in Nat
      BY DEF KernelOK, Kernel
    <2>4. ASSUME NEW l \in Delays0(s) PROVE \E h \in Delays0(n) : NoLonger(h, l)
      <3>. DEFINE h == [l EXCEPT ![t] = 0]
      <3>1. l \in [Threads -> Nat] /\ LeftOK(s, l, s.xPendedTicks)
        BY DEF Delays0
      <3>2. Pnd(s) # {} => s.uxSchedulerSuspended > 0
        BY <2>3
      <3>3. LeftOK(n, h, s.xPendedTicks)
        <4>. HIDE DEF n, r, t, h
        <4>. QED BY <1>0, <1>2, <2>3, <3>1, <3>2, SignalFacts DEF n, r, t, h
      <3>. HIDE DEF n, t
      <3>4. h \in [Threads -> Nat] /\ NoLonger(h, l)
        BY <3>1 DEF NoLonger
      <3>5. h \in Delays0(n)
        BY <2>2, <3>3, <3>4 DEF Delays0, SameClock
      <3>. QED BY <3>4, <3>5
    <2>. HIDE DEF n, t
    <2>5. Gentle(n, s)
      BY <2>2, <2>4 DEF Gentle, Fewer, Shortens
    <2>6. FirstWoken(n, s, e)
      BY <2>2 DEF FirstWoken
    <2>. QED BY <2>1, <2>5, <2>6
  <1>. QED BY <1>1, <1>2

Spare(n, s, e) == Wts(s, e) \ Wts(n, e)
\* as many as count have been woken, or all
Served(n, s, e, count) == Wts(n, e) = {} \/ Cardinality(Spare(n, s, e)) >= count

\* An event list holds finitely many tasks.
LEMMA FiniteWaits ==
    ASSUME NEW s \in Kernel, NEW e \in Events
    PROVE  IsFiniteSet(Wts(s, e)) /\ Wts(s, e) \subseteq Tasks
  <1>1. s.xTasksWaiting[e] \in Seq(Tasks)
    BY DEF Kernel, Distinct
  <1>2. Wts(s, e) \subseteq Tasks
    <2>. DEFINE w == s.xTasksWaiting[e]
    <2>1. w \in Seq(Tasks)
      BY <1>1
    <2>. HIDE DEF w
    <2>2. \A i \in DOMAIN w : w[i] \in Tasks
      BY <2>1
    <2>. QED BY <2>2 DEF Wts, ToSet, w
  <1>. QED BY <1>2, TasksAssumption, FS_Subset

\* One more has been woken.
LEMMA ServedOneMore ==
    ASSUME NEW s \in Kernel, NEW m \in Kernel, NEW n \in Kernel, NEW e \in Events,
           NEW i \in Nat, Served(m, s, e, i), FirstWoken(n, m, e), Fewer(m, s)
    PROVE  Served(n, s, e, i + 1)
  <1>1. CASE Wts(m, e) = {}
    <2>0. n = m
      <3>1. ~\E t \in Wts(m, e) : \A f \in Events : Wts(n, f) = Wts(m, f) \ {t}
        BY <1>1
      <3>2. Wts(m, e) = {} /\ n = m
        BY <3>1 DEF FirstWoken
      <3>. QED BY <3>2
    <2>1. Wts(n, e) = {}
      BY <1>1, <2>0
    <2>. QED BY <2>1 DEF Served
  <1>2. CASE Wts(m, e) # {}
    <2>1. PICK t \in Wts(m, e) : \A f \in Events : Wts(n, f) = Wts(m, f) \ {t}
      BY <1>2 DEF FirstWoken
    <2>2. Spare(n, s, e) = Spare(m, s, e) \cup {t} /\ t \notin Spare(m, s, e)
      BY <2>1 DEF Spare, Fewer
    <2>3. IsFiniteSet(Spare(m, s, e))
      BY FiniteWaits, FS_Subset DEF Spare
    <2>4. Cardinality(Spare(n, s, e)) = Cardinality(Spare(m, s, e)) + 1
          /\ Cardinality(Spare(m, s, e)) \in Nat
      BY <2>2, <2>3, FS_AddElement, FS_CardinalityType
    <2>. QED BY <1>2, <2>4 DEF Served
  <1>. QED BY <1>1, <1>2

\* prvUnlockQueue wakes as many as were counted, if so many wait.
LEMMA WakeForGentle ==
    ASSUME NEW s, KernelOK(s), NEW e \in Events, NEW count \in Int
    PROVE  Gentle(WakeFor(s, e, count), s) /\ Served(WakeFor(s, e, count), s, e, count)
  <1>. DEFINE seq == [i \in 1..count |-> e]
              n == WakeFor(s, e, count)
  <1>1. /\ seq \in Seq(Events) /\ Len(seq) >= count
        /\ \A i \in 1..Len(seq) : seq[i] = e
    <2>1. PICK c \in Nat : 1..count = 1..c /\ c >= count
      <3>1. CASE count < 0
        <4>1. 1..count = 1..0
          BY <3>1
        <4>. QED BY <3>1, <4>1
      <3>. QED BY <3>1
    <2>2. seq = [i \in 1..c |-> e]
      BY <2>1, Zenon
    <2>. HIDE DEF seq
    <2>. QED BY <2>1, <2>2
  <1>2. s \in Consistent
    BY DEF Consistent, KernelOK
  <1>3. \A u \in Consistent, d \in Events : AfterWake(u, d) \in Consistent
    BY WakeKeeps DEF AfterWake, Consistent, KernelOK
  <1>4. n = WakeFold!FoldLeft(AfterWake, s, seq)
    BY DEF WakeFor, FoldLeft, MapThenFoldSet, WakeFold!FoldLeft, WakeFold!MapThenFoldSet,
           Max, WakeFold!Max
  <1>. HIDE DEF seq, n
  <1>5. PICK g \in [0..Len(seq) -> Consistent] :
            /\ g[0] = s
            /\ \A i \in 1..Len(seq) : g[i] = AfterWake(g[i - 1], seq[i])
            /\ n = g[Len(seq)]
    BY <1>1, <1>2, <1>3, <1>4, Induct, WakeFold!FoldSteps
  <1>. DEFINE Q == {i \in Nat : i <= Len(seq) => Gentle(g[i], s) /\ Served(g[i], s, e, i)}
  <1>6. 0 \in Q
    <2>1. IsFiniteSet(Spare(s, s, e))
      BY <1>2, FiniteWaits, FS_Subset DEF Spare, Consistent
    <2>2. Cardinality(Spare(s, s, e)) \in Nat
      BY <2>1, FS_CardinalityType
    <2>3. Served(s, s, e, 0)
      BY <2>2 DEF Served
    <2>. QED BY <1>5, <2>3, GentleSame
  <1>7. ASSUME NEW i \in Nat, i \in Q PROVE i + 1 \in Q
    <2>. SUFFICES ASSUME i + 1 <= Len(seq)
                  PROVE  Gentle(g[i + 1], s) /\ Served(g[i + 1], s, e, i + 1)
      OBVIOUS
    <2>1. /\ i \in 0..Len(seq) /\ i + 1 \in 1..Len(seq) /\ i + 1 - 1 = i
          /\ Gentle(g[i], s) /\ Served(g[i], s, e, i) /\ i + 1 \in 0..Len(seq)
      BY <1>1, <1>7
    <2>2. g[i + 1] = AfterWake(g[i], e) /\ g[i] \in Consistent /\ g[i + 1] \in Consistent
      BY <1>1, <1>5, <2>1
    <2>3. Gentle(g[i + 1], g[i]) /\ FirstWoken(g[i + 1], g[i], e)
      BY <2>2, WakeGentle DEF AfterWake, Consistent
    <2>4. Gentle(g[i + 1], s)
      BY <2>1, <2>3, GentleTwice
    <2>5. Served(g[i + 1], s, e, i + 1)
      BY <1>2, <2>1, <2>2, <2>3, ServedOneMore DEF Consistent, Gentle
    <2>. QED BY <2>4, <2>5
  <1>8. Nat \subseteq Q
    <2>. HIDE DEF Q
    <2>. QED BY <1>6, <1>7, Induct
  <1>9. Len(seq) \in Nat
    BY <1>1
  <1>10. Gentle(n, s) /\ Served(n, s, e, Len(seq))
    BY <1>5, <1>8, <1>9
  <1>11. n \in Kernel
    BY <1>5, <1>9 DEF Consistent
  <1>12. Cardinality(Spare(n, s, e)) \in Nat
    BY <1>2, FiniteWaits, FS_Subset, FS_CardinalityType DEF Spare, Consistent
  <1>13. Served(n, s, e, count)
    BY <1>1, <1>9, <1>10, <1>12 DEF Served
  <1>. QED BY <1>10, <1>13 DEF n

\* A change of priority by inheritance wakes nobody and ends no delay.
LEMMA ChangeGentle ==
    ASSUME NEW s, KernelOK(s), NEW t \in Tasks, NEW p \in Priorities
    PROVE  Reprioritised(ChangePriority(s, t, p), s, t, p)
  <1>. DEFINE n == Relist(SetPriority(s, t, p), t, s.uxPriority[t])
  <1>1. ChangePriority(s, t, p) = n
    BY DEF ChangePriority, SetPriority
  <1>2. s \in Kernel /\ ListsOK(s)
    BY DEF KernelOK
  <1>3. Retained(n, s, t, p) /\ (\A l, lag : LeftOK(s, l, lag) => LeftOK(n, l, lag))
    <2>. HIDE DEF n
    <2>. QED BY <1>2, RelistOutcome DEF n
  <1>. HIDE DEF n
  <1>4. SameClock(n, s) /\ (\A e \in Events : Wts(n, e) = Wts(s, e))
        /\ \A u \in Threads : n.uxPriority[u] = IF u = t THEN p ELSE s.uxPriority[u]
    BY <1>3 DEF Retained, SameClock, SameEvents, Wts
  <1>5. Shortens(n, s)
    BY <1>3, <1>4 DEF Shortens, Delays0, NoLonger, SameClock
  <1>. QED BY <1>1, <1>4, <1>5 DEF Reprioritised

\* the running task goes to p, in the call d, with the argument b of vTaskDelay
Moves(p, d, b) ==
    /\ kpc' = [kpc EXCEPT ![cur] = p] /\ call' = [call EXCEPT ![cur] = d]
    /\ arg' = [arg EXCEPT ![cur] = b] /\ load' = load

\* what every step has to show
Kept == QueueInv' /\ Abstractly(Buf(q'), Ans(call'), Buf(q), Ans(call))

\* A step of the running task keeps the invariant.
LEMMA MoveKeeps ==
    ASSUME QueueInv, NEW p, NEW d, NEW b, StepOK(k, p, d, b, k', yieldReq'),
           Moves(p, d, b), Stores(q')
    PROVE  QueueInv'
  <1>1. CallsOK(k, kpc, call, arg, yieldReq) /\ load \in DOMAIN Workloads
    BY DEF QueueInv
  <1>2. CallsOK(k', [kpc EXCEPT ![k.pxCurrentTCB] = p], [call EXCEPT ![k.pxCurrentTCB] = d],
                    [arg EXCEPT ![k.pxCurrentTCB] = b], yieldReq')
    BY <1>1, StepTo
  <1>3. CallsOK(k', kpc', call', arg', yieldReq')
    BY <1>2 DEF Moves, cur
  <1>4. load' \in DOMAIN Workloads
    BY <1>1 DEF Moves
  <1>. QED BY <1>3, <1>4 DEF QueueInv

\* The answers after a call of the task t became d.
LEMMA AnswerOf ==
    ASSUME NEW cl, DOMAIN cl = Threads, NEW t \in Threads, NEW d
    PROVE  LET f == [cl EXCEPT ![t] = d]
               v == IF d.queue \in Buffers THEN d.answer ELSE Nothing
           IN  /\ t \in Tasks => Ans(f) = [Ans(cl) EXCEPT ![t] = v]
               /\ t \in Tasks /\ Ans(cl)[t] = v => Ans(f) = Ans(cl)
               /\ t \notin Tasks => Ans(f) = Ans(cl)
  <1>. DEFINE f == [cl EXCEPT ![t] = d]
              v == IF d.queue \in Buffers THEN d.answer ELSE Nothing
  <1>1. \A u \in Tasks : u \in Threads
    BY DEF Threads
  <1>2. \A u \in Tasks : f[u] = IF u = t THEN d ELSE cl[u]
    BY <1>1
  <1>. HIDE DEF f
  <1>3. \A u \in Tasks : (IF f[u].queue \in Buffers THEN f[u].answer ELSE Nothing)
                = IF u = t THEN v ELSE IF cl[u].queue \in Buffers THEN cl[u].answer ELSE Nothing
    BY <1>2
  <1>4. t \in Tasks => Ans(f) = [Ans(cl) EXCEPT ![t] = v]
    BY <1>3 DEF Ans
  <1>5. t \in Tasks /\ Ans(cl)[t] = v => Ans(f) = Ans(cl)
    BY <1>3 DEF Ans
  <1>6. t \notin Tasks => Ans(f) = Ans(cl)
    BY <1>3 DEF Ans
  <1>. QED BY <1>4, <1>5, <1>6 DEF f

\* A step inside a call, or between calls, changes nothing the caller sees.
LEMMA Silent ==
    ASSUME QueueInv, NEW p0, At(p0), p0 # "done",
           NEW p, NEW d, NEW b, StepOK(k, p, d, b, k', yieldReq'),
           Moves(p, d, b), Stores(q'), Buf(q') = Buf(q), d.answer = Nothing
    PROVE  Kept
  <1>1. QueueInv'
    BY MoveKeeps
  <1>2. Finds(k.pxCurrentTCB, p0)
    BY AtFinds
  <1>3. call[cur].answer = Nothing /\ cur \in Threads
    BY <1>2 DEF Finds, CalledAt, cur
  <1>4. DOMAIN call = Threads
    BY DEF QueueInv, CallsOK, InCalls
  <1>5. Ans(call') = Ans(call)
    <2>1. cur \in Tasks => Ans(call)[cur] = Nothing
      BY <1>3 DEF Ans
    <2>2. (IF d.queue \in Buffers THEN d.answer ELSE Nothing) = Nothing
      OBVIOUS
    <2>3. call' = [call EXCEPT ![cur] = d]
      BY DEF Moves
    <2>4. CASE cur \in Tasks
      <3>1. Ans(call)[cur] = IF d.queue \in Buffers THEN d.answer ELSE Nothing
        BY <2>1, <2>2, <2>4
      <3>2. Ans([call EXCEPT ![cur] = d]) = Ans(call)
        BY <1>3, <1>4, <2>4, <3>1, AnswerOf
      <3>. QED BY <2>3, <3>2
    <2>5. CASE cur \notin Tasks
      <3>1. Ans([call EXCEPT ![cur] = d]) = Ans(call)
        BY <1>3, <1>4, <2>5, AnswerOf
      <3>. QED BY <2>3, <3>1
    <2>. QED BY <2>4, <2>5
  <1>. QED BY <1>1, <1>5 DEF Kept, Abstractly

\* A step that ends the call c with the answer v.
LEMMA Ending ==
    ASSUME QueueInv, NEW p0, At(p0), p0 # "done", cur \in Tasks,
           NEW d, StepOK(k, "done", d, arg[cur], k', yieldReq'),
           Moves("done", d, arg[cur]), Stores(q'),
           d.queue \in Buffers =>
                Ends(Buf(q'), [Ans(call) EXCEPT ![cur] = d.answer], Buf(q), Ans(call), cur),
           d.queue \notin Buffers => Buf(q') = Buf(q)
    PROVE  Kept
  <1>1. QueueInv'
    BY MoveKeeps
  <1>2. Finds(k.pxCurrentTCB, p0)
    BY AtFinds
  <1>3. call[cur].answer = Nothing /\ cur \in Threads
    BY <1>2 DEF Finds, CalledAt, cur
  <1>4. DOMAIN call = Threads
    BY DEF QueueInv, CallsOK, InCalls
  <1>5. Ans(call)[cur] = Nothing
    BY <1>3 DEF Ans
  <1>6. call' = [call EXCEPT ![cur] = d]
    BY DEF Moves
  <1>7. CASE d.queue \in Buffers
    <2>1. Ans([call EXCEPT ![cur] = d])
            = [Ans(call) EXCEPT ![cur] = IF d.queue \in Buffers THEN d.answer ELSE Nothing]
      BY <1>3, <1>4, AnswerOf
    <2>2. (IF d.queue \in Buffers THEN d.answer ELSE Nothing) = d.answer
      BY <1>7
    <2>3. Ans(call') = [Ans(call) EXCEPT ![cur] = d.answer]
      BY <1>6, <2>1, <2>2
    <2>. QED BY <1>1, <1>5, <1>7, <2>3 DEF Kept, Abstractly
  <1>8. CASE d.queue \notin Buffers
    <2>0. (IF d.queue \in Buffers THEN d.answer ELSE Nothing) = Ans(call)[cur]
      BY <1>5, <1>8
    <2>1. Ans(call') = Ans(call)
      <3>1. Ans([call EXCEPT ![cur] = d]) = Ans(call)
        BY <1>3, <1>4, <2>0, AnswerOf
      <3>. QED BY <1>6, <3>1
    <2>. QED BY <1>1, <1>8, <2>1 DEF Kept, Abstractly
  <1>. QED BY <1>7, <1>8

\* An interrupt.
LEMMA Interrupt ==
    ASSUME QueueInv, AfterIsr(k', k, yieldReq, yieldReq'), UNCHANGED <<kpc, arg, load>>,
           SameCalls(call', call), Stores(q'),
           \/ Buf(q') = Buf(q)
           \/ \E x \in Buffers : Puts(Buf(q'), Buf(q), x) \/ Takes(Buf(q'), Buf(q), x)
    PROVE  Kept
  <1>1. CallsOK(k, kpc, call, arg, yieldReq) /\ load \in DOMAIN Workloads
    BY DEF QueueInv
  <1>2. CallsOK(k', kpc, call, arg, yieldReq')
    BY <1>1, IsrKeeps
  <1>3. CallsOK(k', kpc, call', arg, yieldReq')
    BY <1>2, SameCallsOK
  <1>4. QueueInv'
    BY <1>1, <1>3 DEF QueueInv
  <1>5. Ans(call') = Ans(call)
    BY DEF Ans, SameCalls, Threads
  <1>. QED BY <1>4, <1>5 DEF Kept, Abstractly

\* A call that ends is ready, whatever the kernel did in it.
LEMMA DoneOK ==
    ASSUME QueueInv, NEW p0 \in {"run", "try", "expired", "disinherit"}, At(p0), cur \in Tasks,
           NEW n, KernelOK(n), Keeps(n, k), NEW z \in BOOLEAN, NEW d \in CallRecord
    PROVE  StepOK(k, "done", d, arg[cur], n, z)
  <1>. DEFINE t == k.pxCurrentTCB
  <1>1. Finds(t, p0)
    BY AtFinds
  <1>2. t \in Threads /\ t # Idle /\ arg[t] \in Args /\ Processor(k, p0, call[t], FALSE)
        /\ k.uxSchedulerSuspended = 0
    BY <1>1, ThreadsAssumption DEF Finds, cur, Alone
  <1>3. IsReady(k, t)
    BY <1>2 DEF Processor, Leaving
  <1>4. IsReady(n, t) /\ n.pxCurrentTCB = t /\ n.uxSchedulerSuspended = 0
    BY <1>2, <1>3 DEF Keeps
  <1>5. CalledAt(t, "done", d, arg[t])
    BY <1>2 DEF CalledAt, InQueue, Patient
  <1>6. Processor(n, "done", d, z)
    BY <1>4 DEF Processor
  <1>. QED BY <1>2, <1>4, <1>5, <1>6 DEF StepOK, cur, QueueKpcs, Alone

\* What a call leaves of its locals when it ends.
Left(c, a) == [NoCall EXCEPT !.op = c.op, !.queue = c.queue, !.answer = a,
                             !.asked = c.asked, !.waited = c.waited]

\* The record of a call that has ended is typed.
LEMMA LeftType ==
    ASSUME NEW c \in CallRecord, NEW a \in Answers
    PROVE  Left(c, a) \in CallRecord /\ Left(c, a).queue = c.queue /\ Left(c, a).answer = a
  <1>1. /\ c.op \in Ops \cup {"none"} /\ c.queue \in Queues \cup {NoQueue}
        /\ c.asked \in 0..portMAX_DELAY /\ c.waited \in Nat /\ 0 \in 0..portMAX_DELAY
    BY BoundsAssumption DEF CallRecord, portMAX_DELAY
  <1>2. NoCall \in CallRecord
    BY <1>1 DEF NoCall, CallRecord, Answers
  <1>. HIDE DEF NoCall
  <1>. QED BY <1>1, <1>2 DEF Left, CallRecord

\* A call that goes on is a call of the application.
Ongoing(c) ==
    /\ c \in CallRecord /\ Legal(c) /\ c.answer = Nothing /\ cur \in Tasks
    /\ c.op = "give" => c.ticks = 0

\* queue.c leaves the arguments of vTaskDelay alone.
LEMMA ArgSame ==
    ASSUME QueueInv, UNCHANGED arg
    PROVE  arg' = [arg EXCEPT ![cur] = arg[cur]]
  BY DEF QueueInv, CallsOK, InCalls

\* The two event lists of a queue are event lists of the kernel.
LEMMA EventsOf ==
    ASSUME NEW x \in Queues
    PROVE  ToReceive(x) \in Events /\ ToSend(x) \in Events
  BY QueueAssumption

\* the first critical section of a call
Tries(p0, c) ==
    /\ QueueInv /\ p0 \in {"run", "try"} /\ At(p0) /\ Ongoing(c)
    /\ UNCHANGED <<arg, load>>

\* A first try and a retry both find the running task ready and the scheduler running.
LEMMA TriesFacts ==
    ASSUME NEW p0, NEW c, Tries(p0, c)
    PROVE  /\ KernelOK(k) /\ Stores(q) /\ k.uxSchedulerSuspended = 0 /\ cur \in Tasks
           /\ c.queue \in Queues /\ StoreOK(c.queue, q[c.queue])
           /\ c \in CallRecord /\ Legal(c)
           /\ ToReceive(c.queue) \in Events /\ ToSend(c.queue) \in Events
           /\ IsReady(k, k.pxCurrentTCB)
  <1>1. Finds(k.pxCurrentTCB, p0)
    BY AtFinds DEF Tries
  <1>2. KernelOK(k) /\ k.uxSchedulerSuspended = 0 /\ IsReady(k, k.pxCurrentTCB)
    BY <1>1 DEF Finds, Processor, Leaving, Alone, Tries
  <1>3. Stores(q) /\ c.queue \in Queues /\ cur \in Tasks /\ c \in CallRecord /\ Legal(c)
    BY DEF Tries, QueueInv, Ongoing, Legal
  <1>. QED BY <1>2, <1>3, EventsOf DEF Stores

\* It ends the call.
LEMMA TryEnds ==
    ASSUME NEW p0, NEW c, Tries(p0, c), NEW a \in Answers, Finish(c, a),
           KernelOK(k'), Keeps(k', k), yieldReq' \in BOOLEAN, Stores(q'),
           c.queue \in Buffers =>
                Ends(Buf(q'), [Ans(call) EXCEPT ![cur] = a], Buf(q), Ans(call), cur),
           c.queue \notin Buffers => Buf(q') = Buf(q)
    PROVE  Kept
  <1>. DEFINE d == Left(c, a)
  <1>1. c \in CallRecord /\ cur \in Tasks /\ QueueInv /\ At(p0) /\ p0 \in {"run", "try"}
    BY DEF Tries, Ongoing
  <1>2. d \in CallRecord /\ d.queue = c.queue /\ d.answer = a
    BY <1>1, LeftType
  <1>3. kpc' = [kpc EXCEPT ![cur] = "done"] /\ call' = [call EXCEPT ![cur] = d]
    BY DEF Finish, To, Left
  <1>4. Moves("done", d, arg[cur])
    BY <1>1, <1>3, ArgSame DEF Moves, Tries
  <1>. HIDE DEF d
  <1>5. StepOK(k, "done", d, arg[cur], k', yieldReq')
    BY <1>1, <1>2, DoneOK
  <1>6. p0 # "done"
    BY <1>1
  <1>. QED BY <1>1, <1>2, <1>4, <1>5, <1>6, Ending

\* The priorities tasks are created with are priorities.
LEMMA InitialPriorityType ==
    ASSUME QueueInv, NEW t \in Threads
    PROVE  InitialPriority[t] \in Priorities
  BY WorkloadAssumption DEF QueueInv, InitialPriority

\* Giving a mutex back may end the inheritance.
LEMMA DisinheritKeeps ==
    ASSUME QueueInv, KernelOK(k), cur \in Tasks
    PROVE  KernelOK(xTaskPriorityDisinherit(k, cur)) /\ Keeps(xTaskPriorityDisinherit(k, cur), k)
  <1>1. Keeps(k, k)
    BY DEF Keeps
  <1>2. InitialPriority[cur] \in Priorities
    BY InitialPriorityType DEF Threads
  <1>3. /\ KernelOK(ChangePriority(k, cur, InitialPriority[cur]))
        /\ Keeps(ChangePriority(k, cur, InitialPriority[cur]), k)
    BY <1>2, ChangeKeeps
  <1>. QED BY <1>1, <1>3 DEF xTaskPriorityDisinherit

\* A send that finds room: the item is stored and the call answered at once.
LEMMA SendKeeps ==
    ASSUME NEW p0, NEW c, Tries(p0, c), xQueueGenericSend(c)
    PROVE  Kept
  <1>. DEFINE x == c.queue
              e == ToReceive(x)
              s == IF x \in Mutexes THEN xTaskPriorityDisinherit(k, cur) ELSE k
              m == prvCopyDataToQueue(x, c)
  <1>1. /\ KernelOK(k) /\ Stores(q) /\ cur \in Tasks /\ x \in Queues /\ StoreOK(x, q[x])
        /\ Legal(c) /\ e \in Events /\ QueueInv
    BY TriesFacts DEF Tries
  <1>2. c.op \in Senders /\ ~ MustWait(c) /\ q' = [q EXCEPT ![x] = m]
        /\ k' = Wake(s, e).s /\ yieldReq' = GiveYields(s, x) /\ Finish(c, Done)
    BY DEF xQueueGenericSend
  <1>3. KernelOK(s) /\ Keeps(s, k)
    <2>1. Keeps(k, k)
      BY DEF Keeps
    <2>. QED BY <1>1, <2>1, DisinheritKeeps
  <1>4. StoreOK(x, m) /\ (x \in Buffers => Inserts(Held(x, m), Held(x, q[x]), uxLength[x]))
    BY <1>1, <1>2, CopyTo
  <1>. HIDE DEF s, m, e
  <1>5. KernelOK(k') /\ Keeps(k', s) /\ Wake(s, e).higher \in BOOLEAN
    BY <1>1, <1>2, <1>3, WakeKeeps
  <1>6. Keeps(k', k)
    BY <1>3, <1>5 DEF Keeps
  <1>7. yieldReq' \in BOOLEAN
    <2>1. yieldReq' = GiveYields(s, x)
      BY <1>2
    <2>2. \A u, w : GiveYields(u, w) \in BOOLEAN
      BY DEF GiveYields
    <2>3. GiveYields(s, x) \in BOOLEAN
      BY <2>2
    <2>. QED BY <2>1, <2>3
  <1>8. Stores(q') /\ (x \in Buffers => Buf(q') = [Buf(q) EXCEPT ![x] = Held(x, m)])
        /\ (x \notin Buffers => Buf(q') = Buf(q))
    <2>1. Stores(q) /\ x \in Queues /\ StoreOK(x, m) /\ q' = [q EXCEPT ![x] = m]
      BY <1>1, <1>2, <1>4
    <2>. HIDE DEF x
    <2>2. Became(q', q, x, m)
      BY <2>1, OneStore
    <2>. QED BY <2>2 DEF Became
  <1>9. x \in Buffers => Ends(Buf(q'), [Ans(call) EXCEPT ![cur] = Done], Buf(q), Ans(call), cur)
    <2>1. SUFFICES ASSUME x \in Buffers
                   PROVE  Ends(Buf(q'), [Ans(call) EXCEPT ![cur] = Done], Buf(q), Ans(call), cur)
      OBVIOUS
    <2>2. Buf(q)[x] = Held(x, q[x])
      BY <2>1 DEF Buf
    <2>3. Puts(Buf(q'), Buf(q), x)
      BY <1>4, <1>8, <2>1, <2>2 DEF Puts
    <2>. QED BY <2>1, <2>3 DEF Ends
  <1>10. Done \in Answers
    BY DEF Answers
  <1>. QED BY <1>2, <1>5, <1>6, <1>7, <1>8, <1>9, <1>10, TryEnds

\* What a queue hands out is an answer.
LEMMA StoreAnswers == Stored \subseteq Answers /\ Done \in Answers /\ Failed \in Answers
  BY DEF Stored, Answers

\* A receive that finds an item removes the oldest.
LEMMA ReceiveCallKeeps ==
    ASSUME NEW p0, NEW c, Tries(p0, c), xQueueReceive(c)
    PROVE  Kept
  <1>. DEFINE x == c.queue
              e == ToSend(x)
              m == CopyFrom(q[x], uxLength[x])
              a == FirstItem(q[x], uxLength[x])
  <1>1. /\ KernelOK(k) /\ Stores(q) /\ cur \in Tasks /\ x \in Queues /\ StoreOK(x, q[x])
        /\ Legal(c) /\ e \in Events
    BY TriesFacts
  <1>2. c.op = "receive" /\ ~ MustWait(c)
    BY DEF xQueueReceive
  <1>3. x \in Buffers /\ q[x].uxMessagesWaiting # 0
    BY <1>1, <1>2 DEF Legal, MustWait, IsEmpty, Receivers, Ops
  <1>4. q' = [q EXCEPT ![x] = m] /\ k' = Wake(k, e).s /\ yieldReq' = Wake(k, e).higher /\ Finish(c, a)
    BY <1>3 DEF xQueueReceive, prvCopyDataFromQueue, Received
  <1>5. /\ StoreOK(x, m) /\ Held(x, q[x]) # <<>> /\ a = Head(Held(x, q[x]))
        /\ Held(x, m) = Tail(Held(x, q[x])) /\ a \in Stored
    BY <1>1, <1>3, ReceiveStore
  <1>. HIDE DEF m, e, a
  <1>6. KernelOK(k') /\ Keeps(k', k) /\ yieldReq' \in BOOLEAN
    BY <1>1, <1>4, WakeKeeps
  <1>7. Became(q', q, x, m)
    <2>1. Stores(q) /\ x \in Queues /\ StoreOK(x, m) /\ q' = [q EXCEPT ![x] = m]
      BY <1>1, <1>4, <1>5
    <2>. HIDE DEF x
    <2>. QED BY <2>1, OneStore
  <1>8. Stores(q') /\ Buf(q') = [Buf(q) EXCEPT ![x] = Held(x, m)]
    BY <1>3, <1>7 DEF Became
  <1>9. Ends(Buf(q'), [Ans(call) EXCEPT ![cur] = a], Buf(q), Ans(call), cur)
    <2>1. Buf(q)[x] = Held(x, q[x])
      BY <1>3 DEF Buf
    <2>2. Takes(Buf(q'), Buf(q), x) /\ a = Head(Buf(q)[x])
      BY <1>5, <1>8, <2>1 DEF Takes
    <2>. QED BY <1>3, <2>2 DEF Ends
  <1>10. a \in Answers
    BY <1>5, StoreAnswers
  <1>. QED BY <1>3, <1>4, <1>6, <1>8, <1>9, <1>10, TryEnds

\* A peek that finds an item leaves it there.
LEMMA PeekKeeps ==
    ASSUME NEW p0, NEW c, Tries(p0, c), xQueuePeek(c)
    PROVE  Kept
  <1>. DEFINE x == c.queue
              e == ToReceive(x)
              a == FirstItem(q[x], uxLength[x])
  <1>1. /\ KernelOK(k) /\ Stores(q) /\ cur \in Tasks /\ x \in Queues /\ StoreOK(x, q[x])
        /\ Legal(c) /\ e \in Events
    BY TriesFacts
  <1>2. c.op = "peek" /\ ~ MustWait(c)
    BY DEF xQueuePeek
  <1>3. x \in Buffers /\ q[x].uxMessagesWaiting # 0
    BY <1>1, <1>2 DEF Legal, MustWait, IsEmpty, Receivers, Ops
  <1>4. q' = q /\ k' = Wake(k, e).s /\ yieldReq' = Wake(k, e).higher /\ Finish(c, a)
    BY <1>3 DEF xQueuePeek, PeekWakes, Received
  <1>5. Held(x, q[x]) # <<>> /\ a = Head(Held(x, q[x])) /\ a \in Stored
    BY <1>1, <1>3, ReceiveStore
  <1>. HIDE DEF e, a
  <1>6. KernelOK(k') /\ Keeps(k', k) /\ yieldReq' \in BOOLEAN
    BY <1>1, <1>4, WakeKeeps
  <1>7. Stores(q') /\ Buf(q') = Buf(q)
    BY <1>1, <1>4
  <1>8. Ends(Buf(q'), [Ans(call) EXCEPT ![cur] = a], Buf(q), Ans(call), cur)
    <2>1. Buf(q)[x] = Held(x, q[x])
      BY <1>3 DEF Buf
    <2>. QED BY <1>3, <1>5, <1>7, <2>1 DEF Ends
  <1>9. a \in Answers
    BY <1>5, StoreAnswers
  <1>. QED BY <1>3, <1>4, <1>6, <1>7, <1>8, <1>9, TryEnds

\* A take that finds the semaphore or mutex available.
LEMMA TakeKeeps ==
    ASSUME NEW p0, NEW c, Tries(p0, c), xQueueSemaphoreTake(c)
    PROVE  Kept
  <1>. DEFINE x == c.queue
              e == ToSend(x)
              m == [[q[x] EXCEPT !.uxMessagesWaiting = @ - 1]
                       EXCEPT !.xMutexHolder = IF x \in Mutexes THEN cur ELSE NoTask]
  <1>1. /\ KernelOK(k) /\ Stores(q) /\ cur \in Tasks /\ x \in Queues /\ StoreOK(x, q[x])
        /\ Legal(c) /\ e \in Events
    BY TriesFacts
  <1>2. c.op = "take" /\ ~ MustWait(c)
    BY DEF xQueueSemaphoreTake
  <1>3. x \in Queues \ Buffers /\ q[x].uxMessagesWaiting # 0
    BY <1>1, <1>2 DEF Legal, MustWait, IsEmpty, Receivers, Ops
  <1>4. q' = [q EXCEPT ![x] = m] /\ k' = Wake(k, e).s /\ yieldReq' = Wake(k, e).higher /\ Finish(c, Done)
    BY <1>3 DEF xQueueSemaphoreTake, prvCopyDataFromQueue
  <1>5. StoreOK(x, m)
    BY <1>1, <1>3, TakeStore
  <1>. HIDE DEF m, e
  <1>6. KernelOK(k') /\ Keeps(k', k) /\ yieldReq' \in BOOLEAN
    BY <1>1, <1>4, WakeKeeps
  <1>7. Became(q', q, x, m)
    <2>1. Stores(q) /\ x \in Queues /\ StoreOK(x, m) /\ q' = [q EXCEPT ![x] = m]
      BY <1>1, <1>4, <1>5
    <2>. HIDE DEF x
    <2>. QED BY <2>1, OneStore
  <1>8. Stores(q') /\ Buf(q') = Buf(q)
    BY <1>3, <1>7 DEF Became
  <1>. QED BY <1>3, <1>4, <1>6, <1>8, StoreAnswers, TryEnds

\* A call with no time to wait fails.
LEMMA RefuseKeeps ==
    ASSUME NEW p0, NEW c, Tries(p0, c), Refuse(c)
    PROVE  Kept
  <1>1. KernelOK(k) /\ Stores(q) /\ cur \in Tasks
    BY TriesFacts
  <1>2. k' = k /\ yieldReq' = yieldReq /\ q' = q /\ Finish(c, Failed)
    BY DEF Refuse
  <1>3. KernelOK(k') /\ Keeps(k', k) /\ yieldReq' \in BOOLEAN
    BY <1>1, <1>2 DEF Keeps, Tries, QueueInv, CallsOK, Processor
  <1>4. Stores(q') /\ Buf(q') = Buf(q)
    BY <1>1, <1>2
  <1>5. Ends(Buf(q'), [Ans(call) EXCEPT ![cur] = Failed], Buf(q), Ans(call), cur)
    BY <1>4 DEF Ends
  <1>. QED BY <1>2, <1>3, <1>4, <1>5, StoreAnswers, TryEnds

\* A call that must wait goes on to suspend the scheduler.
LEMMA GoToWaitKeeps ==
    ASSUME NEW p0, NEW c, Tries(p0, c), GoToWait(c)
    PROVE  Kept
  <1>1. /\ KernelOK(k) /\ Stores(q) /\ cur \in Tasks /\ c \in CallRecord /\ Legal(c)
        /\ k.uxSchedulerSuspended = 0 /\ IsReady(k, k.pxCurrentTCB)
    BY TriesFacts
  <1>2. k' = k /\ yieldReq' = yieldReq /\ q' = q /\ To("suspend", c) /\ c.ticks > 0
    BY DEF GoToWait
  <1>3. c.op # "give" /\ c.answer = Nothing /\ QueueInv /\ At(p0) /\ p0 # "done"
    BY <1>2 DEF Tries, Ongoing
  <1>4. Moves("suspend", c, arg[cur])
    BY <1>2, ArgSame DEF Moves, To, Tries
  <1>5. arg[cur] \in Args /\ yieldReq \in BOOLEAN
    BY <1>1, <1>3 DEF QueueInv, CallsOK, InCalls, Processor, Threads
  <1>6. CalledAt(cur, "suspend", c, arg[cur])
    BY <1>1, <1>2, <1>3, ThreadsAssumption DEF CalledAt
  <1>7. StepOK(k, "suspend", c, arg[cur], k', yieldReq')
    BY <1>1, <1>2, <1>5, <1>6 DEF StepOK, Processor, QueueKpcs, InQueue, Alone, cur
  <1>. QED BY <1>1, <1>2, <1>3, <1>4, <1>7, Silent

\* The first critical section of a call, and of its next try.
LEMMA TryKeeps ==
    ASSUME NEW p0, NEW c, Tries(p0, c), Try(c)
    PROVE  Kept
  BY SendKeeps, ReceiveCallKeeps, TakeKeeps, PeekKeeps, RefuseKeeps, GoToWaitKeeps DEF Try

\* A task that tries again does not give.
LEMMA RetryTries ==
    ASSUME QueueInv, Retry, UNCHANGED load
    PROVE  Tries("try", call[cur]) /\ Try(call[cur]) /\ call[cur].op # "give"
  <1>1. At("try") /\ Try(call[cur])
    BY DEF Retry
  <1>2. Finds(k.pxCurrentTCB, "try")
    BY <1>1, AtFinds
  <1>3. Ongoing(call[cur]) /\ call[cur].op # "give"
    BY <1>2 DEF Finds, CalledAt, Ongoing, InQueue, cur, Threads
  <1>. QED BY <1>1, <1>3 DEF Tries, Try

\* A task that found the queue full, or empty, tries again.
LEMMA RetryKeeps ==
    ASSUME QueueInv, Retry, UNCHANGED load
    PROVE  Kept
  BY RetryTries, TryKeeps

\* the call c of the request r, as its first critical section finds it
Begun(c, r) ==
    /\ c.op = r.op /\ c.queue = r.queue /\ c.item = r.item /\ c.ticks = r.ticks
    /\ c.asked = r.ticks /\ c.waited = 0 /\ ~ c.overflowed
    /\ c.entered = IF r.ticks = portMAX_DELAY THEN 0 ELSE k.xTickCount

\* A call that the workload allows is a try of the running task.
LEMMA StartTries ==
    ASSUME QueueInv, NEW r \in Requests, Start(r), UNCHANGED load
    PROVE  /\ Tries("run", NewCall(r)) /\ Try(NewCall(r)) /\ Begun(NewCall(r), r)
           /\ r.op \in Ops /\ r.queue \in Queues /\ r.ticks \in 0..portMAX_DELAY
  <1>1. At("run") /\ r.task = cur /\ Try(NewCall(r))
    BY DEF Start
  <1>2. /\ r \in Request /\ r.task # Idle
        /\ r.op = "overwrite" => uxLength[r.queue] = 1
        /\ r.op \in {"give", "take"} <=> r.queue \notin Buffers
        /\ r.op = "give" => r.ticks = 0
        /\ r.op \in {"send", "front", "overwrite"} => r.item \in Items
    BY RequestAssumption DEF QueueInv, Requests
  <1>3. KernelOK(k)
    BY DEF QueueInv, CallsOK
  <1>4. k.xTickCount \in Int
    BY <1>3 DEF KernelOK, Kernel
  <1>. DEFINE c == NewCall(r)
  <1>5. NoCall \in CallRecord
    BY BoundsAssumption DEF NoCall, CallRecord, Answers, portMAX_DELAY
  <1>6. c \in CallRecord /\ Begun(c, r) /\ c.answer = Nothing
    <2>1. NoCall.answer = Nothing /\ NoCall.waited = 0 /\ NoCall.overflowed = FALSE
      BY DEF NoCall
    <2>2. PICK n \in Int : n = IF r.ticks = portMAX_DELAY THEN 0 ELSE k.xTickCount
      BY <1>4
    <2>3. c = [NoCall EXCEPT !.op = r.op, !.queue = r.queue, !.item = r.item,
                             !.ticks = r.ticks, !.asked = r.ticks, !.entered = n]
      BY <2>2 DEF NewCall
    <2>4. r.op \in Ops /\ r.queue \in Queues /\ r.item \in Items \cup {NoItem} /\ r.ticks \in 0..portMAX_DELAY
      BY <1>2 DEF Request, Ops
    <2>. HIDE DEF NoCall, c
    <2>5. /\ c \in CallRecord /\ c.op = r.op /\ c.queue = r.queue /\ c.item = r.item
          /\ c.ticks = r.ticks /\ c.answer = Nothing /\ c.asked = r.ticks /\ c.waited = 0
          /\ c.overflowed = FALSE /\ c.entered = n
      BY <1>5, <2>1, <2>3, <2>4 DEF CallRecord
    <2>. QED BY <2>2, <2>5 DEF Begun
  <1>. HIDE DEF c
  <1>7. Legal(c)
    BY <1>2, <1>6 DEF Legal, Request, Ops, Begun
  <1>8. cur \in Tasks
    BY <1>1, <1>2 DEF Request, Threads
  <1>9. Tries("run", c)
    BY <1>1, <1>2, <1>6, <1>7, <1>8 DEF Tries, Ongoing, Try, Begun
  <1>. QED BY <1>1, <1>2, <1>6, <1>9 DEF c, Request, Ops

\* A task starts a call that the workload allows.
LEMMA StartKeeps ==
    ASSUME QueueInv, NEW r \in Requests, Start(r), UNCHANGED load
    PROVE  Kept
  BY StartTries, TryKeeps

\* The running task is at p in a call.
Within(p) ==
    LET c == call[cur] IN
    /\ QueueInv /\ At(p) /\ p \in InQueue
    /\ c \in CallRecord /\ Legal(c) /\ c.op # "give" /\ c.answer = Nothing
    /\ cur \in Tasks /\ arg[cur] \in Args /\ yieldReq = FALSE
    /\ KernelOK(k) /\ Stores(q) /\ StoreOK(c.queue, q[c.queue]) /\ c.queue \in Queues
    /\ ToReceive(c.queue) \in Events /\ ToSend(c.queue) \in Events
    /\ p \in Patient => c.ticks > 0
    /\ Processor(k, p, c, FALSE)
    /\ k.uxSchedulerSuspended = IF p \in Alone THEN 1 ELSE 0

\* A task inside queue.c is in a legal call that has no answer yet.
LEMMA WithinCall ==
    ASSUME QueueInv, NEW p \in InQueue, At(p)
    PROVE  Within(p)
  <1>. DEFINE c == call[cur]
  <1>1. Finds(cur, p)
    BY AtFinds DEF cur
  <1>2. /\ c \in CallRecord /\ arg[cur] \in Args /\ KernelOK(k) /\ yieldReq = FALSE
        /\ Processor(k, p, c, FALSE) /\ k.uxSchedulerSuspended = IF p \in Alone THEN 1 ELSE 0
        /\ cur \in Threads /\ CalledAt(cur, p, c, arg[cur])
    BY <1>1 DEF Finds
  <1>3. Legal(c) /\ c.op # "give" /\ c.answer = Nothing /\ cur \in Tasks
        /\ (p \in Patient => c.ticks > 0)
    BY <1>2 DEF CalledAt, InQueue, Threads
  <1>4. Stores(q) /\ c.queue \in Queues
    BY <1>3 DEF QueueInv, Legal
  <1>5. StoreOK(c.queue, q[c.queue])
    BY <1>4 DEF Stores
  <1>. HIDE DEF c
  <1>6. ToReceive(c.queue) \in Events /\ ToSend(c.queue) \in Events
    BY <1>4, EventsOf
  <1>. QED BY <1>2, <1>3, <1>4, <1>5, <1>6 DEF Within, c

\* d is the call c with other locals.
SameCall(d, c) ==
    /\ d \in CallRecord /\ d.op = c.op /\ d.queue = c.queue /\ d.item = c.item
    /\ d.answer = c.answer

\* The kernel n is good for a task that goes on at p in the call d.
GoodAt(n, p, d, z) ==
    /\ KernelOK(n) /\ n.pxCurrentTCB = k.pxCurrentTCB
    /\ n.uxSchedulerSuspended = IF p \in Alone THEN 1 ELSE 0
    /\ Processor(n, p, d, z)

\* A step from one place in a call to another.
LEMMA GoOn ==
    ASSUME NEW p0, Within(p0), NEW p \in InQueue, NEW d, SameCall(d, call[cur]),
           p \in Patient => d.ticks > 0,
           To(p, d), GoodAt(k', p, d, yieldReq'), UNCHANGED <<arg, load>>,
           Stores(q'), Buf(q') = Buf(q)
    PROVE  Kept
  <1>1. /\ QueueInv /\ At(p0) /\ p0 # "done" /\ cur \in Tasks /\ arg[cur] \in Args
        /\ Legal(call[cur]) /\ call[cur].op # "give" /\ call[cur].answer = Nothing
    BY DEF Within, InQueue
  <1>2. Moves(p, d, arg[cur])
    BY <1>1, ArgSame DEF Moves, To
  <1>3. Legal(d) /\ d.op # "give" /\ d.answer = Nothing
    BY <1>1 DEF SameCall, Legal
  <1>4. CalledAt(cur, p, d, arg[cur])
    BY <1>1, <1>3, ThreadsAssumption DEF CalledAt, InQueue
  <1>5. StepOK(k, p, d, arg[cur], k', yieldReq')
    BY <1>1, <1>4 DEF StepOK, GoodAt, SameCall, QueueKpcs, cur
  <1>. QED BY <1>1, <1>2, <1>3, <1>5, Silent

\* Nothing but the place changes, in the suspension or out of it.
LEMMA Onward ==
    ASSUME NEW p0, Within(p0), NEW p \in InQueue, p \in Alone <=> p0 \in Alone,
           NEW d, SameCall(d, call[cur]), p \in Patient => d.ticks > 0,
           IsReady(k, cur) \/ Processor(k, p, d, FALSE),
           To(p, d), UNCHANGED <<k, yieldReq, arg, load, q>>
    PROVE  Kept
  <1>1. /\ KernelOK(k) /\ yieldReq = FALSE /\ Stores(q)
        /\ k.uxSchedulerSuspended = IF p0 \in Alone THEN 1 ELSE 0
    BY DEF Within
  <1>2. Processor(k, p, d, FALSE)
    BY DEF Processor, cur
  <1>3. GoodAt(k', p, d, yieldReq')
    BY <1>1, <1>2 DEF GoodAt
  <1>. QED BY <1>1, <1>3, GoOn

\* A step that leaves the call alone stays in the same call.
LEMMA Unmoved == ASSUME NEW p, Within(p) PROVE SameCall(call[cur], call[cur])
  BY DEF Within, SameCall

\* vTaskSuspendAll, on the way to waiting.
LEMMA SuspendAllKeeps ==
    ASSUME QueueInv, SuspendAll, UNCHANGED load
    PROVE  Kept
  <1>1. Within("suspend")
    BY WithinCall DEF SuspendAll, InQueue
  <1>2. KernelOK(k) /\ k.uxSchedulerSuspended = 0 /\ Processor(k, "suspend", call[cur], FALSE)
        /\ Stores(q) /\ call[cur].ticks > 0 /\ yieldReq = FALSE
    BY <1>1 DEF Within, Alone, Patient
  <1>3. IsReady(k, k.pxCurrentTCB) /\ k.pxCurrentTCB \in Threads
    BY <1>1, <1>2 DEF Processor, Leaving, Within, Threads, cur
  <1>4. KernelOK(k') /\ k'.uxSchedulerSuspended = 1 /\ k'.pxCurrentTCB = k.pxCurrentTCB
        /\ IsReady(k', k'.pxCurrentTCB)
    BY <1>2, <1>3, SuspendKeeps DEF SuspendAll
  <1>5. GoodAt(k', "lock", call[cur], yieldReq')
    BY <1>2, <1>4 DEF GoodAt, Processor, SuspendAll, Alone
  <1>. QED BY <1>1, <1>2, <1>5, Unmoved, GoOn DEF SuspendAll, InQueue

\* The locks of a queue are no part of it.
LEMMA Relocked ==
    ASSUME Stores(q), NEW x \in Queues, NEW i \in Int, NEW j \in Int,
           q' = [q EXCEPT ![x] = [@ EXCEPT !.cRxLock = i, !.cTxLock = j]]
    PROVE  Stores(q') /\ Buf(q') = Buf(q)
  <1>. DEFINE n == [q[x] EXCEPT !.cRxLock = i, !.cTxLock = j]
  <1>1. StoreOK(x, q[x])
    BY DEF Stores
  <1>2. StoreOK(x, n) /\ Held(x, n) = Held(x, q[x])
    BY <1>1, LocksKeep DEF WithLocks
  <1>3. q' = [q EXCEPT ![x] = n]
    BY DEF Stores
  <1>. HIDE DEF n
  <1>4. Became(q', q, x, n)
    BY <1>2, <1>3, OneStore
  <1>. QED BY <1>2, <1>4 DEF Became

\* The locks of a queue are counts from queueUNLOCKED up.
LEMMA LockTypes ==
    ASSUME NEW x \in Queues, NEW s, StoreOK(x, s)
    PROVE  /\ s.cRxLock \in Int /\ s.cTxLock \in Int
           /\ \A i : [s EXCEPT !.cRxLock = i] = [s EXCEPT !.cRxLock = i, !.cTxLock = s.cTxLock]
           /\ \A i : [s EXCEPT !.cTxLock = i] = [s EXCEPT !.cRxLock = s.cRxLock, !.cTxLock = i]
  <1>1. s \in Record(uxLength[x], Items \cup {NoItem}, Int, Tasks \cup {NoTask})
    BY DEF StoreOK
  <1>. QED BY <1>1 DEF Record

\* prvLockQueue: the two locks leave queueUNLOCKED.
LEMMA LockKeeps ==
    ASSUME QueueInv, prvLockQueue, UNCHANGED load
    PROVE  Kept
  <1>. DEFINE x == call[cur].queue
              lock(l) == IF l = queueUNLOCKED THEN queueLOCKED_UNMODIFIED ELSE l
              i == lock(q[x].cRxLock)
              j == lock(q[x].cTxLock)
  <1>1. Within("lock")
    BY WithinCall DEF prvLockQueue, InQueue
  <1>2. /\ KernelOK(k) /\ k.uxSchedulerSuspended = 1 /\ Processor(k, "lock", call[cur], FALSE)
        /\ Stores(q) /\ call[cur].ticks > 0 /\ yieldReq = FALSE /\ x \in Queues
        /\ StoreOK(x, q[x])
    BY <1>1 DEF Within, Alone, Patient
  <1>3. i \in Int /\ j \in Int
    <2>1. q[x].cRxLock \in Int /\ q[x].cTxLock \in Int
      <3>. HIDE DEF x
      <3>. QED BY <1>2, LockTypes
    <2>. HIDE DEF x
    <2>. QED BY <2>1 DEF queueLOCKED_UNMODIFIED
  <1>4. q' = [q EXCEPT ![x] = [@ EXCEPT !.cRxLock = i, !.cTxLock = j]]
    <2>1. q' = [q EXCEPT ![x] = [q[x] EXCEPT !.cRxLock = lock(@), !.cTxLock = lock(@)]]
      BY DEF prvLockQueue
    <2>2. q' = [q EXCEPT ![x] = [q[x] EXCEPT !.cRxLock = i, !.cTxLock = j]]
      <3>1. [q[x] EXCEPT !.cRxLock = lock(@), !.cTxLock = lock(@)]
                = [q[x] EXCEPT !.cRxLock = i, !.cTxLock = j]
        <4>1. q[x] \in Record(uxLength[x], Items \cup {NoItem}, Int, Tasks \cup {NoTask})
          BY <1>2 DEF StoreOK
        <4>. HIDE DEF x
        <4>. QED BY <4>1 DEF Record
      <3>. QED BY <2>1, <3>1, Zenon
    <2>. HIDE DEF x, i, j
    <2>. QED BY <1>2, <2>2 DEF Stores
  <1>. HIDE DEF i, j
  <1>5. Stores(q') /\ Buf(q') = Buf(q)
    BY <1>2, <1>3, <1>4, Relocked
  <1>6. GoodAt(k', "check", call[cur], yieldReq')
    BY <1>2 DEF GoodAt, Processor, prvLockQueue, Alone, Leaving
  <1>. QED BY <1>1, <1>2, <1>5, <1>6, Unmoved, GoOn DEF prvLockQueue, InQueue

\* The local variables of a call may change.
LEMMA LocalsChange ==
    ASSUME NEW c \in CallRecord
    PROVE  /\ \A v \in {"none", "expired", "retry", "block"} :
                 SameCall([c EXCEPT !.after = v], c) /\ [c EXCEPT !.after = v].after = v
                 /\ [c EXCEPT !.after = v].ticks = c.ticks
           /\ \A v \in {"none", "expired", "retry", "block"}, n \in 0..portMAX_DELAY :
                 SameCall([c EXCEPT !.ticks = n, !.after = v], c)
           /\ \A v \in BOOLEAN : SameCall([c EXCEPT !.inherited = v], c)
                                 /\ [c EXCEPT !.inherited = v].ticks = c.ticks
  BY DEF CallRecord, SameCall

RestOf(c, n, i) == [c EXCEPT !.ticks = n, !.entered = i, !.overflowed = FALSE]

\* xTaskCheckForTimeOut rewrites the time left, not the call.
LEMMA RestSame ==
    ASSUME NEW c \in CallRecord, NEW n \in 0..portMAX_DELAY, NEW i \in Int
    PROVE  SameCall(RestOf(c, n, i), c) /\ RestOf(c, n, i).ticks = n
  BY DEF CallRecord, SameCall, RestOf

\* xTaskCheckForTimeOut, with the queue locked.
LEMMA CheckKeeps ==
    ASSUME QueueInv, xTaskCheckForTimeOut, UNCHANGED load
    PROVE  Kept
  <1>. DEFINE c == call[cur]
  <1>1. Within("check")
    BY WithinCall DEF xTaskCheckForTimeOut, InQueue
  <1>2. /\ c \in CallRecord /\ c.ticks > 0 /\ KernelOK(k) /\ IsReady(k, cur)
    BY <1>1 DEF Within, Patient, Processor, Leaving, cur
  <1>3. c.ticks \in 1..portMAX_DELAY /\ portMAX_DELAY \in Nat
    BY <1>2, BoundsAssumption DEF CallRecord, portMAX_DELAY
  <1>4. CASE c.ticks = portMAX_DELAY /\ To("recheck", c)
    BY <1>1, <1>2, <1>4, Unmoved, Onward DEF xTaskCheckForTimeOut, InQueue, Alone
  <1>5. CASE c.ticks # portMAX_DELAY /\ ~ TimedOut(c) /\ To("recheck", Remaining(c))
    <2>1. k.xTickCount \in Int /\ c.entered \in Int
      BY <1>2 DEF KernelOK, Kernel, CallRecord
    <2>2. Elapsed(c) \in Nat
      <3>1. PICK i \in Int : i = k.xTickCount - c.entered
        BY <2>1
      <3>2. i % Wrap \in 0..(Wrap - 1)
        BY <3>1, BoundsAssumption
      <3>. QED BY <3>1, <3>2, BoundsAssumption DEF Elapsed
    <2>3. ~ (Elapsed(c) >= c.ticks)
      BY <1>5 DEF TimedOut
    <2>4. PICK n \in Int : n = c.ticks - Elapsed(c)
      BY <1>3, <2>2
    <2>5. n \in 0..portMAX_DELAY /\ n > 0
      BY <1>3, <2>2, <2>3, <2>4
    <2>6. PICK d : d = Remaining(c)
      OBVIOUS
    <2>7. d = [c EXCEPT !.ticks = n, !.entered = k.xTickCount, !.overflowed = FALSE]
      BY <2>4, <2>6 DEF Remaining
    <2>8. SameCall(d, c) /\ d.ticks > 0
      <3>1. PICK i \in Int : i = k.xTickCount
        BY <2>1
      <3>2. c \in CallRecord /\ d = RestOf(c, n, i)
        BY <1>2, <2>7, <3>1 DEF RestOf
      <3>. HIDE DEF c
      <3>3. SameCall(d, c) /\ d.ticks = n
        BY <2>5, <3>1, <3>2, RestSame
      <3>. QED BY <2>5, <3>3
    <2>9. To("recheck", d)
      BY <1>5, <2>6
    <2>. QED BY <1>1, <1>2, <2>8, <2>9, Onward DEF xTaskCheckForTimeOut, InQueue, Alone
  <1>6. CASE To("unlockTx", [c EXCEPT !.ticks = 0, !.after = "expired"])
    <2>1. SameCall([c EXCEPT !.ticks = 0, !.after = "expired"], c)
      <3>1. 0 \in 0..portMAX_DELAY
        BY <1>3
      <3>. HIDE DEF c
      <3>. QED BY <1>2, <3>1, LocalsChange
    <2>. QED BY <1>1, <1>2, <1>6, <2>1, Onward DEF xTaskCheckForTimeOut, InQueue, Alone, Patient
  <1>. QED BY <1>4, <1>5, <1>6 DEF xTaskCheckForTimeOut

\* The second look at the queue, with the queue locked.
LEMMA RecheckKeeps ==
    ASSUME QueueInv, Recheck, UNCHANGED load
    PROVE  Kept
  <1>. DEFINE c == call[cur]
  <1>1. Within("recheck")
    BY WithinCall DEF Recheck, InQueue
  <1>2. c \in CallRecord /\ c.ticks > 0 /\ IsReady(k, cur)
    BY <1>1 DEF Within, Patient, Processor, Leaving, cur
  <1>3. ASSUME NEW p \in {"inherit", "place"}, To(p, c) PROVE Kept
    BY <1>1, <1>2, <1>3, Unmoved, Onward DEF Recheck, InQueue, Alone
  <1>4. CASE To("unlockTx", [c EXCEPT !.after = "retry"])
    <2>1. SameCall([c EXCEPT !.after = "retry"], c)
      <3>. HIDE DEF c
      <3>. QED BY <1>2, LocalsChange
    <2>. QED BY <1>1, <1>2, <1>4, <2>1, Onward DEF Recheck, InQueue, Alone, Patient
  <1>. QED BY <1>3, <1>4 DEF Recheck

\* A priority given or inherited is a priority.
LEMMA PriorityTypes ==
    ASSUME KernelOK(k)
    PROVE  k.pxCurrentTCB \in Threads /\ \A t \in Threads : k.uxPriority[t] \in Priorities
  BY DEF KernelOK, Kernel

\* xTaskPriorityInherit: the holder is raised, and its list follows.
LEMMA InheritKeeps ==
    ASSUME QueueInv, Inherit, UNCHANGED load
    PROVE  Kept
  <1>. DEFINE c == call[cur]
              h == q[c.queue].xMutexHolder
  <1>1. Within("inherit")
    BY WithinCall DEF Inherit, InQueue
  <1>2. /\ c \in CallRecord /\ c.ticks > 0 /\ IsReady(k, cur) /\ KernelOK(k) /\ Stores(q)
        /\ k.uxSchedulerSuspended = 1 /\ StoreOK(c.queue, q[c.queue]) /\ yieldReq = FALSE
        /\ cur \in Threads
    BY <1>1 DEF Within, Patient, Processor, Leaving, cur, Alone, Threads
  <1>3. h \in Tasks \cup {NoTask}
    BY <1>2 DEF StoreOK, Record
  <1>. HIDE DEF h
  <1>4. k' = xTaskPriorityInherit(k, h)
        /\ To("place", [c EXCEPT !.inherited = InheritanceOccurred(h)])
    BY DEF Inherit, h
  <1>5. KernelOK(k') /\ Keeps(k', k)
    <2>1. Keeps(k, k)
      BY DEF Keeps
    <2>2. CASE k' = k
      BY <1>2, <2>1, <2>2
    <2>3. CASE h # NoTask /\ k' = ChangePriority(k, h, k.uxPriority[k.pxCurrentTCB])
      <3>1. k.uxPriority[k.pxCurrentTCB] \in Priorities
        BY <1>2, PriorityTypes
      <3>. QED BY <1>2, <1>3, <2>3, <3>1, ChangeKeeps
    <2>. QED BY <1>4, <2>2, <2>3 DEF xTaskPriorityInherit
  <1>6. PICK v \in BOOLEAN : v = InheritanceOccurred(h)
    BY DEF InheritanceOccurred
  <1>7. SameCall([c EXCEPT !.inherited = v], c) /\ [c EXCEPT !.inherited = v].ticks > 0
    <2>. HIDE DEF c
    <2>. QED BY <1>2, LocalsChange
  <1>8. PICK d : d = [c EXCEPT !.inherited = v]
    OBVIOUS
  <1>9. To("place", d)
    BY <1>4, <1>6, <1>8
  <1>10. GoodAt(k', "place", d, yieldReq')
    BY <1>2, <1>5 DEF GoodAt, Keeps, Processor, Alone, cur, Inherit
  <1>11. Stores(q') /\ Buf(q') = Buf(q)
    BY <1>2 DEF Inherit
  <1>. QED BY <1>1, <1>7, <1>8, <1>9, <1>10, <1>11, GoOn DEF Inherit, InQueue

\* vTaskPlaceOnEventList: the caller leaves the ready lists.
LEMMA PlaceCallKeeps ==
    ASSUME QueueInv, Place, UNCHANGED load
    PROVE  Kept
  <1>. DEFINE c == call[cur]
              e == IF c.op \in Receivers THEN ToReceive(c.queue) ELSE ToSend(c.queue)
  <1>1. Within("place")
    BY WithinCall DEF Place, InQueue
  <1>2. /\ c \in CallRecord /\ c.ticks > 0 /\ IsReady(k, k.pxCurrentTCB) /\ KernelOK(k) /\ Stores(q)
        /\ k.uxSchedulerSuspended = 1 /\ yieldReq = FALSE /\ k.pxCurrentTCB \in Tasks /\ e \in Events
    BY <1>1 DEF Within, Patient, Processor, Leaving, cur, Alone
  <1>3. c.ticks \in 1..portMAX_DELAY
    BY <1>2, BoundsAssumption DEF CallRecord, portMAX_DELAY
  <1>4. k' = vTaskPlaceOnEventList(k, e, c.ticks) /\ To("unlockTx", [c EXCEPT !.after = "block"])
    BY DEF Place
  <1>. HIDE DEF e
  <1>5. GoesOn(k', k)
    BY <1>2, <1>3, <1>4, PlaceKeeps
  <1>6. PICK d : d = [c EXCEPT !.after = "block"]
    OBVIOUS
  <1>7. SameCall(d, c) /\ d.after = "block"
    <2>. HIDE DEF c
    <2>. QED BY <1>2, <1>6, LocalsChange
  <1>8. GoodAt(k', "unlockTx", d, yieldReq')
    BY <1>2, <1>5, <1>7 DEF GoodAt, GoesOn, Processor, Leaving, Alone, Place
  <1>9. Stores(q') /\ Buf(q') = Buf(q)
    BY <1>2 DEF Place
  <1>. QED BY <1>1, <1>4, <1>6, <1>7, <1>8, <1>9, GoOn DEF Place, InQueue, Patient

\* prvUnlockQueue, one side and then the other
Unlocks(p0, p, e, n, i, j) ==
    /\ p0 \in {"unlockTx", "unlockRx"} /\ Within(p0)
    /\ p \in {"unlockRx", "resumeCall"} /\ To(p, call[cur])
    /\ e \in Events /\ n \in Int /\ k' = WakeFor(k, e, n)
    /\ i \in Int /\ j \in Int
    /\ q' = [q EXCEPT ![call[cur].queue] = [@ EXCEPT !.cRxLock = i, !.cTxLock = j]]
    /\ UNCHANGED <<yieldReq, arg, load>>

\* prvUnlockQueue, one lock at a time.
LEMMA UnlockKeeps ==
    ASSUME NEW p0, NEW p, NEW e, NEW n, NEW i, NEW j, Unlocks(p0, p, e, n, i, j)
    PROVE  Kept
  <1>1. /\ KernelOK(k) /\ Stores(q) /\ k.uxSchedulerSuspended = 1 /\ yieldReq = FALSE
        /\ call[cur].queue \in Queues /\ cur \in Threads
        /\ Processor(k, p0, call[cur], FALSE)
    BY DEF Within, Alone, Threads, Unlocks
  <1>2. KernelOK(k') /\ Keeps(k', k)
    BY <1>1, WakeForKeeps DEF Unlocks
  <1>3. IsReady(k, k.pxCurrentTCB) \/ call[cur].after = "block"
    BY <1>1 DEF Processor, Unlocks
  <1>4. k'.pxCurrentTCB = k.pxCurrentTCB /\ k'.uxSchedulerSuspended = 1
        /\ (IsReady(k', k'.pxCurrentTCB) \/ call[cur].after = "block")
    BY <1>1, <1>2, <1>3 DEF Keeps, cur
  <1>5. GoodAt(k', p, call[cur], yieldReq')
    BY <1>1, <1>2, <1>4 DEF GoodAt, Processor, Leaving, Alone, Unlocks
  <1>6. Stores(q') /\ Buf(q') = Buf(q)
    BY <1>1, Relocked DEF Unlocks
  <1>. QED BY <1>5, <1>6, Unmoved, GoOn DEF InQueue, Patient, Unlocks

\* The receivers woken for what interrupts sent.
LEMMA UnlockTxKeeps ==
    ASSUME QueueInv, UnlockTx, UNCHANGED load
    PROVE  Kept
  <1>. DEFINE x == call[cur].queue
              s == q[x]
  <1>1. Within("unlockTx")
    BY WithinCall DEF UnlockTx, InQueue
  <1>2. x \in Queues /\ StoreOK(x, s) /\ Stores(q) /\ ToReceive(x) \in Events
    BY <1>1 DEF Within
  <1>3. s.cRxLock \in Int /\ s.cTxLock \in Int /\ queueUNLOCKED \in Int
        /\ [s EXCEPT !.cTxLock = queueUNLOCKED]
                = [s EXCEPT !.cRxLock = s.cRxLock, !.cTxLock = queueUNLOCKED]
    <2>1. queueUNLOCKED \in Int
      BY DEF queueUNLOCKED
    <2>. HIDE DEF x, s
    <2>. QED BY <1>2, <2>1, LockTypes
  <1>4. q' = [q EXCEPT ![x] = [s EXCEPT !.cTxLock = queueUNLOCKED]]
    BY DEF UnlockTx
  <1>5. q' = [q EXCEPT ![x] = [@ EXCEPT !.cRxLock = s.cRxLock, !.cTxLock = queueUNLOCKED]]
    BY <1>3, <1>4
  <1>6. k' = WakeFor(k, ToReceive(x), s.cTxLock) /\ To("unlockRx", call[cur])
    BY DEF UnlockTx
  <1>. HIDE DEF s
  <1>7. Unlocks("unlockTx", "unlockRx", ToReceive(x), s.cTxLock, s.cRxLock, queueUNLOCKED)
    BY <1>1, <1>2, <1>3, <1>5, <1>6 DEF Unlocks, UnlockTx
  <1>. QED BY <1>7, UnlockKeeps

\* The senders woken for what interrupts took.
LEMMA UnlockRxKeeps ==
    ASSUME QueueInv, UnlockRx, UNCHANGED load
    PROVE  Kept
  <1>. DEFINE x == call[cur].queue
              s == q[x]
  <1>1. Within("unlockRx")
    BY WithinCall DEF UnlockRx, InQueue
  <1>2. x \in Queues /\ StoreOK(x, s) /\ Stores(q) /\ ToSend(x) \in Events
    BY <1>1 DEF Within
  <1>3. s.cRxLock \in Int /\ s.cTxLock \in Int /\ queueUNLOCKED \in Int
        /\ [s EXCEPT !.cRxLock = queueUNLOCKED]
                = [s EXCEPT !.cRxLock = queueUNLOCKED, !.cTxLock = s.cTxLock]
    <2>1. queueUNLOCKED \in Int
      BY DEF queueUNLOCKED
    <2>. HIDE DEF x, s
    <2>. QED BY <1>2, <2>1, LockTypes
  <1>4. q' = [q EXCEPT ![x] = [s EXCEPT !.cRxLock = queueUNLOCKED]]
    BY DEF UnlockRx
  <1>5. q' = [q EXCEPT ![x] = [@ EXCEPT !.cRxLock = queueUNLOCKED, !.cTxLock = s.cTxLock]]
    BY <1>3, <1>4
  <1>6. k' = WakeFor(k, ToSend(x), s.cRxLock) /\ To("resumeCall", call[cur])
    BY DEF UnlockRx
  <1>. HIDE DEF s
  <1>7. Unlocks("unlockRx", "resumeCall", ToSend(x), s.cRxLock, queueUNLOCKED, s.cTxLock)
    BY <1>1, <1>2, <1>3, <1>5, <1>6 DEF Unlocks, UnlockRx
  <1>. QED BY <1>7, UnlockKeeps

\* What tells whether the count has overflowed is no part of the invariant.
LEMMA OverflowSame ==
    ASSUME NEW cl \in [Threads -> CallRecord]
    PROVE  SameCalls(Overflow(cl), cl)
  <1>. DEFINE o == k'.xTickCount < k.xTickCount
  <1>1. PICK v \in BOOLEAN : v = o
    <2>1. CASE o
      <3>1. TRUE \in BOOLEAN /\ TRUE = o
        BY <2>1
      <3>. HIDE DEF o
      <3>. QED BY <3>1, Zenon
    <2>2. CASE ~ o
      <3>1. FALSE \in BOOLEAN /\ FALSE = o
        BY <2>2
      <3>. HIDE DEF o
      <3>. QED BY <3>1, Zenon
    <2>. QED BY <2>1, <2>2
  <1>2. ASSUME NEW c \in CallRecord
        PROVE  LET d == [c EXCEPT !.overflowed = @ \/ v]
               IN  /\ d \in CallRecord /\ d.op = c.op /\ d.queue = c.queue /\ d.item = c.item
                   /\ d.ticks = c.ticks /\ d.after = c.after /\ d.answer = c.answer
    <2>1. PICK w \in BOOLEAN : w = (c.overflowed \/ v)
      OBVIOUS
    <2>2. [c EXCEPT !.overflowed = @ \/ v] = [c EXCEPT !.overflowed = w]
      BY <2>1
    <2>. DEFINE d == [c EXCEPT !.overflowed = w]
    <2>3. /\ d \in CallRecord /\ d.op = c.op /\ d.queue = c.queue /\ d.item = c.item
          /\ d.ticks = c.ticks /\ d.after = c.after /\ d.answer = c.answer
      BY DEF CallRecord
    <2>. HIDE DEF d
    <2>4. [c EXCEPT !.overflowed = @ \/ v] = d
      BY <2>2 DEF d
    <2>. QED BY <2>3, <2>4
  <1>. DEFINE g(c) == [c EXCEPT !.overflowed = @ \/ v]
  <1>3. \A c \in CallRecord : /\ g(c) \in CallRecord /\ g(c).op = c.op /\ g(c).queue = c.queue
           /\ g(c).item = c.item /\ g(c).ticks = c.ticks /\ g(c).after = c.after
           /\ g(c).answer = c.answer
    BY <1>2
  <1>4. Overflow(cl) = [t \in Threads |-> IF HasTimeout(t) THEN g(cl[t]) ELSE cl[t]]
    BY <1>1 DEF Overflow
  <1>. HIDE DEF g
  <1>5. PICK h : h = [t \in Threads |-> HasTimeout(t)]
    OBVIOUS
  <1>6. Overflow(cl) = [t \in Threads |-> IF h[t] THEN g(cl[t]) ELSE cl[t]]
    BY <1>4, <1>5
  <1>. QED BY <1>3, <1>6 DEF SameCalls

\* A step inside a call while time passes.
LEMMA SilentInTime ==
    ASSUME QueueInv, NEW p0, At(p0), p0 # "done",
           NEW p, NEW d, NEW b, StepOK(k, p, d, b, k', yieldReq'),
           kpc' = [kpc EXCEPT ![cur] = p], SameCalls(call', [call EXCEPT ![cur] = d]),
           arg' = [arg EXCEPT ![cur] = b], load' = load, q' = q, d.answer = Nothing
    PROVE  Kept
  <1>. DEFINE f == [call EXCEPT ![cur] = d]
  <1>1. CallsOK(k, kpc, call, arg, yieldReq) /\ load \in DOMAIN Workloads /\ Stores(q)
    BY DEF QueueInv
  <1>2. CallsOK(k', [kpc EXCEPT ![k.pxCurrentTCB] = p], [call EXCEPT ![k.pxCurrentTCB] = d],
                    [arg EXCEPT ![k.pxCurrentTCB] = b], yieldReq')
    BY <1>1, StepTo
  <1>3. CallsOK(k', kpc', f, arg', yieldReq')
    BY <1>2 DEF cur
  <1>4. DOMAIN call = Threads
    BY <1>1 DEF CallsOK, InCalls
  <1>5. call[cur].answer = Nothing /\ cur \in Threads
    BY AtFinds DEF Finds, CalledAt, cur
  <1>6. Ans(f) = Ans(call)
    <2>1. cur \in Tasks => Ans(call)[cur] = Nothing
      BY <1>5 DEF Ans
    <2>2. (IF d.queue \in Buffers THEN d.answer ELSE Nothing) = Nothing
      OBVIOUS
    <2>3. CASE cur \in Tasks
      <3>1. Ans(call)[cur] = IF d.queue \in Buffers THEN d.answer ELSE Nothing
        BY <2>1, <2>2, <2>3
      <3>. QED BY <1>4, <1>5, <2>3, <3>1, AnswerOf
    <2>4. CASE cur \notin Tasks
      BY <1>4, <1>5, <2>4, AnswerOf
    <2>. QED BY <2>3, <2>4
  <1>. HIDE DEF f
  <1>7. SameCalls(call', f)
    BY DEF f
  <1>8. CallsOK(k', kpc', call', arg', yieldReq')
    BY <1>3, <1>7, SameCallsOK
  <1>9. Ans(call') = Ans(f)
    BY <1>7 DEF Ans, SameCalls, Threads
  <1>10. QueueInv'
    BY <1>1, <1>8 DEF QueueInv
  <1>. QED BY <1>6, <1>9, <1>10 DEF Kept, Abstractly

\* xTaskResumeAll inside a call.
LEMMA ResumeCallKeeps ==
    ASSUME QueueInv, ResumeCall, UNCHANGED load
    PROVE  Kept
  <1>. DEFINE c == call[cur]
              d == [c EXCEPT !.after = "none"]
  <1>1. Within("resumeCall")
    BY WithinCall DEF ResumeCall, InQueue
  <1>2. /\ c \in CallRecord /\ KernelOK(k) /\ k.uxSchedulerSuspended = 1 /\ QueueInv
        /\ cur \in Tasks /\ arg[cur] \in Args /\ Legal(c) /\ c.op # "give" /\ c.answer = Nothing
        /\ Processor(k, "resumeCall", c, FALSE) /\ At("resumeCall")
    BY <1>1 DEF Within, Alone
  <1>3. PICK r : /\ r = xTaskResumeAll(k) /\ k' = r.s /\ yieldReq' = r.yielded
                 /\ \E p \in {"try", "yieldCall", "expired"} :
                       /\ kpc' = [kpc EXCEPT ![cur] = p]
                       /\ call' = Overflow([call EXCEPT ![cur] = d])
                       /\ p = "yieldCall" => ~ r.yielded
                       /\ c.after = "block" => p = IF r.yielded THEN "try" ELSE "yieldCall"
    BY DEF ResumeCall
  <1>4. PICK p \in {"try", "yieldCall", "expired"} :
                       /\ kpc' = [kpc EXCEPT ![cur] = p]
                       /\ call' = Overflow([call EXCEPT ![cur] = d])
                       /\ c.after = "block" => p = IF r.yielded THEN "try" ELSE "yieldCall"
    BY <1>3
  <1>5. ResumedAll(r, k)
    BY <1>2, <1>3, ResumeKeeps
  <1>6. SameCall(d, c)
    <2>. HIDE DEF c
    <2>. QED BY <1>2, LocalsChange
  <1>7. Legal(d) /\ d.op # "give" /\ d.answer = Nothing /\ d \in CallRecord
    BY <1>2, <1>6 DEF SameCall, Legal
  <1>8. IsReady(k, k.pxCurrentTCB) \/ c.after = "block"
    BY <1>2 DEF Processor
  <1>. DEFINE y == r.yielded
  <1>9. Processor(r.s, p, d, y)
    <2>1. y \in BOOLEAN /\ r.s.uxSchedulerSuspended = 0 /\ r.s.pxCurrentTCB = k.pxCurrentTCB
          /\ (IsReady(k, k.pxCurrentTCB) => IsReady(r.s, k.pxCurrentTCB))
      BY <1>2, <1>5 DEF ResumedAll, cur, Threads
    <2>2. c.after = "block" => p = IF y THEN "try" ELSE "yieldCall"
      BY <1>4
    <2>. HIDE DEF y, c
    <2>. QED BY <1>8, <2>1, <2>2 DEF Processor
  <1>10. CalledAt(cur, p, d, arg[cur])
    BY <1>2, <1>7, ThreadsAssumption DEF CalledAt, Patient
  <1>11. StepOK(k, p, d, arg[cur], k', yieldReq')
    BY <1>2, <1>3, <1>5, <1>7, <1>9, <1>10 DEF StepOK, ResumedAll, QueueKpcs, InQueue, Alone, cur
  <1>12. SameCalls(call', [call EXCEPT ![cur] = d])
    <2>1. [call EXCEPT ![cur] = d] \in [Threads -> CallRecord]
      BY <1>2, <1>7 DEF QueueInv, CallsOK, InCalls
    <2>. HIDE DEF d
    <2>2. SameCalls(Overflow([call EXCEPT ![cur] = d]), [call EXCEPT ![cur] = d])
      BY <2>1, OverflowSame
    <2>. QED BY <1>4, <2>2
  <1>13. q' = q /\ arg' = [arg EXCEPT ![cur] = arg[cur]]
    BY <1>2, ArgSame DEF ResumeCall
  <1>. HIDE DEF d
  <1>. QED BY <1>2, <1>4, <1>7, <1>11, <1>12, <1>13, SilentInTime

\* The processor goes to another task inside a call.
LEMMA YieldCallKeeps ==
    ASSUME QueueInv, YieldCall, UNCHANGED load
    PROVE  Kept
  <1>1. Within("yieldCall")
    BY WithinCall DEF YieldCall, InQueue
  <1>2. KernelOK(k) /\ k.uxSchedulerSuspended = 0 /\ Stores(q)
    BY <1>1 DEF Within, Alone
  <1>3. GoodAt(k', "try", call[cur], yieldReq')
    BY <1>2 DEF GoodAt, Processor, YieldCall, Alone
  <1>. QED BY <1>1, <1>2, <1>3, Unmoved, GoOn DEF YieldCall, InQueue, Patient

\* A call that gives up.
LEMMA GiveUpKeeps ==
    ASSUME NEW p0 \in {"expired", "disinherit"}, Within(p0), KernelOK(k'), Keeps(k', k),
           Finish(call[cur], Failed), UNCHANGED <<yieldReq, arg, load, q>>
    PROVE  Kept
  <1>. DEFINE c == call[cur]
              d == Left(c, Failed)
  <1>1. c \in CallRecord /\ cur \in Tasks /\ QueueInv /\ At(p0) /\ Stores(q) /\ yieldReq = FALSE
    BY DEF Within
  <1>2. d \in CallRecord /\ d.queue = c.queue /\ d.answer = Failed
    <2>. HIDE DEF c
    <2>. QED BY <1>1, StoreAnswers, LeftType
  <1>3. kpc' = [kpc EXCEPT ![cur] = "done"] /\ call' = [call EXCEPT ![cur] = d]
    BY DEF Finish, To, Left
  <1>4. Moves("done", d, arg[cur])
    BY <1>1, <1>3, ArgSame DEF Moves
  <1>. HIDE DEF d
  <1>5. StepOK(k, "done", d, arg[cur], k', yieldReq')
    BY <1>1, <1>2, DoneOK
  <1>6. Stores(q') /\ Buf(q') = Buf(q)
    BY <1>1
  <1>7. Ends(Buf(q'), [Ans(call) EXCEPT ![cur] = d.answer], Buf(q), Ans(call), cur)
    BY <1>2, <1>6 DEF Ends
  <1>8. p0 # "done"
    OBVIOUS
  <1>. QED BY <1>1, <1>4, <1>5, <1>6, <1>7, <1>8, Ending

\* A timeout: the call fails, or looks again.
LEMMA ExpiredKeeps ==
    ASSUME QueueInv, Expired, UNCHANGED load
    PROVE  Kept
  <1>1. Within("expired")
    BY WithinCall DEF Expired, InQueue
  <1>2. KernelOK(k) /\ Keeps(k, k) /\ IsReady(k, cur)
    BY <1>1 DEF Within, Keeps, Processor, Leaving, cur
  <1>3. CASE Finish(call[cur], Failed)
    BY <1>1, <1>2, <1>3, GiveUpKeeps DEF Expired
  <1>4. ASSUME NEW p \in {"try", "disinherit"}, To(p, call[cur]) PROVE Kept
    BY <1>1, <1>2, <1>4, Unmoved, Onward DEF Expired, InQueue, Alone, Patient
  <1>. QED BY <1>3, <1>4 DEF Expired

\* vTaskPriorityDisinheritAfterTimeout before a take gives up.
LEMMA DisinheritCallKeeps ==
    ASSUME QueueInv, DisinheritAfterTimeout, UNCHANGED load
    PROVE  Kept
  <1>. DEFINE x == call[cur].queue
              h == q[x].xMutexHolder
              p == prvGetDisinheritPriorityAfterTimeout(x)
  <1>1. Within("disinherit")
    BY WithinCall DEF DisinheritAfterTimeout, InQueue
  <1>2. KernelOK(k) /\ Keeps(k, k) /\ StoreOK(x, q[x]) /\ ToReceive(x) \in Events /\ QueueInv
    BY <1>1 DEF Within, Keeps
  <1>3. h \in Tasks \cup {NoTask}
    BY <1>2 DEF StoreOK, Record
  <1>4. p \in Priorities
    <2>. DEFINE l == k.xTasksWaiting[ToReceive(x)]
    <2>1. l \in Seq(Tasks)
      BY <1>2 DEF KernelOK, Kernel, Distinct
    <2>2. l # <<>> => k.uxPriority[Head(l)] \in Priorities
      <3>. HIDE DEF l
      <3>1. l # <<>> => Head(l) \in Tasks
        BY <2>1
      <3>. QED BY <1>2, <3>1, PriorityTypes DEF Threads
    <2>3. 0 \in Priorities
      BY BoundsAssumption DEF Priorities
    <2>. QED BY <2>2, <2>3 DEF prvGetDisinheritPriorityAfterTimeout
  <1>5. k' = vTaskPriorityDisinheritAfterTimeout(k, h, p) /\ Finish(call[cur], Failed)
    BY DEF DisinheritAfterTimeout
  <1>. HIDE DEF h, p
  <1>6. KernelOK(k') /\ Keeps(k', k)
    <2>1. CASE k' = k
      BY <1>2, <2>1
    <2>2. ASSUME h # NoTask,
                 k' = ChangePriority(k, h, IF InitialPriority[h] < p THEN p ELSE InitialPriority[h])
          PROVE  KernelOK(k') /\ Keeps(k', k)
      <3>1. PICK i \in Priorities : i = IF InitialPriority[h] < p THEN p ELSE InitialPriority[h]
        BY <1>2, <1>3, <1>4, <2>2, InitialPriorityType DEF Threads
      <3>. QED BY <1>2, <1>3, <2>2, <3>1, ChangeKeeps
    <2>. QED BY <1>5, <2>1, <2>2 DEF vTaskPriorityDisinheritAfterTimeout
  <1>. QED BY <1>1, <1>5, <1>6, GiveUpKeeps DEF DisinheritAfterTimeout

\* A task comes back from its call with the answer.
LEMMA ReturnKeeps ==
    ASSUME QueueInv, ReturnCall, UNCHANGED load
    PROVE  Kept
  <1>1. Finds(cur, "done") /\ At("done")
    BY AtFinds DEF ReturnCall, cur
  <1>2. /\ cur \in Threads /\ KernelOK(k) /\ yieldReq = FALSE /\ arg[cur] \in Args /\ Stores(q)
        /\ k.uxSchedulerSuspended = 0 /\ IsReady(k, k.pxCurrentTCB)
    BY <1>1 DEF Finds, Processor, Leaving, Alone, QueueInv
  <1>3. cur \in Tasks
    BY <1>1 DEF Finds, CalledAt, Threads
  <1>4. NoCall \in CallRecord /\ NoCall.answer = Nothing
    BY BoundsAssumption DEF NoCall, CallRecord, Answers, portMAX_DELAY
  <1>5. CalledAt(cur, "run", NoCall, arg[cur])
    BY <1>4 DEF CalledAt, InQueue, Patient
  <1>6. StepOK(k, "run", NoCall, arg[cur], k', yieldReq')
    BY <1>2, <1>4, <1>5 DEF StepOK, Processor, QueueKpcs, Alone, cur, ReturnCall
  <1>7. Moves("run", NoCall, arg[cur])
    BY ArgSame DEF Moves, ReturnCall, To
  <1>8. QueueInv'
    BY <1>2, <1>6, <1>7, MoveKeeps DEF ReturnCall
  <1>9. DOMAIN call = Threads
    BY DEF QueueInv, CallsOK, InCalls
  <1>. DEFINE v == IF NoCall.queue \in Buffers THEN NoCall.answer ELSE Nothing
  <1>10. v = Nothing
    BY <1>4
  <1>11. Ans([call EXCEPT ![cur] = NoCall]) = [Ans(call) EXCEPT ![cur] = v]
    <2>. HIDE DEF NoCall
    <2>. QED BY <1>2, <1>3, <1>9, AnswerOf
  <1>12. Ans(call') = [Ans(call) EXCEPT ![cur] = Nothing]
    BY <1>10, <1>11 DEF ReturnCall, To
  <1>. QED BY <1>3, <1>8, <1>12 DEF Kept, Abstractly, ReturnCall

-----------------------------------------------------------------------------
(***************************************************************************)
(* The tasks that only delay, and the idle task.                           *)
(***************************************************************************)
Idles(p0) == /\ QueueInv /\ At(p0) /\ p0 # "done" /\ UNCHANGED <<load, q>>

\* A step of a task outside the queues.
LEMMA OutsideKeeps ==
    ASSUME NEW p0, Idles(p0), NEW p \in QueueKpcs \ InQueue, NEW b \in Args,
           p = "add" => b.ticks > 0, p # "run" => cur # Idle,
           KernelOK(k'), k'.pxCurrentTCB = k.pxCurrentTCB,
           k'.uxSchedulerSuspended = IF p \in Alone THEN 1 ELSE 0,
           Processor(k', p, call[cur], yieldReq'),
           kpc' = [kpc EXCEPT ![cur] = p], SameCalls(call', call), arg' = [arg EXCEPT ![cur] = b]
    PROVE  Kept
  <1>. DEFINE d == call[cur]
  <1>1. Finds(cur, p0) /\ At(p0) /\ QueueInv /\ p0 # "done"
    BY AtFinds DEF Idles, cur
  <1>2. d \in CallRecord /\ d.answer = Nothing
    BY <1>1 DEF Finds, CalledAt
  <1>3. CalledAt(cur, p, d, b)
    BY <1>2 DEF CalledAt, InQueue, Patient
  <1>4. StepOK(k, p, d, b, k', yieldReq')
    BY <1>2, <1>3 DEF StepOK, cur
  <1>5. [call EXCEPT ![cur] = d] = call
    BY <1>1 DEF QueueInv, CallsOK, InCalls
  <1>6. SameCalls(call', [call EXCEPT ![cur] = d])
    BY <1>5
  <1>. HIDE DEF d
  <1>. QED BY <1>1, <1>2, <1>4, <1>6, SilentInTime DEF Idles

\* A step outside queue.c touches no queue.
LEMMA OutsideFacts ==
    ASSUME NEW p0, Idles(p0)
    PROVE  /\ cur \in Threads /\ KernelOK(k) /\ yieldReq = FALSE /\ arg[cur] \in Args
           /\ SameCalls(call, call) /\ NoArg \in Args
           /\ kpc = [kpc EXCEPT ![cur] = p0] /\ arg = [arg EXCEPT ![cur] = arg[cur]]
           /\ Processor(k, p0, call[cur], FALSE) /\ (p0 # "run" => cur \in Tasks)
           /\ (p0 = "add" => arg[cur].ticks > 0)
           /\ k.uxSchedulerSuspended = IF p0 \in Alone THEN 1 ELSE 0
  <1>1. Finds(cur, p0)
    BY AtFinds DEF Idles, cur
  <1>2. SameCalls(call, call)
    BY DEF Idles, QueueInv, CallsOK, InCalls, SameCalls
  <1>3. NoArg \in Args
    BY BoundsAssumption DEF NoArg, Args, portMAX_DELAY
  <1>4. kpc = [kpc EXCEPT ![cur] = p0] /\ arg = [arg EXCEPT ![cur] = arg[cur]]
    BY <1>1 DEF Idles, QueueInv, CallsOK, InCalls, Finds
  <1>5. p0 # "run" => cur \in Tasks
    BY <1>1 DEF Finds, CalledAt, Threads
  <1>. QED BY <1>1, <1>2, <1>3, <1>4, <1>5 DEF Finds, CalledAt, cur

\* vTaskDelay suspends the scheduler.
LEMMA DelayCallKeeps ==
    ASSUME QueueInv, NEW n \in Delays, vTaskDelay(n), UNCHANGED <<qvars, load>>
    PROVE  Kept
  <1>1. Idles("run") /\ cur \in Callers /\ k.uxSchedulerSuspended = 0
    BY DEF Idles, vTaskDelay, Call, qvars, Unlocked
  <1>2. /\ KernelOK(k) /\ yieldReq = FALSE /\ NoArg \in Args /\ SameCalls(call, call)
        /\ Processor(k, "run", call[cur], FALSE) /\ cur \in Threads
    BY <1>1, OutsideFacts
  <1>3. IsReady(k, k.pxCurrentTCB)
    BY <1>2 DEF Processor, Leaving
  <1>4. n \in 0..portMAX_DELAY /\ cur \in Tasks /\ cur # Idle
    BY <1>1, WorkloadAssumption, ThreadsAssumption DEF QueueInv, Delays, Callers
  <1>5. CASE n = 0
    <2>1. Goto("yield", NoArg) /\ k' = k /\ yieldReq' = yieldReq /\ call' = call
      BY <1>5 DEF vTaskDelay, qvars
    <2>2. Processor(k', "yield", call[cur], yieldReq')
      BY <1>2, <1>3, <2>1 DEF Processor
    <2>. QED BY <1>1, <1>2, <1>4, <2>1, <2>2, OutsideKeeps DEF Goto, QueueKpcs, InQueue, Alone
  <1>6. CASE n # 0
    <2>. DEFINE b == [NoArg EXCEPT !.ticks = n]
    <2>1. /\ Goto("add", b) /\ k' = [k EXCEPT !.uxSchedulerSuspended = @ + 1]
          /\ yieldReq' = yieldReq /\ call' = call
      BY <1>6 DEF vTaskDelay, qvars
    <2>2. b \in Args /\ b.ticks > 0
      BY <1>4, <1>6, BoundsAssumption DEF NoArg, Args, portMAX_DELAY
    <2>3. KernelOK(k') /\ k'.uxSchedulerSuspended = 1 /\ k'.pxCurrentTCB = k.pxCurrentTCB
          /\ IsReady(k', k'.pxCurrentTCB)
      BY <1>1, <1>2, <1>3, <2>1, SuspendKeeps DEF cur
    <2>. HIDE DEF b
    <2>4. Processor(k', "add", call[cur], yieldReq')
      BY <1>2, <2>1, <2>3 DEF Processor
    <2>. QED BY <1>1, <1>2, <1>4, <2>1, <2>2, <2>3, <2>4, OutsideKeeps
             DEF Goto, QueueKpcs, InQueue, Alone
  <1>. QED BY <1>5, <1>6

\* vTaskDelay puts the caller in a delayed list.
LEMMA AddKeeps ==
    ASSUME QueueInv, AddToDelayedList, UNCHANGED <<qvars, load>>
    PROVE  Kept
  <1>1. Idles("add")
    BY DEF Idles, AddToDelayedList, qvars
  <1>2. /\ KernelOK(k) /\ yieldReq = FALSE /\ NoArg \in Args /\ SameCalls(call, call)
        /\ Processor(k, "add", call[cur], FALSE) /\ cur \in Tasks /\ arg[cur] \in Args
        /\ arg[cur].ticks > 0 /\ k.uxSchedulerSuspended = 1
    BY <1>1, OutsideFacts DEF Alone
  <1>3. IsReady(k, k.pxCurrentTCB)
    BY <1>2 DEF Processor, Leaving
  <1>4. arg[cur].ticks \in 1..portMAX_DELAY /\ cur # Idle
    BY <1>2, BoundsAssumption, ThreadsAssumption DEF Args, portMAX_DELAY
  <1>5. /\ k' = prvAddCurrentTaskToDelayedList(k, arg[cur].ticks, FALSE)
        /\ Goto("resume", NoArg) /\ yieldReq' = yieldReq /\ call' = call
    BY DEF AddToDelayedList, qvars
  <1>6. GoesOn(k', k)
    <2>1. PICK n \in 1..portMAX_DELAY : n = arg[cur].ticks
      BY <1>4
    <2>. QED BY <1>2, <1>3, <1>5, <2>1, DelayKeeps DEF cur
  <1>7. Processor(k', "resume", call[cur], yieldReq')
    BY <1>2, <1>5 DEF Processor
  <1>. QED BY <1>1, <1>2, <1>4, <1>5, <1>6, <1>7, OutsideKeeps
           DEF Goto, QueueKpcs, InQueue, Alone, GoesOn

\* A task gives the processor up.
LEMMA YieldKeeps ==
    ASSUME QueueInv, portYIELD_WITHIN_API \/ IdleYield, UNCHANGED <<qvars, load>>
    PROVE  Kept
  <1>1. PICK p0 \in {"yield", "run"} : Idles(p0) /\ kpc' = [kpc EXCEPT ![cur] = "run"]
           /\ \E b \in Args : arg' = [arg EXCEPT ![cur] = b]
    <2>1. CASE portYIELD_WITHIN_API
      <3>1. Idles("yield") /\ kpc' = [kpc EXCEPT ![cur] = "run"] /\ arg' = [arg EXCEPT ![cur] = NoArg]
        BY <2>1 DEF Idles, portYIELD_WITHIN_API, qvars, Return, Goto
      <3>. QED BY <3>1, OutsideFacts
    <2>2. CASE IdleYield
      <3>1. Idles("run") /\ kpc' = kpc /\ arg' = arg
        BY <2>2 DEF Idles, IdleYield, qvars
      <3>. QED BY <3>1, OutsideFacts
    <2>. QED BY <2>1, <2>2
  <1>2. KernelOK(k) /\ SameCalls(call, call) /\ k.uxSchedulerSuspended = 0
    BY <1>1, OutsideFacts DEF Alone
  <1>3. k' = k /\ yieldReq' = TRUE /\ call' = call
    BY DEF portYIELD_WITHIN_API, IdleYield, qvars
  <1>4. Processor(k', "run", call[cur], yieldReq')
    BY <1>2, <1>3 DEF Processor
  <1>. QED BY <1>1, <1>2, <1>3, <1>4, OutsideKeeps DEF QueueKpcs, InQueue, Alone

\* xTaskResumeAll and the yield that vTaskDelay ends with.
LEMMA ResumeAndYieldKeeps ==
    ASSUME QueueInv, ResumeAndYield, call' = Overflow(call), UNCHANGED <<q, held, load>>
    PROVE  Kept
  <1>1. Idles("resume")
    BY DEF Idles, ResumeAndYield
  <1>2. /\ KernelOK(k) /\ NoArg \in Args /\ cur \in Tasks /\ cur # Idle
        /\ k.uxSchedulerSuspended = 1
    BY <1>1, OutsideFacts, ThreadsAssumption DEF Alone
  <1>3. PICK r : r = xTaskResumeAll(k) /\ k' = r.s /\ yieldReq' = r.yielded
                 /\ Goto(IF r.yielded THEN "run" ELSE "yield", NoArg)
    BY DEF ResumeAndYield
  <1>4. ResumedAll(r, k)
    BY <1>2, <1>3, ResumeKeeps
  <1>5. SameCalls(call', call)
    BY OverflowSame DEF QueueInv, CallsOK, InCalls
  <1>. DEFINE p == IF r.yielded THEN "run" ELSE "yield"
  <1>6. p \in QueueKpcs \ InQueue /\ p \notin Alone /\ p # "add"
    BY DEF QueueKpcs, InQueue, Alone
  <1>7. Processor(k', p, call[cur], yieldReq')
    BY <1>3, <1>4 DEF Processor, ResumedAll
  <1>8. KernelOK(k') /\ k'.pxCurrentTCB = k.pxCurrentTCB /\ k'.uxSchedulerSuspended = 0
    BY <1>3, <1>4 DEF ResumedAll
  <1>9. kpc' = [kpc EXCEPT ![cur] = p] /\ arg' = [arg EXCEPT ![cur] = NoArg]
    BY <1>3 DEF Goto
  <1>. HIDE DEF p
  <1>. QED BY <1>1, <1>2, <1>5, <1>6, <1>7, <1>8, <1>9, OutsideKeeps

(***************************************************************************)
(* Interrupts.                                                             *)
(***************************************************************************)
\* What an interrupt finds.
LEMMA IsrFacts ==
    ASSUME QueueInv
    PROVE  /\ KernelOK(k) /\ yieldReq \in BOOLEAN /\ (k.uxSchedulerSuspended > 0 => ~ yieldReq)
           /\ Stores(q) /\ call \in [Threads -> CallRecord] /\ SameCalls(call, call)
  BY DEF QueueInv, CallsOK, Processor, InCalls, SameCalls

\* The yield interrupt: the highest-priority ready task runs.
LEMMA YieldIrqKeeps ==
    ASSUME QueueInv, YieldIsr, UNCHANGED <<qvars, load>>
    PROVE  Kept
  <1>1. HandlerEnd(k, TRUE) /\ UNCHANGED <<kpc, arg, load, call, q>>
    BY DEF YieldIsr, Stay, qvars
  <1>2. Keeps(k, k)
    BY DEF Keeps
  <1>3. AfterIsr(k', k, yieldReq, yieldReq')
    BY <1>1, <1>2, IsrFacts, HandlerKeeps
  <1>. QED BY <1>1, <1>3, IsrFacts, Interrupt

\* The tick interrupt: waiting tasks are woken on time.
LEMMA TickIrqKeeps ==
    ASSUME QueueInv, Tick, UNCHANGED load
    PROVE  Kept
  <1>1. PICK r : r = xTaskIncrementTick(k) /\ HandlerEnd(r.s, r.switch)
    BY DEF Tick, TickIsr
  <1>2. KernelOK(r.s) /\ Keeps(r.s, k) /\ r.switch \in BOOLEAN
    BY <1>1, IsrFacts, TickKeeps
  <1>3. AfterIsr(k', k, yieldReq, yieldReq')
    <2>1. PICK n, w : n = r.s /\ w = r.switch
      OBVIOUS
    <2>. QED BY <1>1, <1>2, <2>1, IsrFacts, HandlerKeeps
  <1>. DEFINE g == [t \in Threads |->
                  IF HasTimeout(t) THEN [call[t] EXCEPT !.waited = Counted(@)] ELSE call[t]]
  <1>4. SameCalls(g, call)
    <2>1. ASSUME NEW t \in Threads
          PROVE  /\ g[t] \in CallRecord
                 /\ g[t].op = call[t].op /\ g[t].queue = call[t].queue
                 /\ g[t].item = call[t].item /\ g[t].ticks = call[t].ticks
                 /\ g[t].after = call[t].after /\ g[t].answer = call[t].answer
      <3>1. call[t] \in CallRecord
        BY IsrFacts
      <3>2. PICK i \in Nat : i = Counted(call[t].waited)
        BY <3>1 DEF Counted, CallRecord
      <3>3. g[t] = IF HasTimeout(t) THEN [call[t] EXCEPT !.waited = i] ELSE call[t]
        BY <3>2
      <3>. HIDE DEF g
      <3>. QED BY <3>1, <3>3 DEF CallRecord
    <2>2. DOMAIN g = Threads /\ g = [t \in Threads |-> g[t]]
      OBVIOUS
    <2>. HIDE DEF g
    <2>. QED BY <2>1, <2>2 DEF SameCalls
  <1>5. call' = Overflow(g) /\ UNCHANGED <<kpc, arg, q>>
    BY DEF Tick, TickIsr, Stay
  <1>. HIDE DEF g
  <1>6. g \in [Threads -> CallRecord]
    BY <1>4 DEF SameCalls
  <1>7. SameCalls(Overflow(g), g)
    BY <1>6, OverflowSame
  <1>8. SameCalls(call', call)
    BY <1>4, <1>5, <1>7 DEF SameCalls
  <1>. QED BY <1>3, <1>5, <1>8, IsrFacts, Interrupt

\* An interrupt that finds a task waiting, or a locked queue.
LEMMA WakeIsr ==
    ASSUME QueueInv, NEW e \in Events, NEW lock, WakeFromIsr(e, lock)
    PROVE  AfterIsr(k', k, yieldReq, yieldReq')
  <1>1. Keeps(k, k)
    BY DEF Keeps
  <1>2. CASE lock = queueUNLOCKED
    <2>1. HandlerEnd(Wake(k, e).s, Wake(k, e).higher)
      BY <1>2 DEF WakeFromIsr
    <2>2. PICK n, w : n = Wake(k, e).s /\ w = Wake(k, e).higher
      OBVIOUS
    <2>3. KernelOK(n) /\ Keeps(n, k) /\ w \in BOOLEAN /\ HandlerEnd(n, w)
      BY <2>1, <2>2, IsrFacts, WakeKeeps
    <2>. QED BY <2>3, IsrFacts, HandlerKeeps
  <1>3. CASE lock # queueUNLOCKED
    <2>1. HandlerEnd(k, FALSE)
      BY <1>3 DEF WakeFromIsr
    <2>. QED BY <1>1, <2>1, IsrFacts, HandlerKeeps
  <1>. QED BY <1>2, <1>3

\* An interrupt counts what it does to a locked queue.
LEMMA LockCount ==
    ASSUME NEW i \in Int
    PROVE  prvIncrementQueueLock(i) \in Int
  BY DEF prvIncrementQueueLock

\* A request of an interrupt is legal.
LEMMA IsrRequest ==
    ASSUME QueueInv, NEW r \in IsrRequests
    PROVE  Legal(r) /\ r.queue \in Queues /\ ToReceive(r.queue) \in Events
           /\ ToSend(r.queue) \in Events
  <1>1. /\ r \in Request
        /\ r.op = "overwrite" => uxLength[r.queue] = 1
        /\ r.op \in {"give", "take"} <=> r.queue \notin Buffers
        /\ r.op \in {"send", "front", "overwrite"} => r.item \in Items
    BY RequestAssumption DEF QueueInv, IsrRequests
  <1>2. r.queue \in Queues /\ r.op \in Ops
    BY <1>1 DEF Request, Ops
  <1>. QED BY <1>1, <1>2, EventsOf DEF Legal

(***************************************************************************)
(* The mutexes a task holds and its priority.                              *)
(***************************************************************************)
OwnedBy(z, t) == {x \in Queues : z[x].xMutexHolder = t}
\* hd counts the mutexes each task holds; who holds none has the priority own
Owes(own, pr, z, hd) ==
    /\ hd \in [Threads -> Nat]
    /\ \A t \in Threads : /\ IsFiniteSet(OwnedBy(z, t)) /\ hd[t] = Cardinality(OwnedBy(z, t))
                          /\ hd[t] = 0 => pr[t] = own[t]
Debts == Owes(InitialPriority, k.uxPriority, q, held)

SameHolders(y, z) == \A x \in Queues : y[x].xMutexHolder = z[x].xMutexHolder

\* Priorities and holders stay, or only a task that holds a mutex is given another priority.
LEMMA OwesSame ==
    ASSUME NEW own, NEW pr, NEW z, NEW hd, Owes(own, pr, z, hd),
           NEW pr2, NEW y, SameHolders(y, z),
           \A t \in Threads : hd[t] = 0 => pr2[t] = pr[t]
    PROVE  Owes(own, pr2, y, hd)
  <1>1. \A t : OwnedBy(y, t) = OwnedBy(z, t)
    BY DEF OwnedBy, SameHolders
  <1>. QED BY <1>1 DEF Owes

\* Sending to a queue that is no mutex leaves its holder.
LEMMA CopyKeepsHolder ==
    ASSUME NEW x \in Queues, StoreOK(x, q[x]), NEW c, Legal(c), c.queue = x, c.op \in Senders,
           x \notin Mutexes
    PROVE  prvCopyDataToQueue(x, c).xMutexHolder = q[x].xMutexHolder
  <1>1. q[x] \in Store(x)
    BY DEF StoreOK, Store, Stored
  <1>2. CASE c.op = "give"
    <2>1. prvCopyDataToQueue(x, c) = [q[x] EXCEPT !.uxMessagesWaiting = @ + 1]
      BY <1>2 DEF prvCopyDataToQueue
    <2>2. \A s \in Store(x) : \A i : [s EXCEPT !.uxMessagesWaiting = i].xMutexHolder = s.xMutexHolder
      BY DEF Store, Record
    <2>. QED BY <1>1, <2>1, <2>2
  <1>3. CASE c.op # "give"
    <2>1. \/ prvCopyDataToQueue(x, c) = CopyToBack(q[x], uxLength[x], c.item)
          \/ prvCopyDataToQueue(x, c) = CopyToFront(q[x], uxLength[x], c.item)
          \/ prvCopyDataToQueue(x, c) = Overwrite(q[x], uxLength[x], c.item)
      BY <1>3 DEF prvCopyDataToQueue, Senders
    <2>. QED BY <1>1, <2>1, CopyHolder
  <1>. QED BY <1>2, <1>3

\* t is given its own priority if it holds one mutex, nobody else another
Settled(own, pr2, pr, hd, t) ==
    (\A u \in Threads : u # t => pr2[u] = pr[u]) /\ (hd[t] = 1 => pr2[t] = own[t])

\* A task gives a mutex back.
LEMMA OwesLess ==
    ASSUME NEW own, NEW pr, NEW z, NEW hd, Owes(own, pr, z, hd), DOMAIN z = Queues,
           NEW x \in Queues, NEW t \in Threads, z[x].xMutexHolder = t,
           NEW n, n.xMutexHolder = NoTask, NEW y, y = [z EXCEPT ![x] = n],
           NEW pr2, Settled(own, pr2, pr, hd, t)
    PROVE  Owes(own, pr2, y, [hd EXCEPT ![t] = @ - 1])
  <1>. DEFINE hd2 == [hd EXCEPT ![t] = @ - 1]
  <1>1. \A w \in Queues : y[w] = IF w = x THEN n ELSE z[w]
    OBVIOUS
  <1>2. OwnedBy(y, t) = OwnedBy(z, t) \ {x} /\ x \in OwnedBy(z, t)
    BY <1>1, ThreadsAssumption DEF OwnedBy, Threads
  <1>3. \A u \in Threads : u # t => OwnedBy(y, u) = OwnedBy(z, u)
    BY <1>1, ThreadsAssumption DEF OwnedBy, Threads
  <1>4. IsFiniteSet(OwnedBy(z, t)) /\ hd[t] = Cardinality(OwnedBy(z, t)) /\ hd \in [Threads -> Nat]
    BY DEF Owes
  <1>5. /\ IsFiniteSet(OwnedBy(y, t)) /\ Cardinality(OwnedBy(y, t)) = hd[t] - 1
        /\ Cardinality(OwnedBy(y, t)) \in Nat
    <2>1. PICK A, B : A = OwnedBy(z, t) /\ B = OwnedBy(y, t)
      OBVIOUS
    <2>2. B = A \ {x} /\ x \in A /\ IsFiniteSet(A) /\ hd[t] = Cardinality(A)
      BY <1>2, <1>4, <2>1
    <2>3. IsFiniteSet(B) /\ Cardinality(B) = Cardinality(A) - 1 /\ Cardinality(B) \in Nat
      BY <2>2, FS_RemoveElement, FS_CardinalityType
    <2>. QED BY <2>1, <2>2, <2>3
  <1>6. hd2 \in [Threads -> Nat] /\ hd2[t] = hd[t] - 1 /\ \A u \in Threads : u # t => hd2[u] = hd[u]
    <2>1. PICK i \in Nat : i = hd[t] - 1
      BY <1>5
    <2>2. hd2 = [hd EXCEPT ![t] = i]
      BY <2>1
    <2>. HIDE DEF hd2
    <2>. QED BY <1>4, <2>1, <2>2
  <1>. HIDE DEF hd2
  <1>7. ASSUME NEW u \in Threads
        PROVE  /\ IsFiniteSet(OwnedBy(y, u)) /\ hd2[u] = Cardinality(OwnedBy(y, u))
               /\ hd2[u] = 0 => pr2[u] = own[u]
    <2>1. CASE u = t
      <3>1. hd2[t] = 0 => hd[t] = 1
        BY <1>4, <1>6
      <3>. QED BY <1>5, <1>6, <2>1, <3>1 DEF Settled
    <2>2. CASE u # t
      BY <1>3, <1>6, <2>2 DEF Owes, Settled
    <2>. QED BY <2>1, <2>2
  <1>. QED BY <1>6, <1>7 DEF Owes, hd2

\* A task takes a mutex that nobody holds.
LEMMA OwesMore ==
    ASSUME NEW own, NEW pr, NEW z, NEW hd, Owes(own, pr, z, hd), DOMAIN z = Queues,
           NEW x \in Queues, NEW t \in Threads, z[x].xMutexHolder = NoTask,
           NEW n, n.xMutexHolder = t, NEW y, y = [z EXCEPT ![x] = n]
    PROVE  Owes(own, pr, y, [hd EXCEPT ![t] = @ + 1])
  <1>. DEFINE hd2 == [hd EXCEPT ![t] = @ + 1]
  <1>1. \A w \in Queues : y[w] = IF w = x THEN n ELSE z[w]
    OBVIOUS
  <1>2. OwnedBy(y, t) = OwnedBy(z, t) \cup {x} /\ x \notin OwnedBy(z, t)
    BY <1>1, ThreadsAssumption DEF OwnedBy, Threads
  <1>3. \A u \in Threads : u # t => OwnedBy(y, u) = OwnedBy(z, u)
    BY <1>1, ThreadsAssumption DEF OwnedBy, Threads
  <1>4. IsFiniteSet(OwnedBy(z, t)) /\ hd[t] = Cardinality(OwnedBy(z, t)) /\ hd \in [Threads -> Nat]
    BY DEF Owes
  <1>5. IsFiniteSet(OwnedBy(y, t)) /\ Cardinality(OwnedBy(y, t)) = hd[t] + 1
    <2>1. PICK A, B : A = OwnedBy(z, t) /\ B = OwnedBy(y, t)
      OBVIOUS
    <2>2. B = A \cup {x} /\ x \notin A /\ IsFiniteSet(A) /\ hd[t] = Cardinality(A)
      BY <1>2, <1>4, <2>1
    <2>3. IsFiniteSet(B) /\ Cardinality(B) = Cardinality(A) + 1
      BY <2>2, FS_AddElement
    <2>. QED BY <2>1, <2>2, <2>3
  <1>6. hd2 \in [Threads -> Nat] /\ hd2[t] = hd[t] + 1 /\ \A u \in Threads : u # t => hd2[u] = hd[u]
    <2>1. PICK i \in Nat : i = hd[t] + 1
      BY <1>4
    <2>2. hd2 = [hd EXCEPT ![t] = i]
      BY <2>1
    <2>. HIDE DEF hd2
    <2>. QED BY <1>4, <2>1, <2>2
  <1>. HIDE DEF hd2
  <1>7. ASSUME NEW u \in Threads
        PROVE  /\ IsFiniteSet(OwnedBy(y, u)) /\ hd2[u] = Cardinality(OwnedBy(y, u))
               /\ hd2[u] = 0 => pr[u] = own[u]
    <2>1. CASE u = t
      <3>1. hd2[t] # 0
        BY <1>4, <1>6
      <3>. QED BY <1>5, <1>6, <2>1, <3>1
    <2>2. CASE u # t
      BY <1>3, <1>6, <2>2 DEF Owes
    <2>. QED BY <2>1, <2>2
  <1>. QED BY <1>6, <1>7 DEF Owes, hd2

\* Whoever holds a mutex has one to give back.
LEMMA HolderOwes ==
    ASSUME NEW own, NEW pr, NEW z, NEW hd, Owes(own, pr, z, hd),
           NEW x \in Queues, NEW t \in Threads, z[x].xMutexHolder = t
    PROVE  hd[t] # 0
  <1>1. x \in OwnedBy(z, t)
    BY DEF OwnedBy
  <1>2. IsFiniteSet(OwnedBy(z, t)) /\ hd[t] = Cardinality(OwnedBy(z, t))
    BY DEF Owes
  <1>. QED BY <1>1, <1>2, FS_EmptySet

(***************************************************************************)
(* Nobody sleeps through a message or a place.  The two sides of a queue   *)
(* are alike: receivers wait for messages, and senders count them in       *)
(* cTxLock while the queue is locked; senders wait for places, and         *)
(* receivers count them in cRxLock.                                        *)
(***************************************************************************)
Sides == {"receive", "send"}
OpsOn(d) == IF d = "receive" THEN Receivers ELSE Senders
EventOn(d, x) == IF d = "receive" THEN ToReceive(x) ELSE ToSend(x)
\* what those who wait on that side of the queue x, with the fields m, wait for
Available(d, x, m) == IF d = "receive" THEN m.uxMessagesWaiting
                      ELSE uxLength[x] - m.uxMessagesWaiting
LockOn(d, m) == IF d = "receive" THEN m.cTxLock ELSE m.cRxLock
\* where a task keeps that count from being made good
LockedAt(d) == {"check", "recheck", "inherit", "place", "unlockTx"}
               \cup (IF d = "send" THEN {"unlockRx"} ELSE {})

On(c, d, x) == c.queue = x /\ c.op \in OpsOn(d)
\* a task at p in the call c has decided to wait, and looks again when it is woken
Willing(p, c, d, x) ==
    On(c, d, x) /\ (p \in {"try", "yieldCall"} \/ (p \in Leaving /\ c.after = "block"))
\* it has found nothing, and is about to enter the event list
Placing(p, c, d, x) == On(c, d, x) /\ p \in {"inherit", "place"}
Queued(pc, cl, W, d, x) == \A t \in W : Willing(pc[t], cl[t], d, x)
\* those who have been woken, where W still wait
Roused(pc, cl, W, d, x) == {t \in Tasks \ W : Willing(pc[t], cl[t], d, x)}

\* av items, and r tasks that have been woken, with lock more to be
Enough(av, lock, r) ==
    \/ lock = queueUNLOCKED /\ av <= r
    \/ lock \in Nat /\ (av <= r + lock \/ lock >= uxTaskGetNumberOfTasks)
\* who waits, and who is about to
Somebody(pc, cl, W, d, x) == W # {} \/ \E t \in Threads : Placing(pc[t], cl[t], d, x)
SideOK(s, pc, cl, m, d, x) ==
    LET W == Wts(s, EventOn(d, x)) IN
    /\ Queued(pc, cl, W, d, x)
    /\ Somebody(pc, cl, W, d, x) =>
         Enough(Available(d, x, m), LockOn(d, m), Cardinality(Roused(pc, cl, W, d, x)))

Locked(pc, cl, d, x) == \E t \in Threads : pc[t] \in LockedAt(d) /\ cl[t].queue = x
\* a queue is locked while a task is between prvLockQueue and prvUnlockQueue, and only then
LocksOK(pc, cl, z) == \A d \in Sides, x \in Queues :
    IF Locked(pc, cl, d, x) THEN LockOn(d, z[x]) \in Nat ELSE LockOn(d, z[x]) = queueUNLOCKED

Watched == /\ LocksOK(kpc, call, q)
           /\ \A d \in Sides, x \in Queues : SideOK(k, kpc, call, q[x], d, x)

\* The two sides of the queues have event lists of their own.
LEMMA SidesApart ==
    /\ \A d \in Sides, x \in Queues : EventOn(d, x) \in Events
    /\ \A d, b \in Sides, x, y \in Queues : EventOn(d, x) = EventOn(b, y) => d = b /\ x = y
    /\ \A c : \A d, b \in Sides, x, y \in Queues : On(c, d, x) /\ On(c, b, y) => d = b /\ x = y
  <1>1. \A x, y : ToReceive(x) # ToSend(y) /\ (ToReceive(x) = ToReceive(y) => x = y)
                  /\ (ToSend(x) = ToSend(y) => x = y)
    BY DEF ToReceive, ToSend
  <1>2. Senders \cap Receivers = {}
    BY DEF Senders, Receivers
  <1>. QED BY <1>1, <1>2, EventsOf DEF Sides, EventOn, On, OpsOn

(***************************************************************************)
(* One side of one queue: who is roused, and what is there for them.       *)
(***************************************************************************)
\* those in g stop looking, those in j begin to wait; nobody else does either
Shifts(pc2, cl2, W2, pc, cl, W, g, j, d, x) ==
    /\ g \subseteq Tasks \ W /\ W2 \subseteq W \cup j /\ W \subseteq Tasks /\ W2 \subseteq Tasks
    /\ \A t \in Tasks \ g : Willing(pc[t], cl[t], d, x) => Willing(pc2[t], cl2[t], d, x)
    /\ \A t \in j : Willing(pc2[t], cl2[t], d, x) /\ ~ Willing(pc[t], cl[t], d, x)

\* n2 of n are left, after g have gone and v have come
Balances(n2, n, g, v) == n2 \in Nat /\ n \in Nat /\ g \in Nat /\ v \in Nat /\ n2 + g >= n + v

\* Whoever is woken, and was not the one that stops looking, is roused.
LEMMA ShiftBalances ==
    ASSUME NEW pc2, NEW cl2, NEW W2, NEW pc, NEW cl, NEW W, NEW g, NEW j, NEW d, NEW x,
           Shifts(pc2, cl2, W2, pc, cl, W, g, j, d, x),
           Queued(pc, cl, W, d, x)
    PROVE  /\ Queued(pc2, cl2, W2, d, x)
           /\ Balances(Cardinality(Roused(pc2, cl2, W2, d, x)), Cardinality(Roused(pc, cl, W, d, x)),
                       Cardinality(g), Cardinality(W \ W2))
           /\ Cardinality(W \ W2) <= Cardinality(Tasks)
  <1>. DEFINE R == Roused(pc, cl, W, d, x)
              R2 == Roused(pc2, cl2, W2, d, x)
              V == W \ W2
  <1>1. /\ g \subseteq Tasks \ W /\ W2 \subseteq W \cup j /\ W \subseteq Tasks /\ W2 \subseteq Tasks
        /\ \A t \in Tasks \ g : Willing(pc[t], cl[t], d, x) => Willing(pc2[t], cl2[t], d, x)
        /\ \A t \in j : Willing(pc2[t], cl2[t], d, x) /\ ~ Willing(pc[t], cl[t], d, x)
    BY DEF Shifts
  <1>2. Queued(pc2, cl2, W2, d, x)
    BY <1>1 DEF Queued
  <1>3. R \subseteq Tasks /\ R2 \subseteq Tasks /\ R \cap V = {} /\ R \cup V \subseteq R2 \cup g
    BY <1>1 DEF Roused, Queued
  <1>4. V \subseteq Tasks /\ g \subseteq Tasks
    BY <1>1
  <1>. HIDE DEF R, R2, V
  <1>5. /\ IsFiniteSet(R) /\ IsFiniteSet(R2) /\ IsFiniteSet(V) /\ IsFiniteSet(g)
        /\ Cardinality(V) <= Cardinality(Tasks)
    BY <1>3, <1>4, TasksAssumption, FS_Subset
  <1>6. /\ Cardinality(R) \in Nat /\ Cardinality(R2) \in Nat /\ Cardinality(V) \in Nat
        /\ Cardinality(g) \in Nat
    BY <1>5, FS_CardinalityType
  <1>7. IsFiniteSet(R \cup V) /\ IsFiniteSet(R2 \cup g)
    BY <1>5, FS_Union
  <1>8. Cardinality(R \cup V) = Cardinality(R) + Cardinality(V)
    <2>1. Cardinality(R \cap V) = 0
      BY <1>3, FS_EmptySet
    <2>2. Cardinality(R \cup V) = Cardinality(R) + Cardinality(V) - Cardinality(R \cap V)
      BY <1>5, FS_Union
    <2>. QED BY <1>6, <2>1, <2>2
  <1>9. Cardinality(R2 \cup g) <= Cardinality(R2) + Cardinality(g)
    <2>1. Cardinality(R2 \cup g) = Cardinality(R2) + Cardinality(g) - Cardinality(R2 \cap g)
      BY <1>5, FS_Union
    <2>2. Cardinality(R2 \cap g) \in Nat
      <3>1. IsFiniteSet(R2 \cap g)
        BY <1>5, FS_Subset
      <3>. QED BY <3>1, FS_CardinalityType
    <2>. QED BY <1>6, <2>1, <2>2
  <1>10. Cardinality(R \cup V) <= Cardinality(R2 \cup g)
    BY <1>3, <1>7, FS_Subset
  <1>11. Balances(Cardinality(R2), Cardinality(R), Cardinality(g), Cardinality(V))
    <2>1. PICK a, b \in Int : a = Cardinality(R \cup V) /\ b = Cardinality(R2 \cup g)
      BY <1>7, FS_CardinalityType
    <2>. QED BY <1>6, <1>8, <1>9, <1>10, <2>1 DEF Balances
  <1>. QED BY <1>2, <1>5, <1>11 DEF R, R2, V

\* There is a thread more than there are tasks.
LEMMA TasksCounted ==
    /\ Cardinality(Tasks) \in Nat /\ uxTaskGetNumberOfTasks \in Nat
    /\ Cardinality(Tasks) < uxTaskGetNumberOfTasks
  <1>1. Cardinality(Tasks) \in Nat
    BY TasksAssumption, FS_CardinalityType
  <1>2. Cardinality(Tasks \cup {Idle}) = Cardinality(Tasks) + 1
    BY TasksAssumption, ThreadsAssumption, FS_AddElement
  <1>. QED BY <1>1, <1>2 DEF uxTaskGetNumberOfTasks, Threads

\* av items and the lock, with somebody waiting or not, become av2, lock2 and some2, when g
\* stop looking and v are woken: things stay or go, nothing is left, the queue is locked,
\* an interrupt counts, the count is made good, or one is woken at once
Provides(av2, lock2, some2, av, lock, some, g, v) ==
    \/ (some2 => some) /\ lock2 = lock /\ av2 + g <= av
    \/ av2 <= 0 /\ lock2 \in Nat \cup {queueUNLOCKED}
    \/ (some2 => some) /\ lock = queueUNLOCKED /\ lock2 = queueLOCKED_UNMODIFIED /\ av2 + g <= av
    \/ /\ (some2 => some) /\ lock \in Nat /\ lock2 = prvIncrementQueueLock(lock)
       /\ av2 + g <= av + 1
    \/ (some2 => some /\ v >= lock) /\ lock2 = queueUNLOCKED /\ av2 + g <= av
    \/ /\ (some2 => some /\ v >= 1) /\ lock = queueUNLOCKED /\ lock2 = queueUNLOCKED
       /\ av2 + g <= av + 1

\* In each case those who are roused are enough for what is there.
LEMMA EnoughProvided ==
    ASSUME NEW av2 \in Int, NEW lock2, NEW some2 \in BOOLEAN, NEW av \in Int, NEW lock,
           NEW some \in BOOLEAN, NEW g, NEW v, NEW n, NEW n2, Balances(n2, n, g, v),
           v <= Cardinality(Tasks), some => Enough(av, lock, n),
           Provides(av2, lock2, some2, av, lock, some, g, v), some2
    PROVE  Enough(av2, lock2, n2)
  <1>0. /\ n \in Nat /\ n2 \in Nat /\ g \in Nat /\ v \in Nat /\ n2 + g >= n + v
        /\ queueUNLOCKED = -1 /\ queueLOCKED_UNMODIFIED = 0
    BY DEF Balances, queueUNLOCKED, queueLOCKED_UNMODIFIED
  <1>. PICK all \in Nat : all = uxTaskGetNumberOfTasks /\ v < all
    BY <1>0, TasksCounted
  <1>1. CASE (some2 => some) /\ lock2 = lock /\ av2 + g <= av
    BY <1>0, <1>1 DEF Enough
  <1>2. CASE av2 <= 0 /\ lock2 \in Nat \cup {queueUNLOCKED}
    BY <1>0, <1>2 DEF Enough
  <1>3. CASE (some2 => some) /\ lock = queueUNLOCKED /\ lock2 = queueLOCKED_UNMODIFIED
             /\ av2 + g <= av
    BY <1>0, <1>3 DEF Enough
  <1>4. CASE (some2 => some) /\ lock \in Nat /\ lock2 = prvIncrementQueueLock(lock)
             /\ av2 + g <= av + 1
    BY <1>0, <1>4 DEF Enough, prvIncrementQueueLock
  <1>5. CASE (some2 => some /\ v >= lock) /\ lock2 = queueUNLOCKED /\ av2 + g <= av
    BY <1>0, <1>5 DEF Enough
  <1>6. CASE (some2 => some /\ v >= 1) /\ lock = queueUNLOCKED /\ lock2 = queueUNLOCKED
             /\ av2 + g <= av + 1
    BY <1>0, <1>6 DEF Enough
  <1>. QED BY <1>1, <1>2, <1>3, <1>4, <1>5, <1>6 DEF Provides

\* what a step has to show of a side: who comes and goes, and that enough are left
Serves(n, pc2, cl2, m2, s, pc, cl, m, d, x) ==
    LET W2 == Wts(n, EventOn(d, x))
        W == Wts(s, EventOn(d, x))
    IN  \E g, j : /\ Shifts(pc2, cl2, W2, pc, cl, W, g, j, d, x)
                  /\ Provides(Available(d, x, m2), LockOn(d, m2), Somebody(pc2, cl2, W2, d, x),
                              Available(d, x, m), LockOn(d, m), Somebody(pc, cl, W, d, x),
                              Cardinality(g), Cardinality(W \ W2))

\* Such a step keeps the side in order.
LEMMA SideServed ==
    ASSUME NEW n, NEW pc2, NEW cl2, NEW m2, NEW s, NEW pc, NEW cl, NEW m, NEW d \in Sides,
           NEW x \in Queues, StoreOK(x, m), StoreOK(x, m2), SideOK(s, pc, cl, m, d, x),
           Serves(n, pc2, cl2, m2, s, pc, cl, m, d, x)
    PROVE  SideOK(n, pc2, cl2, m2, d, x)
  <1>. DEFINE W2 == Wts(n, EventOn(d, x))
              W == Wts(s, EventOn(d, x))
              av2 == Available(d, x, m2)
              av == Available(d, x, m)
              some2 == Somebody(pc2, cl2, W2, d, x)
              some == Somebody(pc, cl, W, d, x)
              r2 == Cardinality(Roused(pc2, cl2, W2, d, x))
              r == Cardinality(Roused(pc, cl, W, d, x))
  <1>1. \E g, j : /\ Shifts(pc2, cl2, W2, pc, cl, W, g, j, d, x)
                  /\ Provides(av2, LockOn(d, m2), some2, av, LockOn(d, m), some,
                              Cardinality(g), Cardinality(W \ W2))
    BY DEF Serves
  <1>2. Queued(pc, cl, W, d, x) /\ (some => Enough(av, LockOn(d, m), r))
    BY DEF SideOK
  <1>3. av2 \in Int /\ av \in Int /\ some2 \in BOOLEAN /\ some \in BOOLEAN
    BY QueueAssumption DEF Available, StoreOK, Somebody, Record
  <1>4. SideOK(n, pc2, cl2, m2, d, x) <=> Queued(pc2, cl2, W2, d, x)
                                          /\ (some2 => Enough(av2, LockOn(d, m2), r2))
    BY DEF SideOK
  <1>. HIDE DEF W2, W, av2, av, some2, some
  <1>5. PICK g, j : /\ Shifts(pc2, cl2, W2, pc, cl, W, g, j, d, x)
                    /\ Provides(av2, LockOn(d, m2), some2, av, LockOn(d, m), some,
                                Cardinality(g), Cardinality(W \ W2))
    BY <1>1
  <1>6. /\ Queued(pc2, cl2, W2, d, x)
        /\ Balances(r2, r, Cardinality(g), Cardinality(W \ W2))
        /\ Cardinality(W \ W2) <= Cardinality(Tasks)
    BY <1>2, <1>5, ShiftBalances
  <1>. HIDE DEF r2, r
  <1>7. PICK a, b : a = Cardinality(g) /\ b = Cardinality(W \ W2)
    OBVIOUS
  <1>8. some2 => Enough(av2, LockOn(d, m2), r2)
    <2>1. Balances(r2, r, a, b) /\ b <= Cardinality(Tasks)
          /\ Provides(av2, LockOn(d, m2), some2, av, LockOn(d, m), some, a, b)
      BY <1>5, <1>6, <1>7
    <2>2. PICK y, y2 : y = LockOn(d, m) /\ y2 = LockOn(d, m2)
      OBVIOUS
    <2>3. Provides(av2, y2, some2, av, y, some, a, b) /\ (some => Enough(av, y, r))
      BY <1>2, <2>1, <2>2
    <2>4. some2 => Enough(av2, y2, r2)
      BY <1>3, <2>1, <2>3, EnoughProvided
    <2>. QED BY <2>2, <2>4
  <1>. QED BY <1>4, <1>6, <1>8

(***************************************************************************)
(* What each action does to the kernel.                                    *)
(***************************************************************************)
\* a critical section, or an interrupt, that starts no wait and lets no time pass
Briefly == \/ SuspendAll \/ prvLockQueue \/ xTaskCheckForTimeOut \/ Recheck \/ UnlockTx
           \/ UnlockRx \/ YieldCall \/ Expired \/ ReturnCall
           \/ (\E n \in Delays : vTaskDelay(n)) \/ portYIELD_WITHIN_API \/ IdleYield \/ YieldIsr

\* The short steps of a call change only what is suspended, or wake those that are due a message.
LEMMA BrieflyGentle ==
    ASSUME QueueInv, Briefly
    PROVE  Gentle(k', k)
  <1>0. KernelOK(k) /\ Stores(q) /\ Gentle(k, k)
    BY GentleSame DEF QueueInv, CallsOK
  <1>1. CASE SuspendAll
    <2>1. Within("suspend")
      BY <1>1, WithinCall DEF SuspendAll, InQueue
    <2>2. k.uxSchedulerSuspended = 0
      BY <2>1 DEF Within, Alone
    <2>. QED BY <1>0, <1>1, <2>2, SuspendGentle DEF SuspendAll
  <1>2. CASE UnlockTx
    <2>1. Within("unlockTx")
      BY <1>2, WithinCall DEF UnlockTx, InQueue
    <2>. DEFINE x == call[cur].queue
    <2>2. x \in Queues /\ StoreOK(x, q[x]) /\ ToReceive(x) \in Events
      BY <2>1 DEF Within
    <2>3. k' = WakeFor(k, ToReceive(x), q[x].cTxLock)
      BY <1>2 DEF UnlockTx
    <2>. HIDE DEF x
    <2>4. q[x].cTxLock \in Int
      BY <2>2, LockTypes
    <2>. QED BY <1>0, <2>2, <2>3, <2>4, WakeForGentle
  <1>3. CASE UnlockRx
    <2>1. Within("unlockRx")
      BY <1>3, WithinCall DEF UnlockRx, InQueue
    <2>. DEFINE x == call[cur].queue
    <2>2. x \in Queues /\ StoreOK(x, q[x]) /\ ToSend(x) \in Events
      BY <2>1 DEF Within
    <2>3. k' = WakeFor(k, ToSend(x), q[x].cRxLock)
      BY <1>3 DEF UnlockRx
    <2>. HIDE DEF x
    <2>4. q[x].cRxLock \in Int
      BY <2>2, LockTypes
    <2>. QED BY <1>0, <2>2, <2>3, <2>4, WakeForGentle
  <1>4. CASE prvLockQueue \/ xTaskCheckForTimeOut \/ Recheck \/ YieldCall \/ Expired \/ ReturnCall
             \/ portYIELD_WITHIN_API \/ IdleYield
    <2>1. k' = k
      BY <1>4 DEF prvLockQueue, xTaskCheckForTimeOut, Recheck, YieldCall, Expired, ReturnCall,
                  portYIELD_WITHIN_API, IdleYield
    <2>. QED BY <1>0, <2>1
  <1>5. ASSUME NEW n \in Delays, vTaskDelay(n) PROVE Gentle(k', k)
    <2>1. k.uxSchedulerSuspended = 0 /\ (k' = k \/ k' = [k EXCEPT !.uxSchedulerSuspended = @ + 1])
      BY <1>5 DEF vTaskDelay, Call, Unlocked
    <2>. QED BY <1>0, <2>1, SuspendGentle
  <1>6. CASE YieldIsr
    <2>1. PICK sw : HandlerEnd(k, sw)
      BY <1>6 DEF YieldIsr
    <2>. QED BY <1>0, <2>1, HandlerGentle
  <1>. QED BY <1>1, <1>2, <1>3, <1>4, <1>5, <1>6 DEF Briefly

\* xTaskResumeAll, in a call that has waited or in vTaskDelay.
LEMMA ResumptionFacts ==
    ASSUME QueueInv, ResumeCall \/ ResumeAndYield
    PROVE  Continued(k', k) /\ k.uxSchedulerSuspended = 1
  <1>1. PICK p \in {"resumeCall", "resume"} : At(p) /\ k' = xTaskResumeAll(k).s
    BY DEF ResumeCall, ResumeAndYield
  <1>2. Finds(k.pxCurrentTCB, p)
    BY <1>1, AtFinds
  <1>3. KernelOK(k) /\ k.uxSchedulerSuspended = 1
    BY <1>2 DEF Finds, Alone
  <1>. QED BY <1>1, <1>3, ResumeContinues

\* The running task begins to wait.
LEMMA PlacementFacts ==
    ASSUME QueueInv, Place
    PROVE  LET c == call[cur]
               e == IF c.op \in Receivers THEN ToReceive(c.queue) ELSE ToSend(c.queue)
           IN  Within("place") /\ c.ticks \in 1..portMAX_DELAY /\ e \in Events
               /\ Joins(k', k, cur, {e}, c.ticks, TRUE)
  <1>. DEFINE c == call[cur]
              e == IF c.op \in Receivers THEN ToReceive(c.queue) ELSE ToSend(c.queue)
  <1>1. Within("place")
    BY WithinCall DEF Place, InQueue
  <1>2. /\ c \in CallRecord /\ c.ticks > 0 /\ IsReady(k, k.pxCurrentTCB) /\ KernelOK(k)
        /\ k.pxCurrentTCB \in Tasks /\ e \in Events
    BY <1>1 DEF Within, Patient, Processor, Leaving, cur, Alone
  <1>3. c.ticks \in 1..portMAX_DELAY
    BY <1>2, BoundsAssumption DEF CallRecord, portMAX_DELAY
  <1>4. k' = vTaskPlaceOnEventList(k, e, c.ticks)
    BY DEF Place
  <1>. HIDE DEF e
  <1>5. PICK n \in 1..portMAX_DELAY : n = c.ticks
    BY <1>3
  <1>6. Joins(k', k, cur, {e}, n, TRUE)
    BY <1>2, <1>4, <1>5, PlaceJoins DEF cur
  <1>. QED BY <1>1, <1>2, <1>3, <1>5, <1>6 DEF e

\* The running task begins a delay.
LEMMA DelayFacts ==
    ASSUME QueueInv, AddToDelayedList
    PROVE  arg[cur].ticks \in 1..portMAX_DELAY /\ Joins(k', k, cur, {}, arg[cur].ticks, FALSE)
  <1>1. Finds(cur, "add")
    BY AtFinds DEF AddToDelayedList, cur
  <1>2. /\ KernelOK(k) /\ IsReady(k, k.pxCurrentTCB) /\ arg[cur] \in Args /\ arg[cur].ticks > 0
        /\ cur \in Tasks
    BY <1>1 DEF Finds, CalledAt, Processor, Leaving, Threads
  <1>3. arg[cur].ticks \in 1..portMAX_DELAY
    BY <1>2, BoundsAssumption DEF Args, portMAX_DELAY
  <1>4. k' = prvAddCurrentTaskToDelayedList(k, arg[cur].ticks, FALSE)
    BY DEF AddToDelayedList
  <1>5. PICK n \in 1..portMAX_DELAY : n = arg[cur].ticks
    BY <1>3
  <1>6. Joins(k', k, cur, {}, n, FALSE)
    BY <1>2, <1>4, <1>5, DelayJoins DEF cur
  <1>. QED BY <1>3, <1>5, <1>6

\* The tick, and the switch it may ask for.
LEMMA TickEffect ==
    ASSUME QueueInv, Tick
    PROVE  \E m : Aged(m, k) /\ Gentle(k', m)
  <1>1. PICK r : r = xTaskIncrementTick(k) /\ HandlerEnd(r.s, r.switch)
    BY DEF Tick, TickIsr
  <1>2. KernelOK(r.s) /\ Aged(r.s, k)
    BY <1>1, IsrFacts, TickKeeps, TickAges
  <1>3. Gentle(k', r.s)
    <2>1. PICK n, w : n = r.s /\ w = r.switch
      OBVIOUS
    <2>. QED BY <1>1, <1>2, <2>1, HandlerGentle
  <1>. QED BY <1>2, <1>3

\* An interrupt wakes a task only where the queue is not locked.
LEMMA WakeIsrEffect ==
    ASSUME QueueInv, NEW e \in Events, NEW lock, WakeFromIsr(e, lock)
    PROVE  /\ Gentle(k', k)
           /\ lock = queueUNLOCKED =>
                \E m : m \in Kernel /\ k' \in Kernel /\ FirstWoken(m, k, e)
                       /\ Gentle(m, k) /\ Gentle(k', m)
  <1>0. KernelOK(k) /\ Gentle(k, k)
    BY IsrFacts, GentleSame
  <1>1. CASE lock = queueUNLOCKED
    <2>1. HandlerEnd(Wake(k, e).s, Wake(k, e).higher)
      BY <1>1 DEF WakeFromIsr
    <2>2. PICK n, w : n = Wake(k, e).s /\ w = Wake(k, e).higher
      OBVIOUS
    <2>3. KernelOK(n) /\ HandlerEnd(n, w) /\ Gentle(n, k) /\ FirstWoken(n, k, e)
      BY <1>0, <2>1, <2>2, WakeKeeps, WakeGentle
    <2>4. Gentle(k', n)
      BY <2>3, HandlerGentle
    <2>5. n \in Kernel /\ k' \in Kernel
      <3>1. AfterIsr(k', k, yieldReq, yieldReq')
        BY WakeIsr
      <3>. QED BY <2>3, <3>1 DEF AfterIsr, KernelOK
    <2>. QED BY <2>3, <2>4, <2>5, GentleTwice
  <1>2. CASE lock # queueUNLOCKED
    <2>1. HandlerEnd(k, FALSE)
      BY <1>2 DEF WakeFromIsr
    <2>. QED BY <1>0, <1>2, <2>1, HandlerGentle
  <1>. QED BY <1>1, <1>2

\* xTaskPriorityInherit raises the holder of a mutex, if anybody.
LEMMA InheritEffect ==
    ASSUME QueueInv, Inherit
    PROVE  \/ k' = k
           \/ \E x \in Queues, h \in Tasks, p \in Priorities :
                 q[x].xMutexHolder = h /\ Reprioritised(k', k, h, p)
  <1>. DEFINE x == call[cur].queue
              h == q[x].xMutexHolder
  <1>1. Within("inherit")
    BY WithinCall DEF Inherit, InQueue
  <1>2. KernelOK(k) /\ StoreOK(x, q[x]) /\ x \in Queues
    BY <1>1 DEF Within
  <1>3. h \in Tasks \cup {NoTask}
    BY <1>2 DEF StoreOK, Record
  <1>4. k' = xTaskPriorityInherit(k, h)
    BY DEF Inherit
  <1>5. k.uxPriority[k.pxCurrentTCB] \in Priorities
    BY <1>2, PriorityTypes
  <1>6. PICK p \in Priorities : p = k.uxPriority[k.pxCurrentTCB]
    BY <1>5
  <1>9. PICK g : g = h
    OBVIOUS
  <1>7. k' = k \/ (g \in Tasks /\ k' = ChangePriority(k, g, p))
    BY <1>3, <1>4, <1>6, <1>9 DEF xTaskPriorityInherit
  <1>8. g \in Tasks => Reprioritised(ChangePriority(k, g, p), k, g, p)
    BY <1>2, ChangeGentle
  <1>. QED BY <1>2, <1>6, <1>7, <1>8, <1>9

\* vTaskPriorityDisinheritAfterTimeout, likewise.
LEMMA DisinheritEffect ==
    ASSUME QueueInv, DisinheritAfterTimeout
    PROVE  \/ k' = k
           \/ \E x \in Queues, h \in Tasks, p \in Priorities :
                 q[x].xMutexHolder = h /\ Reprioritised(k', k, h, p)
  <1>. DEFINE x == call[cur].queue
              h == q[x].xMutexHolder
              y == prvGetDisinheritPriorityAfterTimeout(x)
  <1>1. Within("disinherit")
    BY WithinCall DEF DisinheritAfterTimeout, InQueue
  <1>2. KernelOK(k) /\ StoreOK(x, q[x]) /\ x \in Queues /\ QueueInv /\ ToReceive(x) \in Events
    BY <1>1 DEF Within
  <1>3. h \in Tasks \cup {NoTask}
    BY <1>2 DEF StoreOK, Record
  <1>4. y \in Priorities
    <2>. DEFINE l == k.xTasksWaiting[ToReceive(x)]
    <2>1. l \in Seq(Tasks)
      BY <1>2 DEF KernelOK, Kernel, Distinct
    <2>2. l # <<>> => k.uxPriority[Head(l)] \in Priorities
      <3>. HIDE DEF l
      <3>1. l # <<>> => Head(l) \in Tasks
        BY <2>1
      <3>. QED BY <1>2, <3>1, PriorityTypes DEF Threads
    <2>3. 0 \in Priorities
      BY BoundsAssumption DEF Priorities
    <2>. QED BY <2>2, <2>3 DEF prvGetDisinheritPriorityAfterTimeout
  <1>5. PICK g, z : g = h /\ z = y
    OBVIOUS
  <1>6. k' = vTaskPriorityDisinheritAfterTimeout(k, g, z)
    BY <1>5 DEF DisinheritAfterTimeout
  <1>7. k' = k \/ (g \in Tasks /\ \E p \in Priorities : k' = ChangePriority(k, g, p))
    <2>1. CASE k' = k
      BY <2>1
    <2>2. CASE g # NoTask /\ k' = ChangePriority(k, g, IF InitialPriority[g] < z THEN z ELSE InitialPriority[g])
      <3>1. PICK i \in Priorities : i = IF InitialPriority[g] < z THEN z ELSE InitialPriority[g]
        BY <1>2, <1>3, <1>4, <1>5, <2>2, InitialPriorityType DEF Threads
      <3>. QED BY <1>3, <1>5, <2>2, <3>1
    <2>. QED BY <1>6, <2>1, <2>2 DEF vTaskPriorityDisinheritAfterTimeout
  <1>8. \A p \in Priorities : g \in Tasks => Reprioritised(ChangePriority(k, g, p), k, g, p)
    BY <1>2, ChangeGentle
  <1>. QED BY <1>2, <1>5, <1>7, <1>8

(***************************************************************************)
(* The time of a call.                                                     *)
(***************************************************************************)
\* the ticks since the entry time, of which the last b are yet to be counted
Given(c, a, b) == (IF c.overflowed THEN a + Wrap - c.entered ELSE a - c.entered) + b

\* c has waited for the part of the time it asked for that is not left to it
Timely(c, a, b) ==
    IF c.asked = portMAX_DELAY THEN c.ticks = portMAX_DELAY
    ELSE /\ c.entered \in 0..portMAX_DELAY /\ c.ticks <= c.asked
         /\ c.ticks = 0 => c.waited >= c.asked
         /\ ~ c.overflowed => c.entered <= a
         /\ c.ticks > 0 => c.waited = Wrap \/ c.waited = c.asked - c.ticks + Given(c, a, b)

\* the call c of a task at p, when the tick count is a and b ticks are pended
Ages(p, c, a, b) ==
    /\ c.waited \in 0..Wrap
    /\ p \in {"run", "add", "resume", "yield"} => c = NoCall
    /\ p \in InQueue => Timely(c, a, b)
    /\ p \in {"expired", "disinherit"} \/ (p \in Leaving /\ c.after = "expired") => c.ticks = 0
    /\ p \in {"recheck", "inherit", "place"} /\ c.asked # portMAX_DELAY =>
           ~ c.overflowed /\ c.entered = a
    /\ p = "done" /\ c.answer = Failed => c.asked # portMAX_DELAY /\ c.waited >= c.asked
Ageing == \A t \in Threads : Ages(kpc[t], call[t], k.xTickCount, k.xPendedTicks)

\* the fields time is reckoned with
Reckoned(c) == /\ c.asked \in 0..portMAX_DELAY /\ c.ticks \in 0..portMAX_DELAY
               /\ c.overflowed \in BOOLEAN

\* The fields of a call record are in their ranges.
LEMMA CallsReckoned == \A c \in CallRecord : Reckoned(c)
  BY DEF CallRecord, Reckoned

\* d is c after ticks that make the count overflow or not, w of them counted in all
Older(d, c, w, o) ==
    /\ d.op = c.op /\ d.queue = c.queue /\ d.asked = c.asked /\ d.ticks = c.ticks
    /\ d.entered = c.entered
    /\ d.after = c.after /\ d.answer = c.answer
    /\ d.waited = w /\ d.overflowed \in BOOLEAN /\ (d.overflowed <=> c.overflowed \/ o)

\* A timer interrupt, counted or put off.
LEMMA TimelyTick ==
    ASSUME NEW c, Reckoned(c), c.waited \in 0..Wrap, NEW a \in 0..portMAX_DELAY, NEW b \in Nat,
           Timely(c, a, b), NEW a2, NEW b2,
           (a2 = Advanced(a, 1) /\ b2 = b) \/ (a2 = a /\ b2 = b + 1),
           NEW d, Older(d, c, Counted(c.waited), a2 < a)
    PROVE  Timely(d, a2, b2)
  <1>1. Wrap \in Nat /\ Wrap > 1 /\ portMAX_DELAY = Wrap - 1
    BY BoundsAssumption DEF portMAX_DELAY
  <1>2. CASE c.asked = portMAX_DELAY
    BY <1>2 DEF Timely, Older
  <1>3. CASE c.asked # portMAX_DELAY
    <2>1. PICK n, x, e, w \in Nat : n = c.asked /\ x = c.ticks /\ e = c.entered /\ w = c.waited
      BY <1>1, <1>3 DEF Timely, Reckoned
    <2>2. PICK v \in Nat : v = Counted(w) /\ v = IF w < Wrap THEN w + 1 ELSE w
      BY <2>1 DEF Counted
    <2>3. PICK o \in BOOLEAN : o <=> c.overflowed
      BY DEF Reckoned
    <2>4. /\ n < Wrap /\ x <= n /\ e < Wrap /\ w <= Wrap /\ a < Wrap
          /\ x = 0 => w >= n
          /\ ~ o => e <= a
          /\ x > 0 /\ o => w = Wrap \/ w = n - x + ((a + Wrap - e) + b)
          /\ x > 0 /\ ~ o => w = Wrap \/ w = n - x + ((a - e) + b)
      BY <1>1, <1>3, <2>1, <2>3 DEF Timely, Reckoned, Given
    <2>5. \/ a + 1 < Wrap /\ a2 = a + 1 /\ b2 = b
          \/ a + 1 = Wrap /\ a2 = 0 /\ b2 = b
          \/ a2 = a /\ b2 = b + 1
      BY <1>1, <2>4 DEF Advanced
    <2>6. PICK o2 \in BOOLEAN : (o2 <=> d.overflowed) /\ (o2 <=> o \/ a2 < a)
      BY <2>3 DEF Older
    <2>7. x = 0 => v >= n
      BY <2>2, <2>4
    <2>8. ~ o2 => e <= a2
      BY <2>4, <2>5, <2>6
    <2>9. /\ x > 0 /\ o2 => v = Wrap \/ v = n - x + ((a2 + Wrap - e) + b2)
          /\ x > 0 /\ ~ o2 => v = Wrap \/ v = n - x + ((a2 - e) + b2)
      <3>1. CASE o
        BY <1>1, <2>2, <2>4, <2>5, <2>6, <3>1
      <3>2. CASE ~ o /\ a2 < a
        BY <1>1, <2>2, <2>4, <2>5, <2>6, <3>2
      <3>3. CASE ~ o /\ ~ (a2 < a)
        BY <1>1, <2>2, <2>4, <2>5, <2>6, <3>3
      <3>. QED BY <3>1, <3>2, <3>3
    <2>10. d.asked = n /\ d.ticks = x /\ d.entered = e /\ d.waited = v
      BY <2>1, <2>2 DEF Older
    <2>. QED BY <1>1, <1>3, <2>1, <2>4, <2>6, <2>7, <2>8, <2>9, <2>10 DEF Timely, Given
  <1>. QED BY <1>2, <1>3

\* xTaskResumeAll counts the ticks that were put off.
LEMMA TimelyResume ==
    ASSUME NEW c, Reckoned(c), c.waited \in 0..Wrap, NEW a \in 0..portMAX_DELAY, NEW b \in Nat,
           Timely(c, a, b), NEW a2 \in 0..portMAX_DELAY, b < Wrap => a2 = Advanced(a, b),
           NEW d, Older(d, c, c.waited, a2 < a)
    PROVE  Timely(d, a2, 0)
  <1>1. Wrap \in Nat /\ Wrap > 1 /\ portMAX_DELAY = Wrap - 1
    BY BoundsAssumption DEF portMAX_DELAY
  <1>2. CASE c.asked = portMAX_DELAY
    BY <1>2 DEF Timely, Older
  <1>3. CASE c.asked # portMAX_DELAY
    <2>1. PICK n, x, e, w \in Nat : n = c.asked /\ x = c.ticks /\ e = c.entered /\ w = c.waited
      BY <1>1, <1>3 DEF Timely, Reckoned
    <2>3. PICK o \in BOOLEAN : o <=> c.overflowed
      BY DEF Reckoned
    <2>4. /\ n < Wrap /\ x <= n /\ e < Wrap /\ w <= Wrap /\ a < Wrap /\ a2 < Wrap
          /\ x = 0 => w >= n
          /\ ~ o => e <= a
          /\ x > 0 /\ o => w = Wrap \/ w = n - x + ((a + Wrap - e) + b)
          /\ x > 0 /\ ~ o => w = Wrap \/ w = n - x + ((a - e) + b)
      BY <1>1, <1>3, <2>1, <2>3 DEF Timely, Reckoned, Given
    <2>5. \/ b < Wrap /\ a + b < Wrap /\ a2 = a + b
          \/ b < Wrap /\ a + b >= Wrap /\ a2 = a + b - Wrap
          \/ b >= Wrap
      BY <1>1, <2>4 DEF Advanced
    <2>6. PICK o2 \in BOOLEAN : (o2 <=> d.overflowed) /\ (o2 <=> o \/ a2 < a)
      BY <2>3 DEF Older
    <2>8. ~ o2 => e <= a2
      BY <2>4, <2>6
    <2>9. /\ x > 0 /\ o2 => w = Wrap \/ w = n - x + ((a2 + Wrap - e) + 0)
          /\ x > 0 /\ ~ o2 => w = Wrap \/ w = n - x + ((a2 - e) + 0)
      <3>1. CASE b >= Wrap
        BY <1>1, <2>4, <3>1
      <3>2. CASE b < Wrap /\ o
        BY <1>1, <2>4, <2>5, <2>6, <3>2
      <3>3. CASE b < Wrap /\ ~ o
        BY <1>1, <2>4, <2>5, <2>6, <3>3
      <3>. QED BY <1>1, <3>1, <3>2, <3>3
    <2>10. d.asked = n /\ d.ticks = x /\ d.entered = e /\ d.waited = w
      BY <2>1 DEF Older
    <2>. QED BY <1>1, <1>3, <2>1, <2>4, <2>6, <2>8, <2>9, <2>10 DEF Timely, Given
  <1>. QED BY <1>2, <1>3

\* d is the call c with the time that is left to it
Renewed(d, c) == /\ d.asked = c.asked /\ d.waited = c.waited /\ d.overflowed = FALSE
                 /\ d.ticks = c.ticks - Elapsed(c) /\ d.entered = k.xTickCount

\* xTaskCheckForTimeOut: too early, and the time left starts anew.
LEMMA RemainingTimely ==
    ASSUME KernelOK(k), NEW c \in CallRecord, c.asked # portMAX_DELAY, c.waited \in 0..Wrap,
           Timely(c, k.xTickCount, k.xPendedTicks), c.ticks > 0, ~ TimedOut(c)
    PROVE  /\ c.ticks - Elapsed(c) \in 1..portMAX_DELAY
           /\ \A d : Renewed(d, c) => Timely(d, k.xTickCount, k.xPendedTicks)
  <1>1. Wrap \in Nat /\ Wrap > 1 /\ portMAX_DELAY = Wrap - 1
    BY BoundsAssumption DEF portMAX_DELAY
  <1>0. k.xTickCount \in 0..portMAX_DELAY /\ k.xPendedTicks \in Nat
    BY DEF KernelOK, Kernel
  <1>2. PICK n, x, e, w, a, b \in Nat :
            /\ n = c.asked /\ x = c.ticks /\ e = c.entered /\ w = c.waited
            /\ a = k.xTickCount /\ b = k.xPendedTicks
    BY <1>0, <1>1 DEF Timely, CallRecord
  <1>3. PICK o \in BOOLEAN : o <=> c.overflowed
    BY DEF CallRecord
  <1>4. /\ n < Wrap /\ x <= n /\ x > 0 /\ e < Wrap /\ w <= Wrap /\ a < Wrap
        /\ ~ o => e <= a
        /\ o => w = Wrap \/ w = n - x + ((a + Wrap - e) + b)
        /\ ~ o => w = Wrap \/ w = n - x + ((a - e) + b)
    BY <1>0, <1>1, <1>2, <1>3 DEF Timely, CallRecord, Given
  <1>5. Elapsed(c) = (a - e) % Wrap
    BY <1>2 DEF Elapsed
  <1>6. PICK g \in Nat : g = Elapsed(c) /\ g = IF a >= e THEN a - e ELSE a - e + Wrap
    <2>1. CASE a >= e
      <3>1. PICK y \in Nat : y = a - e
        BY <2>1
      <3>2. y % Wrap = y
        BY <1>1, <1>4, <3>1, WrapOnce
      <3>. QED BY <1>5, <2>1, <3>1, <3>2
    <2>2. CASE a < e
      <3>1. (a - e) % Wrap = a - e + Wrap
        BY <1>1, <1>4, <2>2
      <3>. QED BY <1>1, <1>4, <1>5, <2>2, <3>1
    <2>. QED BY <2>1, <2>2
  <1>7. ~ (o /\ a >= e) /\ g < x
    BY <1>2, <1>3, <1>6 DEF TimedOut
  <1>8. x - g \in 1..portMAX_DELAY
    BY <1>1, <1>4, <1>6, <1>7
  <1>9. w = Wrap \/ w = n - (x - g) + b
    <2>1. CASE o
      <3>1. g = a - e + Wrap
        BY <1>1, <1>6, <1>7, <2>1
      <3>. QED BY <1>1, <1>4, <2>1, <3>1
    <2>2. CASE ~ o
      <3>1. g = a - e
        BY <1>4, <1>6, <2>2
      <3>. QED BY <1>1, <1>4, <2>2, <3>1
    <2>. QED BY <2>1, <2>2
  <1>10. ASSUME NEW d, Renewed(d, c)
         PROVE  Timely(d, a, b)
    <2>0. d.asked = n /\ d.waited = w /\ ~ d.overflowed /\ d.ticks = x - g /\ d.entered = a
      BY <1>2, <1>6, <1>10 DEF Renewed
    <2>1. PICK y \in Nat : y = x - g /\ y > 0 /\ y <= n
      BY <1>4, <1>6, <1>8
    <2>2. Given(d, a, b) = b
      BY <2>0 DEF Given
    <2>3. w = Wrap \/ w = n - y + b
      BY <1>9, <2>1
    <2>. QED BY <1>1, <1>2, <1>4, <2>0, <2>1, <2>2, <2>3 DEF Timely
  <1>. QED BY <1>2, <1>6, <1>8, <1>10

\* xTaskCheckForTimeOut: the time is over, and the call has waited for it.
LEMMA TimedOutWaited ==
    ASSUME KernelOK(k), NEW c \in CallRecord, c.asked # portMAX_DELAY, c.waited \in 0..Wrap,
           Timely(c, k.xTickCount, k.xPendedTicks), c.ticks > 0, TimedOut(c)
    PROVE  c.waited >= c.asked
  <1>1. Wrap \in Nat /\ Wrap > 1 /\ portMAX_DELAY = Wrap - 1
    BY BoundsAssumption DEF portMAX_DELAY
  <1>0. k.xTickCount \in 0..portMAX_DELAY /\ k.xPendedTicks \in Nat
    BY DEF KernelOK, Kernel
  <1>2. PICK n, x, e, w, a, b \in Nat :
            /\ n = c.asked /\ x = c.ticks /\ e = c.entered /\ w = c.waited
            /\ a = k.xTickCount /\ b = k.xPendedTicks
    BY <1>0, <1>1 DEF Timely, CallRecord
  <1>3. PICK o \in BOOLEAN : o <=> c.overflowed
    BY DEF CallRecord
  <1>4. /\ n < Wrap /\ x <= n /\ x > 0 /\ e < Wrap /\ w <= Wrap /\ a < Wrap
        /\ ~ o => e <= a
        /\ o => w = Wrap \/ w = n - x + ((a + Wrap - e) + b)
        /\ ~ o => w = Wrap \/ w = n - x + ((a - e) + b)
    BY <1>0, <1>1, <1>2, <1>3 DEF Timely, CallRecord, Given
  <1>5. Elapsed(c) = (a - e) % Wrap
    BY <1>2 DEF Elapsed
  <1>6. PICK g \in Nat : g = Elapsed(c) /\ g = IF a >= e THEN a - e ELSE a - e + Wrap
    <2>1. CASE a >= e
      <3>1. PICK y \in Nat : y = a - e
        BY <2>1
      <3>2. y % Wrap = y
        BY <1>1, <1>4, <3>1, WrapOnce
      <3>. QED BY <1>5, <2>1, <3>1, <3>2
    <2>2. CASE a < e
      <3>1. (a - e) % Wrap = a - e + Wrap
        BY <1>1, <1>4, <2>2
      <3>. QED BY <1>1, <1>4, <1>5, <2>2, <3>1
    <2>. QED BY <2>1, <2>2
  <1>7. (o /\ a >= e) \/ g >= x
    BY <1>2, <1>3, <1>6 DEF TimedOut
  <1>8. w >= n
    BY <1>1, <1>4, <1>6, <1>7
  <1>. QED BY <1>2, <1>8

SameLocks(n, s) == n.cTxLock = s.cTxLock /\ n.cRxLock = s.cRxLock

\* The copies count, and leave the locks alone.
LEMMA CopyCounts ==
    ASSUME NEW x \in Queues, NEW s \in Store(x), NEW n, NEW v
    PROVE  /\ SameLocks(CopyToBack(s, n, v), s) /\ SameLocks(CopyToFront(s, n, v), s)
           /\ SameLocks(Overwrite(s, n, v), s) /\ SameLocks(CopyFrom(s, n), s)
           /\ CopyToBack(s, n, v).uxMessagesWaiting = s.uxMessagesWaiting + 1
           /\ CopyToFront(s, n, v).uxMessagesWaiting = s.uxMessagesWaiting + 1
           /\ CopyFrom(s, n).uxMessagesWaiting = s.uxMessagesWaiting - 1
           /\ Overwrite(s, n, v).uxMessagesWaiting
                 = IF s.uxMessagesWaiting > 0 THEN s.uxMessagesWaiting + 1 - 1
                   ELSE s.uxMessagesWaiting + 1
  <1>1. /\ SameLocks(CopyToBack(s, n, v), s) /\ SameLocks(CopyFrom(s, n), s)
        /\ CopyToBack(s, n, v).uxMessagesWaiting = s.uxMessagesWaiting + 1
        /\ CopyFrom(s, n).uxMessagesWaiting = s.uxMessagesWaiting - 1
    BY DEF Store, Record, CopyToBack, CopyFrom, SameLocks
  <1>2. /\ SameLocks(CopyToFront(s, n, v), s)
        /\ CopyToFront(s, n, v).uxMessagesWaiting = s.uxMessagesWaiting + 1
    BY DEF Store, Record, CopyToFront, SameLocks
  <1>3. /\ SameLocks(Overwrite(s, n, v), s)
        /\ Overwrite(s, n, v).uxMessagesWaiting
              = IF s.uxMessagesWaiting > 0 THEN s.uxMessagesWaiting + 1 - 1
                ELSE s.uxMessagesWaiting + 1
    BY DEF Store, Record, CopyToFront, Overwrite, SameLocks
  <1>. QED BY <1>1, <1>2, <1>3

\* A send uses up a place, or the only one.
LEMMA SendCounts ==
    ASSUME NEW c, Legal(c), c.op \in Senders, NEW x \in Queues, x = c.queue, StoreOK(x, q[x])
    PROVE  LET n == prvCopyDataToQueue(x, c) IN
           /\ SameLocks(n, q[x]) /\ n.uxMessagesWaiting \in Int
           /\ n.uxMessagesWaiting <= q[x].uxMessagesWaiting + 1
           /\ \/ n.uxMessagesWaiting >= q[x].uxMessagesWaiting + 1
              \/ n.uxMessagesWaiting >= uxLength[x]
  <1>. DEFINE n == prvCopyDataToQueue(x, c)
              s == q[x]
  <1>1. s \in Store(x) /\ uxLength[x] \in Nat \ {0}
    BY LengthFacts DEF StoreOK, Store, Stored
  <1>2. s.uxMessagesWaiting \in Int
    BY <1>1 DEF Store, Record
  <1>3. CASE c.op = "give"
    <2>1. \/ n = [s EXCEPT !.uxMessagesWaiting = @ + 1, !.xMutexHolder = NoTask]
          \/ n = [s EXCEPT !.uxMessagesWaiting = @ + 1]
      BY <1>3 DEF prvCopyDataToQueue
    <2>. HIDE DEF n, s
    <2>2. SameLocks(n, s) /\ n.uxMessagesWaiting = s.uxMessagesWaiting + 1
      BY <1>1, <2>1 DEF Store, Record, SameLocks
    <2>. QED BY <1>2, <2>2 DEF n, s
  <1>4. CASE c.op \in {"send", "front"}
    <2>1. n = CopyToBack(s, uxLength[x], c.item) \/ n = CopyToFront(s, uxLength[x], c.item)
      BY <1>4 DEF prvCopyDataToQueue
    <2>. HIDE DEF n, s
    <2>2. SameLocks(n, s) /\ n.uxMessagesWaiting = s.uxMessagesWaiting + 1
      BY <1>1, <2>1, CopyCounts
    <2>. QED BY <1>2, <2>2 DEF n, s
  <1>5. CASE c.op = "overwrite"
    <2>1. n = Overwrite(s, uxLength[x], c.item) /\ uxLength[x] = 1
      BY <1>5 DEF prvCopyDataToQueue, Legal
    <2>. HIDE DEF n, s
    <2>2. /\ SameLocks(n, s)
          /\ n.uxMessagesWaiting = IF s.uxMessagesWaiting > 0 THEN s.uxMessagesWaiting + 1 - 1
                                   ELSE s.uxMessagesWaiting + 1
      BY <1>1, <2>1, CopyCounts
    <2>. QED BY <1>2, <2>1, <2>2 DEF n, s
  <1>. QED BY <1>3, <1>4, <1>5 DEF Senders

\* A receive, or a take, leaves one item fewer.
LEMMA ReceiveCounts ==
    ASSUME NEW x \in Queues, StoreOK(x, q[x])
    PROVE  LET n == prvCopyDataFromQueue(x) IN
           /\ SameLocks(n, q[x]) /\ n.uxMessagesWaiting = q[x].uxMessagesWaiting - 1
           /\ \A h : LET m == [n EXCEPT !.xMutexHolder = h] IN
                     SameLocks(m, q[x]) /\ m.uxMessagesWaiting = q[x].uxMessagesWaiting - 1
  <1>. DEFINE s == q[x]
              n == prvCopyDataFromQueue(x)
  <1>1. s \in Store(x)
    BY DEF StoreOK, Store, Stored
  <1>2. n \in Store(x) /\ SameLocks(n, s) /\ n.uxMessagesWaiting = s.uxMessagesWaiting - 1
    <2>1. CASE x \in Buffers
      <3>1. n = CopyFrom(s, uxLength[x]) /\ WellFormed(s, uxLength[x], Stored)
        BY <2>1 DEF prvCopyDataFromQueue, StoreOK, Stored
      <3>2. NoItem \in Stored
        BY DEF Stored
      <3>. HIDE DEF n, s
      <3>. QED BY <1>1, <3>1, <3>2, CopyCounts, CopyTypes
    <2>2. CASE x \notin Buffers
      <3>1. n = [s EXCEPT !.uxMessagesWaiting = @ - 1]
        BY <2>2 DEF prvCopyDataFromQueue
      <3>. HIDE DEF n, s
      <3>. QED BY <1>1, <3>1 DEF Store, Record, SameLocks
    <2>. QED BY <2>1, <2>2
  <1>. HIDE DEF n, s
  <1>3. \A h : LET m == [n EXCEPT !.xMutexHolder = h] IN
               SameLocks(m, s) /\ m.uxMessagesWaiting = s.uxMessagesWaiting - 1
    BY <1>2 DEF Store, Record, SameLocks
  <1>. QED BY <1>2, <1>3 DEF n, s
==============================================================================
