-------------------------- MODULE Scheduler_lemmas ---------------------------
(***************************************************************************)
(* Lemmas about the operators Scheduler is built from: what the list       *)
(* operations of list.c and the functions of tasks.c do to a kernel state, *)
(* for every state of the kernel. RdyAt, DItems, OItems, Wts and Pnd are   *)
(* the contents of the lists as sets; TaskOK, ListsOK, TimesOK and LeftOK  *)
(* the parts of the inductive invariant that are about the lists, the wake *)
(* times and the delays.                                                   *)
(*                                                                         *)
(* IInv, the inductive invariant of Scheduler, and the proof that it holds *)
(* at first come next; Scheduler_proofs shows that every step keeps it.    *)
(*                                                                         *)
(* The last two parts are what Queue_lemmas uses of the same functions.    *)
(* There the calls of Scheduler are not in the way, and what stays true of *)
(* the kernel alone is KernelOK; and for each function, who begins or ends *)
(* to wait and what becomes of the delays.                                 *)
(***************************************************************************)
EXTENDS Scheduler, TLAPS, FiniteSetTheorems, SequenceTheorems

Distinct(S) == {s \in Seq(S) : \A i, j \in 1..Len(s) : s[i] = s[j] => i = j}

\* A non-empty set of natural numbers has a least element.
LEMMA LeastNumber ==
  ASSUME NEW S \in SUBSET Nat, S # {}
  PROVE  \E m \in S : \A i \in S : m <= i
<1> DEFINE T == {0..n : n \in S}
<1>1. \A n \in S : 0..n \in SUBSET Nat /\ IsFiniteSet(0..n)
  BY FS_Interval
<1>2. T \subseteq FiniteSubsetsOf(Nat) /\ T # {}
  BY <1>1 DEF FiniteSubsetsOf
<1> HIDE DEF T
<1>3. PICK X \in T : \A Y \in T : ~ (<<Y, X>> \in StrictSubsetOrdering(Nat))
  BY <1>2, WFMin, FS_StrictSubsetOrderingWellFounded
<1>4. PICK m \in S : X = 0..m
  BY DEF T
<1>5. ASSUME NEW i \in S, i < m PROVE FALSE
  <2>1. 0..i \in T BY DEF T
  <2>2. 0..i \in SUBSET Nat /\ 0..m \in SUBSET Nat /\ 0..i \subseteq 0..m /\ 0..i # 0..m
    <3>1. m \in 0..m /\ m \notin 0..i BY <1>5
    <3> QED BY <3>1, <1>5
  <2>3. <<0..i, X>> \in StrictSubsetOrdering(Nat)
    BY <2>2, <1>4 DEF StrictSubsetOrdering
  <2> QED BY <1>3, <2>1, <2>3
<1> QED BY <1>5

\* Induction over the natural numbers, for a set S instead of a predicate.
LEMMA Induct ==
  ASSUME NEW S, 0 \in S, \A n \in Nat : n \in S => n + 1 \in S
  PROVE  Nat \subseteq S
<1> SUFFICES ASSUME Nat \ S # {} PROVE FALSE OBVIOUS
<1>1. PICK m \in Nat \ S : \A i \in Nat \ S : m <= i BY LeastNumber
<1>2. m - 1 \in Nat /\ m - 1 \in S BY <1>1
<1> QED BY <1>1, <1>2

\* RemoveAt takes the i-th item out and closes the gap.
LEMMA RemoveAtFacts ==
  ASSUME NEW S, NEW s \in Seq(S), NEW i \in 1..Len(s)
  PROVE  /\ RemoveAt(s, i) \in Seq(S) /\ Len(RemoveAt(s, i)) = Len(s) - 1
         /\ \A j \in 1..(Len(s) - 1) : RemoveAt(s, i)[j] = IF j < i THEN s[j] ELSE s[j + 1]
<1> DEFINE a == SubSeq(s, 1, i - 1)
           b == SubSeq(s, i + 1, Len(s))
<1>1. a \in Seq(S) /\ Len(a) = i - 1 /\ \A j \in 1..(i - 1) : a[j] = s[j]
  OBVIOUS
<1>2. b \in Seq(S) /\ Len(b) = Len(s) - i /\ \A j \in 1..(Len(s) - i) : b[j] = s[i + j]
  OBVIOUS
<1> HIDE DEF a, b
<1>3. RemoveAt(s, i) = a \o b
  BY DEF RemoveAt, a, b
<1> DEFINE c == a \o b
<1>4. /\ c \in Seq(S) /\ Len(c) = Len(a) + Len(b)
      /\ \A j \in 1..(Len(a) + Len(b)) : c[j] = IF j <= Len(a) THEN a[j] ELSE b[j - Len(a)]
  BY <1>1, <1>2, ConcatProperties
<1>5. ASSUME NEW j \in 1..(Len(s) - 1)
      PROVE  c[j] = IF j < i THEN s[j] ELSE s[j + 1]
  <2> HIDE DEF c
  <2>1. Len(s) \in Nat /\ i \in Nat /\ j \in Nat /\ j \in 1..(Len(a) + Len(b))
    BY <1>1, <1>2
  <2>2. CASE j < i
    BY <1>1, <1>4, <2>1, <2>2
  <2>3. CASE j >= i
    <3>1. c[j] = b[j - (i - 1)] /\ j - (i - 1) \in 1..(Len(s) - i)
      BY <1>1, <1>2, <1>4, <2>1, <2>3
    <3>2. i + (j - (i - 1)) = j + 1
      BY <2>1
    <3> QED
      BY <1>2, <2>1, <2>3, <3>1, <3>2
  <2> QED
    BY <2>1, <2>2, <2>3
<1>6. Len(c) = Len(s) - 1
  BY <1>1, <1>2, <1>4
<1> HIDE DEF c
<1>7. QED
  BY <1>3, <1>4, <1>5, <1>6 DEF c

\* InsertAt puts x before the i-th item.
LEMMA InsertAtFacts ==
  ASSUME NEW S, NEW s \in Seq(S), NEW i \in 1..(Len(s) + 1), NEW x \in S
  PROVE  /\ InsertAt(s, i, x) \in Seq(S) /\ Len(InsertAt(s, i, x)) = Len(s) + 1
         /\ \A j \in 1..(Len(s) + 1) :
              InsertAt(s, i, x)[j] = IF j < i THEN s[j] ELSE IF j = i THEN x ELSE s[j - 1]
<1> DEFINE a == SubSeq(s, 1, i - 1)
           b == SubSeq(s, i, Len(s))
<1>1. a \in Seq(S) /\ Len(a) = i - 1 /\ \A j \in 1..(i - 1) : a[j] = s[j]
  OBVIOUS
<1>2. b \in Seq(S) /\ Len(b) = Len(s) - i + 1
      /\ \A j \in 1..(Len(s) - i + 1) : b[j] = s[i + j - 1]
  OBVIOUS
<1> HIDE DEF a, b
<1> DEFINE u == <<x>>
           c == a \o u
<1>3. c \in Seq(S) /\ Len(c) = i /\ \A j \in 1..i : c[j] = IF j < i THEN s[j] ELSE x
  <2>1. u \in Seq(S) /\ Len(u) = 1 /\ u[1] = x
    OBVIOUS
  <2> HIDE DEF u
  <2>2. /\ c \in Seq(S) /\ Len(c) = Len(a) + Len(u)
        /\ \A j \in 1..(Len(a) + Len(u)) : c[j] = IF j <= Len(a) THEN a[j] ELSE u[j - Len(a)]
    BY <1>1, <2>1, ConcatProperties
  <2> QED
    BY <1>1, <2>1, <2>2
<1> HIDE DEF c
<1>4. InsertAt(s, i, x) = c \o b
  BY DEF InsertAt, a, b, c, u
<1> DEFINE d == c \o b
<1>5. /\ d \in Seq(S) /\ Len(d) = Len(c) + Len(b)
      /\ \A j \in 1..(Len(c) + Len(b)) : d[j] = IF j <= Len(c) THEN c[j] ELSE b[j - Len(c)]
  BY <1>2, <1>3, ConcatProperties
<1> HIDE DEF d
<1>6. ASSUME NEW j \in 1..(Len(s) + 1)
      PROVE  d[j] = IF j < i THEN s[j] ELSE IF j = i THEN x ELSE s[j - 1]
  <2>1. Len(s) \in Nat /\ i \in Nat /\ j \in Nat /\ j \in 1..(Len(c) + Len(b))
    BY <1>2, <1>3
  <2>2. CASE j <= i
    BY <1>3, <1>5, <2>1, <2>2
  <2>3. CASE j > i
    <3>1. d[j] = b[j - i] /\ j - i \in 1..(Len(s) - i + 1)
      BY <1>2, <1>3, <1>5, <2>1, <2>3
    <3>2. i + (j - i) - 1 = j - 1
      BY <2>1
    <3> QED
      BY <1>2, <2>1, <2>3, <3>1, <3>2
  <2> QED
    BY <2>1, <2>2, <2>3
<1>7. Len(d) = Len(s) + 1
  BY <1>2, <1>3, <1>5
<1>8. QED
  BY <1>4, <1>5, <1>6, <1>7 DEF d

(***************************************************************************)
(* Lists.                                                                  *)
(***************************************************************************)
RList == {l \in [items : Distinct(Threads), index : Nat] : l.index <= Len(l.items)}
DList == {s \in Seq(Item) :
            /\ \A i, j \in 1..Len(s) : s[i].owner = s[j].owner => i = j
            /\ \A i, j \in 1..Len(s) : i <= j => s[i].value <= s[j].value}

\* Position finds t in a list, or is 0.
LEMMA SelectTask ==
  ASSUME NEW s, NEW t, Len(s) \in Nat
  PROVE  LET i == Position(s, t)
         IN  /\ i \in 0..Len(s)
             /\ i = 0 => \A j \in 1..Len(s) : s[j] # t
             /\ i # 0 => s[i] = t
<1> DEFINE I == {j \in 1..Len(s) : s[j] = t}
<1>1. I # {} => \E m \in I : \A j \in I : m <= j
  <2> I \in SUBSET Nat OBVIOUS
  <2> QED BY LeastNumber
<1>2. Position(s, t) = IF I # {} THEN Min(I) ELSE 0
  BY DEF SelectInSeq, Position
<1>3. I # {} => Min(I) \in I
  BY <1>1 DEF Min
<1> QED BY <1>2, <1>3

\* OwnerPosition finds an item of t in a delayed list, or is 0.
LEMMA SelectOwner ==
  ASSUME NEW s, NEW t, Len(s) \in Nat
  PROVE  LET i == OwnerPosition(s, t)
         IN  /\ i \in 0..Len(s)
             /\ i = 0 => \A j \in 1..Len(s) : s[j].owner # t
             /\ i # 0 => s[i].owner = t
<1> DEFINE I == {j \in 1..Len(s) : s[j].owner = t}
<1>1. I # {} => \E m \in I : \A j \in I : m <= j
  <2> I \in SUBSET Nat OBVIOUS
  <2> QED BY LeastNumber
<1>2. OwnerPosition(s, t) = IF I # {} THEN Min(I) ELSE 0
  BY DEF SelectInSeq, OwnerPosition
<1>3. I # {} => Min(I) \in I
  BY <1>1 DEF Min
<1> QED BY <1>2, <1>3

\* FirstLater finds the first item with a value above v, or is 0.
LEMMA SelectLater ==
  ASSUME NEW s, NEW v, Len(s) \in Nat
  PROVE  LET i == FirstLater(s, v)
         IN  /\ i \in 0..Len(s)
             /\ i = 0 => \A j \in 1..Len(s) : ~ (s[j].value > v)
             /\ i # 0 => s[i].value > v /\ \A j \in 1..(i - 1) : ~ (s[j].value > v)
<1> DEFINE I == {j \in 1..Len(s) : s[j].value > v}
<1>1. I # {} => \E m \in I : \A j \in I : m <= j
  <2> I \in SUBSET Nat OBVIOUS
  <2> QED BY LeastNumber
<1> DEFINE i == FirstLater(s, v)
<1>2. i = IF I # {} THEN Min(I) ELSE 0
  BY DEF SelectInSeq, FirstLater
<1>3. I # {} => Min(I) \in I /\ \A j \in I : Min(I) <= j
  BY <1>1 DEF Min
<1> HIDE DEF i
<1>4. CASE I = {}
  <2>1. i = 0 /\ \A j \in 1..Len(s) : ~ (s[j].value > v)
    BY <1>2, <1>4
  <2> QED BY <2>1 DEF i
<1>5. CASE I # {}
  <2>1. i \in I /\ \A j \in I : i <= j
    <3> HIDE DEF I
    <3> QED BY <1>2, <1>3, <1>5
  <2>2. i \in 1..Len(s) /\ s[i].value > v
    BY <2>1
  <2>3. \A j \in 1..(i - 1) : ~ (s[j].value > v)
    <3> TAKE j \in 1..(i - 1)
    <3>1. j \in 1..Len(s) /\ ~ (i <= j)
      BY <2>2
    <3> QED BY <2>1, <3>1
  <2>4. i # 0
    BY <2>2
  <2> QED BY <2>2, <2>3, <2>4 DEF i
<1> QED BY <1>4, <1>5

\* The elements of a sequence are what its positions hold.
LEMMA ElementsOf ==
  ASSUME NEW S, NEW s \in Seq(S)
  PROVE  /\ ToSet(s) = {s[j] : j \in 1..Len(s)}
         /\ ToSet(s) \subseteq S
  BY DEF ToSet

\* Removing from a list without duplicates.
LEMMA DistinctRemove ==
  ASSUME NEW S, NEW s \in Distinct(S), NEW i \in 1..Len(s)
  PROVE  /\ RemoveAt(s, i) \in Distinct(S)
         /\ ToSet(RemoveAt(s, i)) = ToSet(s) \ {s[i]}
<1> DEFINE r == RemoveAt(s, i)
<1>1. s \in Seq(S) /\ Len(s) \in Nat /\ \A j, m \in 1..Len(s) : s[j] = s[m] => j = m
  BY DEF Distinct
<1>2. /\ r \in Seq(S) /\ Len(r) = Len(s) - 1
      /\ \A j \in 1..(Len(s) - 1) : r[j] = IF j < i THEN s[j] ELSE s[j + 1]
  BY <1>1, RemoveAtFacts
<1> HIDE DEF r
<1>3. ToSet(r) = {r[j] : j \in 1..Len(r)} /\ ToSet(s) = {s[j] : j \in 1..Len(s)}
  BY <1>1, <1>2, ElementsOf
<1>4. \A j, m \in 1..Len(r) : r[j] = r[m] => j = m
  BY <1>1, <1>2
<1>5. ASSUME NEW j \in 1..Len(r) PROVE r[j] \in ToSet(s) \ {s[i]}
  BY <1>1, <1>2, <1>3
<1>6. ASSUME NEW j \in 1..Len(s), j # i PROVE s[j] \in ToSet(r)
  <2>1. CASE j < i
    <3>1. j \in 1..Len(r) /\ r[j] = s[j]
      BY <1>1, <1>2, <2>1
    <3> QED BY <3>1, <1>3
  <2>2. CASE j > i
    <3>1. j - 1 \in 1..Len(r) /\ r[j - 1] = s[j]
      BY <1>1, <1>2, <2>2
    <3> QED BY <3>1, <1>3
  <2> QED BY <1>6, <2>1, <2>2
<1>7. ToSet(r) = ToSet(s) \ {s[i]}
  BY <1>3, <1>5, <1>6
<1> QED BY <1>2, <1>4, <1>7 DEF r, Distinct

\* Inserting into a list without duplicates.
LEMMA DistinctInsert ==
  ASSUME NEW S, NEW s \in Distinct(S), NEW i \in 1..(Len(s) + 1), NEW x \in S \ ToSet(s)
  PROVE  /\ InsertAt(s, i, x) \in Distinct(S)
         /\ ToSet(InsertAt(s, i, x)) = ToSet(s) \cup {x}
<1> DEFINE r == InsertAt(s, i, x)
<1>1. s \in Seq(S) /\ Len(s) \in Nat /\ \A j, m \in 1..Len(s) : s[j] = s[m] => j = m
  BY DEF Distinct
<1>2. /\ r \in Seq(S) /\ Len(r) = Len(s) + 1
      /\ \A j \in 1..(Len(s) + 1) :
            r[j] = IF j < i THEN s[j] ELSE IF j = i THEN x ELSE s[j - 1]
  BY <1>1, InsertAtFacts
<1> HIDE DEF r
<1>3. ToSet(r) = {r[j] : j \in 1..Len(r)} /\ ToSet(s) = {s[j] : j \in 1..Len(s)}
  BY <1>1, <1>2, ElementsOf
<1>4. ASSUME NEW j \in 1..Len(s) PROVE s[j] # x
  BY <1>3
<1>5. \A j, m \in 1..Len(r) : r[j] = r[m] => j = m
  <2> DEFINE e(j) == IF j < i THEN j ELSE j - 1
  <2>1. ASSUME NEW j \in 1..Len(r), j # i
        PROVE  e(j) \in 1..Len(s) /\ r[j] = s[e(j)] /\ r[j] # x
    BY <1>1, <1>2, <1>4, <2>1
  <2>2. r[i] = x /\ i \in 1..Len(r)
    BY <1>1, <1>2
  <2>3. ASSUME NEW j \in 1..Len(r), NEW m \in 1..Len(r), j # i, m # i, e(j) = e(m)
        PROVE  j = m
    BY <1>1, <1>2, <2>3
  <2> HIDE DEF e
  <2> QED
    BY <1>1, <2>1, <2>2, <2>3
<1>6. ASSUME NEW j \in 1..Len(r) PROVE r[j] \in ToSet(s) \cup {x}
  BY <1>1, <1>2, <1>3
<1>7. ASSUME NEW j \in 1..Len(s) PROVE s[j] \in ToSet(r)
  <2>1. CASE j < i
    <3>1. j \in 1..Len(r) /\ r[j] = s[j]
      BY <1>1, <1>2, <2>1
    <3> QED BY <3>1, <1>3
  <2>2. CASE j >= i
    <3>1. j + 1 \in 1..Len(r) /\ r[j + 1] = s[j]
      BY <1>1, <1>2, <2>2
    <3> QED BY <3>1, <1>3
  <2> QED BY <2>1, <2>2
<1>8. x \in ToSet(r)
  BY <1>1, <1>2, <1>3
<1>9. ToSet(r) = ToSet(s) \cup {x}
  BY <1>3, <1>6, <1>7, <1>8
<1> QED BY <1>2, <1>5, <1>9 DEF r, Distinct

\* Appending to a list without duplicates.
LEMMA DistinctAppend ==
  ASSUME NEW S, NEW s \in Distinct(S), NEW x \in S \ ToSet(s)
  PROVE  /\ Append(s, x) \in Distinct(S)
         /\ ToSet(Append(s, x)) = ToSet(s) \cup {x}
<1> DEFINE r == Append(s, x)
<1>1. s \in Seq(S) /\ Len(s) \in Nat /\ \A j, m \in 1..Len(s) : s[j] = s[m] => j = m
  BY DEF Distinct
<1>2. /\ r \in Seq(S) /\ Len(r) = Len(s) + 1
      /\ \A j \in 1..Len(s) : r[j] = s[j]
      /\ r[Len(s) + 1] = x
  BY <1>1, AppendProperties
<1> HIDE DEF r
<1>3. ToSet(r) = {r[j] : j \in 1..Len(r)} /\ ToSet(s) = {s[j] : j \in 1..Len(s)}
  BY <1>1, <1>2, ElementsOf
<1>4. \A j \in 1..Len(r) : (j \in 1..Len(s) /\ r[j] = s[j]) \/ (j = Len(r) /\ r[j] = x)
  BY <1>1, <1>2
<1>5. \A j, m \in 1..Len(r) : r[j] = r[m] => j = m
  <2>1. \A j \in 1..Len(s) : s[j] # x
    BY <1>3
  <2> QED BY <1>1, <1>4, <2>1
<1>6. ToSet(r) \subseteq ToSet(s) \cup {x}
  BY <1>3, <1>4
<1>7. \A j \in 1..Len(s) : j \in 1..Len(r) /\ r[j] = s[j]
  BY <1>1, <1>2
<1>8. Len(r) \in 1..Len(r) /\ r[Len(r)] = x
  BY <1>1, <1>2
<1>9. ToSet(r) = ToSet(s) \cup {x}
  BY <1>3, <1>6, <1>7, <1>8
<1> QED BY <1>2, <1>5, <1>9 DEF r, Distinct

\* Taking the head of a list without duplicates.
LEMMA DistinctTail ==
  ASSUME NEW S, NEW s \in Distinct(S), s # <<>>
  PROVE  /\ Head(s) \in S /\ Tail(s) \in Distinct(S)
         /\ Head(s) \in ToSet(s) /\ ToSet(Tail(s)) = ToSet(s) \ {Head(s)}
<1> DEFINE r == Tail(s)
<1>1. s \in Seq(S) /\ Len(s) \in Nat /\ \A j, m \in 1..Len(s) : s[j] = s[m] => j = m
  BY DEF Distinct
<1>2. /\ r \in Seq(S) /\ Len(r) = Len(s) - 1 /\ Head(s) = s[1] /\ 1 \in 1..Len(s)
      /\ \A j \in 1..Len(r) : r[j] = s[j + 1]
  BY <1>1
<1> HIDE DEF r
<1>3. ToSet(r) = {r[j] : j \in 1..Len(r)} /\ ToSet(s) = {s[j] : j \in 1..Len(s)}
  BY <1>1, <1>2, ElementsOf
<1>4. \A j, m \in 1..Len(r) : r[j] = r[m] => j = m
  BY <1>1, <1>2
<1>5. \A j \in 1..Len(r) : j + 1 \in 1..Len(s) /\ j + 1 # 1
  BY <1>1, <1>2
<1>6. ToSet(r) \subseteq ToSet(s) \ {s[1]}
  BY <1>1, <1>2, <1>3, <1>5
<1>7. \A j \in 1..Len(s) : j # 1 => j - 1 \in 1..Len(r) /\ r[j - 1] = s[j]
  BY <1>1, <1>2
<1>8. ToSet(r) = ToSet(s) \ {s[1]}
  <2>1. ASSUME NEW x \in ToSet(s), x # s[1] PROVE x \in ToSet(r)
    <3>1. PICK j \in 1..Len(s) : x = s[j]
      BY <1>3
    <3> QED BY <1>3, <1>7, <2>1, <3>1
  <2> QED BY <1>6, <2>1
<1>9. s[1] \in ToSet(s) /\ s[1] \in S
  BY <1>1, <1>2, <1>3
<1> QED BY <1>2, <1>4, <1>8, <1>9 DEF r, Distinct

\* Without takes exactly t out of a list of waiting tasks.
LEMMA WithoutFacts ==
  ASSUME NEW S, NEW s \in Distinct(S), NEW t
  PROVE  Without(s, t) \in Distinct(S) /\ ToSet(Without(s, t)) = ToSet(s) \ {t}
<1> DEFINE i == Position(s, t)
<1>1. s \in Seq(S) /\ Len(s) \in Nat /\ ToSet(s) = {s[j] : j \in 1..Len(s)}
  BY ElementsOf DEF Distinct
<1>2. /\ i \in 0..Len(s)
      /\ i = 0 => \A j \in 1..Len(s) : s[j] # t
      /\ i # 0 => s[i] = t
  BY <1>1, SelectTask
<1>3. Without(s, t) = RemoveItem(s, i)
  BY DEF Without
<1> HIDE DEF i
<1>4. CASE i = 0
  BY <1>1, <1>2, <1>3, <1>4 DEF RemoveItem
<1>5. CASE i # 0
  BY <1>1, <1>2, <1>3, <1>5, DistinctRemove DEF RemoveItem
<1> QED BY <1>4, <1>5

\* uxListRemove takes exactly t out of a ready list, and pxIndex stays in
\* range.
LEMMA RemoveFromReady ==
  ASSUME NEW l \in RList, NEW t
  PROVE  /\ uxListRemove(l, t) \in RList
         /\ ToSet(uxListRemove(l, t).items) = ToSet(l.items) \ {t}
<1> DEFINE s == l.items
           i == Position(s, t)
           r == [items |-> RemoveAt(s, i), index |-> IF i <= l.index THEN l.index - 1 ELSE l.index]
<1>1. /\ s \in Distinct(Threads) /\ l.index \in Nat /\ l.index <= Len(s)
      /\ s \in Seq(Threads) /\ Len(s) \in Nat /\ ToSet(s) = {s[j] : j \in 1..Len(s)}
  BY ElementsOf DEF Distinct, RList
<1>2. /\ i \in 0..Len(s)
      /\ i = 0 => \A j \in 1..Len(s) : s[j] # t
      /\ i # 0 => s[i] = t
  <2> HIDE DEF s
  <2> QED BY <1>1, SelectTask
<1>3. uxListRemove(l, t) = IF i = 0 THEN l ELSE r
  BY DEF uxListRemove
<1> HIDE DEF i
<1>4. CASE i = 0
  BY <1>1, <1>2, <1>3, <1>4
<1>5. CASE i # 0
  <2>1. RemoveAt(s, i) \in Distinct(Threads) /\ ToSet(RemoveAt(s, i)) = ToSet(s) \ {t}
    BY <1>1, <1>2, <1>5, DistinctRemove
  <2>2. Len(RemoveAt(s, i)) = Len(s) - 1
    BY <1>1, <1>2, <1>5, RemoveAtFacts
  <2>3. r.index \in Nat /\ r.index <= Len(s) - 1
    BY <1>1, <1>2, <1>5
  <2>4. r \in RList
    BY <2>1, <2>2, <2>3 DEF RList
  <2> QED BY <1>3, <1>5, <2>1, <2>4
<1> QED BY <1>4, <1>5

\* listINSERT_END adds exactly t to a ready list, and pxIndex stays in
\* range.
LEMMA InsertEnd ==
  ASSUME NEW l \in RList, NEW t \in Threads, t \notin ToSet(l.items)
  PROVE  /\ listINSERT_END(l, t) \in RList
         /\ ToSet(listINSERT_END(l, t).items) = ToSet(l.items) \cup {t}
<1>1. /\ l.items \in Distinct(Threads) /\ l.index \in Nat /\ l.index <= Len(l.items)
      /\ l.items \in Seq(Threads) /\ Len(l.items) \in Nat
      /\ l = [items |-> l.items, index |-> l.index]
  BY DEF Distinct, RList
<1>2. CASE l.index = 0
  <2>1. listINSERT_END(l, t) = [items |-> Append(l.items, t), index |-> 0]
    BY <1>1, <1>2 DEF listINSERT_END
  <2> QED BY <1>1, <2>1, DistinctAppend DEF RList
<1>3. CASE l.index # 0
  <2>1. listINSERT_END(l, t) = [items |-> InsertAt(l.items, l.index, t), index |-> l.index + 1]
    BY <1>3 DEF listINSERT_END
  <2>2. l.index \in 1..(Len(l.items) + 1)
    BY <1>1, <1>3
  <2>3. Len(InsertAt(l.items, l.index, t)) = Len(l.items) + 1
    BY <1>1, <2>2, InsertAtFacts
  <2> QED BY <1>1, <2>1, <2>2, <2>3, DistinctInsert DEF RList
<1> QED BY <1>2, <1>3

\* vListInsert at position i, or at the end when i is 0, adds exactly x to
\* a list of waiting tasks.
LEMMA InsertWaiter ==
  ASSUME NEW S, NEW s \in Distinct(S), NEW x \in S \ ToSet(s), NEW i \in 0..Len(s)
  PROVE  Insert(s, x, i) \in Distinct(S) /\ ToSet(Insert(s, x, i)) = ToSet(s) \cup {x}
<1>1. Len(s) \in Nat
  BY DEF Distinct
<1>2. CASE i = 0
  BY <1>2, DistinctAppend DEF Insert
<1>3. CASE i # 0
  BY <1>1, <1>3, DistinctInsert DEF Insert
<1> QED BY <1>2, <1>3

\* The position at which a waiting task is inserted is in range.
LEMMA FirstBehindRange ==
  ASSUME NEW s, NEW l, NEW t, Len(l) \in Nat
  PROVE  FirstBehind(s, l, t) \in 0..Len(l)
<1> DEFINE I == {j \in 1..Len(l) : Behind(s, t, l[j])}
<1>1. I # {} => \E m \in I : \A j \in I : m <= j
  <2> I \in SUBSET Nat OBVIOUS
  <2> QED BY LeastNumber
<1>2. FirstBehind(s, l, t) = IF I # {} THEN Min(I) ELSE 0
  BY DEF SelectInSeq, FirstBehind
<1>3. I # {} => Min(I) \in I
  BY <1>1 DEF Min
<1> QED BY <1>2, <1>3

\* The fields of an item of a delayed list.
LEMMA ItemFields ==
  \A d \in Item : d.owner \in Threads /\ d.value \in 0..portMAX_DELAY /\ d.value \in Nat
  BY BoundsAssumption DEF Item, portMAX_DELAY

\* What it means to be a delayed list: one item per task, sorted by wake
\* time.
LEMMA DelayedFacts ==
  ASSUME NEW s \in DList
  PROVE  /\ s \in Seq(Item) /\ Len(s) \in Nat
         /\ ToSet(s) = {s[j] : j \in 1..Len(s)} /\ ToSet(s) \subseteq Item
         /\ \A i, j \in 1..Len(s) : s[i].owner = s[j].owner => i = j
         /\ \A i, j \in 1..Len(s) : i <= j => s[i].value <= s[j].value
         /\ \A d, c \in ToSet(s) : d.owner = c.owner => d = c
         /\ \A i \in 1..Len(s) : s[i].value \in Nat
<1>1. s \in Seq(Item) /\ \A i, j \in 1..Len(s) : s[i].owner = s[j].owner => i = j
  BY DEF DList
<1>2. ToSet(s) = {s[j] : j \in 1..Len(s)} /\ ToSet(s) \subseteq Item
  BY <1>1, ElementsOf
<1>3. \A d, c \in ToSet(s) : d.owner = c.owner => d = c
  BY <1>1, <1>2
<1>4. \A i \in 1..Len(s) : s[i].value \in Nat
  BY <1>2, ItemFields
<1> QED BY <1>1, <1>2, <1>3, <1>4 DEF DList

\* Removing the item of t leaves a delayed list.
LEMMA DelayedRemove ==
  ASSUME NEW s \in DList, NEW t
  PROVE  /\ WithoutOwner(s, t) \in DList
         /\ ToSet(WithoutOwner(s, t)) = {d \in ToSet(s) : d.owner # t}
<1> DEFINE i == OwnerPosition(s, t)
           r == RemoveAt(s, i)
<1>1. /\ s \in Seq(Item) /\ Len(s) \in Nat /\ ToSet(s) = {s[j] : j \in 1..Len(s)}
      /\ \A j, m \in 1..Len(s) : s[j].owner = s[m].owner => j = m
      /\ \A j, m \in 1..Len(s) : j <= m => s[j].value <= s[m].value
      /\ \A j \in 1..Len(s) : s[j].value \in Nat
  BY DelayedFacts
<1>2. /\ i \in 0..Len(s)
      /\ i = 0 => \A j \in 1..Len(s) : s[j].owner # t
      /\ i # 0 => s[i].owner = t
  BY <1>1, SelectOwner
<1>3. WithoutOwner(s, t) = IF i = 0 THEN s ELSE r
  BY DEF WithoutOwner, RemoveItem
<1> HIDE DEF i
<1>4. CASE i = 0
  BY <1>1, <1>2, <1>3, <1>4
<1>5. CASE i # 0
  <2> DEFINE e(j) == IF j < i THEN j ELSE j + 1
  <2>1. i \in 1..Len(s)
    BY <1>1, <1>2, <1>5
  <2>2. r \in Seq(Item) /\ Len(r) = Len(s) - 1
        /\ \A j \in 1..(Len(s) - 1) : r[j] = IF j < i THEN s[j] ELSE s[j + 1]
    BY <1>1, <2>1, RemoveAtFacts
  <2>3. ToSet(r) = {r[j] : j \in 1..Len(r)}
    BY <2>2, ElementsOf
  <2> HIDE DEF r
  <2>4. \A j \in 1..Len(r) : e(j) \in 1..Len(s) /\ e(j) # i /\ r[j] = s[e(j)]
    BY <1>1, <2>1, <2>2
  <2>5. \A j, m \in 1..Len(r) : (e(j) = e(m) => j = m) /\ (j <= m => e(j) <= e(m))
    BY <1>1, <2>1, <2>2
  <2>6. \A j \in 1..Len(s) : j # i => \E m \in 1..Len(r) : e(m) = j
    <3> SUFFICES ASSUME NEW j \in 1..Len(s), j # i PROVE \E m \in 1..Len(r) : e(m) = j
      OBVIOUS
    <3>1. CASE j < i
      <4>1. j \in 1..Len(r) /\ e(j) = j
        BY <1>1, <2>1, <2>2, <3>1
      <4> QED BY <4>1
    <3>2. CASE j > i
      <4>1. j - 1 \in 1..Len(r) /\ e(j - 1) = j
        BY <1>1, <2>1, <2>2, <3>2
      <4> QED BY <4>1
    <3> QED BY <1>1, <2>1, <3>1, <3>2
  <2> HIDE DEF e
  <2>7. r \in DList
    <3>1. \A j, m \in 1..Len(r) : r[j].owner = r[m].owner => j = m
      BY <1>1, <2>4, <2>5
    <3>2. \A j, m \in 1..Len(r) : j <= m => r[j].value <= r[m].value
      BY <1>1, <2>4, <2>5
    <3> QED BY <2>2, <3>1, <3>2 DEF DList
  <2>8. \A d \in ToSet(r) : d \in ToSet(s) /\ d.owner # t
    <3> SUFFICES ASSUME NEW j \in 1..Len(r) PROVE r[j] \in ToSet(s) /\ r[j].owner # t
      BY <2>3
    <3>1. e(j) \in 1..Len(s) /\ e(j) # i /\ r[j] = s[e(j)]
      BY <2>4
    <3> QED BY <1>1, <1>2, <1>5, <2>1, <3>1
  <2>9. \A j \in 1..Len(s) : s[j].owner # t => s[j] \in ToSet(r)
    BY <1>1, <1>2, <1>5, <2>1, <2>3, <2>4, <2>6
  <2>10. ToSet(r) = {d \in ToSet(s) : d.owner # t}
    BY <1>1, <2>8, <2>9
  <2> QED BY <1>3, <1>5, <2>7, <2>10
<1> QED BY <1>4, <1>5

\* The head of a delayed list is due first.
LEMMA DelayedHead ==
  ASSUME NEW s \in DList, s # <<>>
  PROVE  Head(s) \in ToSet(s) /\ \A d \in ToSet(s) : Head(s).value <= d.value
<1>1. s \in Seq(Item) /\ Len(s) \in Nat /\ ToSet(s) = {s[j] : j \in 1..Len(s)}
      /\ \A j, m \in 1..Len(s) : j <= m => s[j].value <= s[m].value
  BY DelayedFacts
<1>2. 1 \in 1..Len(s) /\ Head(s) = s[1] /\ \A j \in 1..Len(s) : 1 <= j
  BY <1>1
<1> QED BY <1>1, <1>2

\* vListInsert keeps a delayed list sorted, and adds exactly x.
LEMMA DelayedInsert ==
  ASSUME NEW s \in DList, NEW x \in Item, \A d \in ToSet(s) : d.owner # x.owner
  PROVE  /\ Insert(s, x, FirstLater(s, x.value)) \in DList
         /\ ToSet(Insert(s, x, FirstLater(s, x.value))) = ToSet(s) \cup {x}
<1> DEFINE f == FirstLater(s, x.value)
           i == IF f = 0 THEN Len(s) + 1 ELSE f
           r == Insert(s, x, f)
<1>1. /\ s \in Seq(Item) /\ Len(s) \in Nat /\ ToSet(s) = {s[j] : j \in 1..Len(s)}
      /\ \A j, m \in 1..Len(s) : s[j].owner = s[m].owner => j = m
      /\ \A j, m \in 1..Len(s) : j <= m => s[j].value <= s[m].value
      /\ \A j \in 1..Len(s) : s[j].value \in Nat
  BY DelayedFacts
<1>2. /\ f \in 0..Len(s)
      /\ f = 0 => \A j \in 1..Len(s) : ~ (s[j].value > x.value)
      /\ f # 0 => s[f].value > x.value /\ \A j \in 1..(f - 1) : ~ (s[j].value > x.value)
  BY <1>1, SelectLater
<1>3. x.value \in Nat
  BY ItemFields
<1> HIDE DEF f
<1>4. i \in 1..(Len(s) + 1)
  BY <1>1, <1>2
<1>5. /\ r \in Seq(Item) /\ Len(r) = Len(s) + 1
      /\ \A j \in 1..(Len(s) + 1) :
            r[j] = IF j < i THEN s[j] ELSE IF j = i THEN x ELSE s[j - 1]
  <2>1. CASE f = 0
    <3>1. /\ r = Append(s, x) /\ i = Len(s) + 1
      BY <2>1 DEF Insert
    <3> HIDE DEF r, i
    <3>2. /\ r \in Seq(Item) /\ Len(r) = Len(s) + 1
          /\ \A j \in 1..Len(s) : r[j] = s[j]
          /\ r[Len(s) + 1] = x
      BY <1>1, <3>1, AppendProperties
    <3> QED BY <1>1, <3>1, <3>2
  <2>2. CASE f # 0
    <3>1. r = InsertAt(s, f, x) /\ i = f
      BY <2>2 DEF Insert
    <3> QED BY <1>1, <1>4, <3>1, InsertAtFacts
  <2> QED BY <2>1, <2>2
<1>6. /\ \A j \in 1..Len(s) : j < i => s[j].value <= x.value
      /\ \A j \in 1..Len(s) : j >= i => s[j].value >= x.value
  BY <1>1, <1>2, <1>3
<1>7. ToSet(r) = {r[j] : j \in 1..Len(r)}
  BY <1>5, ElementsOf
<1>8. \A j \in 1..Len(s) : s[j].owner # x.owner
  BY <1>1
<1> HIDE DEF r, i
<1> DEFINE e(j) == IF j < i THEN j ELSE j - 1
<1>9. \A j \in 1..Len(r) : j # i => e(j) \in 1..Len(s) /\ r[j] = s[e(j)]
  BY <1>1, <1>4, <1>5
<1>10. i \in 1..Len(r) /\ r[i] = x
  BY <1>1, <1>4, <1>5
<1>11. \A j, m \in 1..Len(r) : j # i /\ m # i => (e(j) = e(m) => j = m) /\ (j <= m => e(j) <= e(m))
  BY <1>1, <1>4, <1>5
<1>12. /\ \A j \in 1..Len(r) : j < i => e(j) < i
       /\ \A j \in 1..Len(r) : j > i => e(j) >= i
  BY <1>1, <1>4, <1>5
<1>13. \A j \in 1..Len(s) : \E m \in 1..Len(r) : m # i /\ e(m) = j
  <2> TAKE j \in 1..Len(s)
  <2>1. CASE j < i
    <3>1. j \in 1..Len(r) /\ j # i /\ e(j) = j
      BY <1>1, <1>4, <1>5, <2>1
    <3> QED BY <3>1
  <2>2. CASE j >= i
    <3>1. j + 1 \in 1..Len(r) /\ j + 1 # i /\ e(j + 1) = j
      BY <1>1, <1>4, <1>5, <2>2
    <3> QED BY <3>1
  <2> QED BY <1>4, <2>1, <2>2
<1> HIDE DEF e
<1>14. \A j, m \in 1..Len(r) : r[j].owner = r[m].owner => j = m
  BY <1>1, <1>8, <1>9, <1>10, <1>11
<1>15. ASSUME NEW j \in 1..Len(r), NEW m \in 1..Len(r), j <= m
       PROVE  r[j].value <= r[m].value
  <2>1. CASE j = i /\ m = i
    BY <1>3, <1>10, <2>1
  <2>2. CASE j = i /\ m # i
    <3>1. m > i /\ e(m) >= i /\ e(m) \in 1..Len(s)
      BY <1>4, <1>9, <1>12, <1>15, <2>2
    <3> QED BY <1>6, <1>9, <1>10, <2>2, <3>1, <1>1, <1>3
  <2>3. CASE j # i /\ m = i
    <3>1. j < i /\ e(j) < i /\ e(j) \in 1..Len(s)
      BY <1>4, <1>9, <1>12, <1>15, <2>3
    <3> QED BY <1>6, <1>9, <1>10, <2>3, <3>1, <1>1, <1>3
  <2>4. CASE j # i /\ m # i
    BY <1>1, <1>9, <1>11, <1>15, <2>4
  <2> QED BY <2>1, <2>2, <2>3, <2>4
<1>16. r \in DList
  BY <1>5, <1>14, <1>15 DEF DList
<1>17. \A d \in ToSet(r) : d \in ToSet(s) \cup {x}
  BY <1>1, <1>7, <1>9, <1>10
<1>18. \A j \in 1..Len(s) : s[j] \in ToSet(r)
  BY <1>7, <1>9, <1>13
<1>19. x \in ToSet(r)
  BY <1>7, <1>10
<1>20. ToSet(r) = ToSet(s) \cup {x}
  BY <1>1, <1>17, <1>18, <1>19
<1> QED BY <1>16, <1>20 DEF r, f

(***************************************************************************)
(* The kernel's state.                                                     *)
(***************************************************************************)
Kernel ==
    [pxReadyTasksLists : [Priorities -> RList], uxTopReadyPriority : Priorities,
     pxDelayedTaskList : DList, pxOverflowDelayedTaskList : DList,
     xSuspendedTaskList : SUBSET Tasks, xPendingReadyList : Distinct(Tasks),
     xTasksWaitingTermination : Distinct(Tasks), xTasksWaiting : [Events -> Distinct(Tasks)],
     uxPriority : [Threads -> Priorities], xTickCount : 0..portMAX_DELAY,
     xPendedTicks : Nat, xNextTaskUnblockTime : 0..portMAX_DELAY, xYieldPending : BOOLEAN,
     uxSchedulerSuspended : Nat, pxCurrentTCB : Threads]

RdyAt(s, p) == ToSet(s.pxReadyTasksLists[p].items)
DItems(s) == ToSet(s.pxDelayedTaskList)
OItems(s) == ToSet(s.pxOverflowDelayedTaskList)
Wts(s, e) == ToSet(s.xTasksWaiting[e])
Pnd(s) == ToSet(s.xPendingReadyList)

SameReady(n, s) == /\ n.pxReadyTasksLists = s.pxReadyTasksLists
                   /\ n.uxTopReadyPriority = s.uxTopReadyPriority
SameDelayed(n, s) == /\ n.pxDelayedTaskList = s.pxDelayedTaskList
                     /\ n.pxOverflowDelayedTaskList = s.pxOverflowDelayedTaskList
                     /\ n.xNextTaskUnblockTime = s.xNextTaskUnblockTime
SameEvents(n, s) == /\ n.xTasksWaiting = s.xTasksWaiting
                    /\ n.xPendingReadyList = s.xPendingReadyList
SameRest(n, s) == /\ n.xTasksWaitingTermination = s.xTasksWaitingTermination
                  /\ n.uxPriority = s.uxPriority /\ n.xTickCount = s.xTickCount
                  /\ n.xPendedTicks = s.xPendedTicks
                  /\ n.uxSchedulerSuspended = s.uxSchedulerSuspended
                  /\ n.pxCurrentTCB = s.pxCurrentTCB

\* prvAddTaskToReadyList puts t in the ready list of its priority, raises
\* uxTopReadyPriority to it, and changes nothing else.
LEMMA AddReadyFacts ==
  ASSUME NEW s \in Kernel, NEW t \in Threads, t \notin RdyAt(s, s.uxPriority[t])
  PROVE  LET n == prvAddTaskToReadyList(s, t)
             p == s.uxPriority[t]
         IN  /\ n \in Kernel
             /\ \A q \in Priorities : RdyAt(n, q) = IF q = p THEN RdyAt(s, q) \cup {t}
                                                    ELSE RdyAt(s, q)
             /\ n.uxTopReadyPriority = IF p > s.uxTopReadyPriority THEN p
                                       ELSE s.uxTopReadyPriority
             /\ n.xSuspendedTaskList = s.xSuspendedTaskList
             /\ n.xYieldPending = s.xYieldPending
             /\ SameDelayed(n, s) /\ SameEvents(n, s) /\ SameRest(n, s)
<1> DEFINE p == s.uxPriority[t]
           l == listINSERT_END(s.pxReadyTasksLists[p], t)
           top == IF p > s.uxTopReadyPriority THEN p ELSE s.uxTopReadyPriority
           n == prvAddTaskToReadyList(s, t)
<1>1. p \in Priorities /\ s.pxReadyTasksLists[p] \in RList /\ top \in Priorities
  BY DEF Kernel
<1>2. l \in RList /\ ToSet(l.items) = RdyAt(s, p) \cup {t}
  BY <1>1, InsertEnd DEF RdyAt
<1>3. n = [s EXCEPT !.uxTopReadyPriority = top,
                    !.pxReadyTasksLists = [@ EXCEPT ![p] = l]]
  BY <1>1 DEF prvAddTaskToReadyList, Kernel
<1> HIDE DEF n, l, top, p
<1>4. n \in Kernel
  BY <1>1, <1>2, <1>3 DEF Kernel
<1>5. /\ n.pxReadyTasksLists = [s.pxReadyTasksLists EXCEPT ![p] = l]
      /\ n.uxTopReadyPriority = top
      /\ n.xSuspendedTaskList = s.xSuspendedTaskList
      /\ n.xYieldPending = s.xYieldPending
  BY <1>3 DEF Kernel
<1>6. SameDelayed(n, s) /\ SameEvents(n, s) /\ SameRest(n, s)
  BY <1>3 DEF Kernel, SameDelayed, SameEvents, SameRest
<1>7. ASSUME NEW q \in Priorities
      PROVE  RdyAt(n, q) = IF q = p THEN RdyAt(s, q) \cup {t} ELSE RdyAt(s, q)
  BY <1>1, <1>2, <1>5 DEF RdyAt, Kernel
<1> QED BY <1>4, <1>5, <1>6, <1>7 DEF n, top, p

-----------------------------------------------------------------------------
(***************************************************************************)
(* The functions of tasks.c that move a task.                              *)
(***************************************************************************)
\* RemoveState takes t out of every ready, delayed and suspended list.
LEMMA RemoveStateFacts ==
  ASSUME NEW s \in Kernel, NEW t
  PROVE  LET n == RemoveState(s, t)
         IN  /\ n \in Kernel
             /\ \A q \in Priorities : RdyAt(n, q) = RdyAt(s, q) \ {t}
             /\ DItems(n) = {d \in DItems(s) : d.owner # t}
             /\ OItems(n) = {d \in OItems(s) : d.owner # t}
             /\ n.xSuspendedTaskList = s.xSuspendedTaskList \ {t}
             /\ n.uxTopReadyPriority = s.uxTopReadyPriority
             /\ n.xNextTaskUnblockTime = s.xNextTaskUnblockTime
             /\ n.xYieldPending = s.xYieldPending
             /\ SameEvents(n, s) /\ SameRest(n, s)
<1> DEFINE ready == [q \in Priorities |-> uxListRemove(s.pxReadyTasksLists[q], t)]
           delayed == WithoutOwner(s.pxDelayedTaskList, t)
           overflow == WithoutOwner(s.pxOverflowDelayedTaskList, t)
           susp == s.xSuspendedTaskList \ {t}
           n == RemoveState(s, t)
<1>1. \A q \in Priorities : /\ ready[q] \in RList
                            /\ ToSet(ready[q].items) = RdyAt(s, q) \ {t}
  BY RemoveFromReady DEF Kernel, RdyAt
<1>2. /\ delayed \in DList /\ ToSet(delayed) = {d \in DItems(s) : d.owner # t}
      /\ overflow \in DList /\ ToSet(overflow) = {d \in OItems(s) : d.owner # t}
  BY DelayedRemove DEF Kernel, DItems, OItems
<1>3. n = [s EXCEPT !.pxReadyTasksLists = ready, !.pxDelayedTaskList = delayed,
                    !.pxOverflowDelayedTaskList = overflow, !.xSuspendedTaskList = susp]
  BY DEF RemoveState, Kernel
<1>4. ready \in [Priorities -> RList] /\ susp \in SUBSET Tasks
  BY <1>1 DEF Kernel
<1> HIDE DEF n, ready, delayed, overflow, susp
<1>5. n \in Kernel
  BY <1>2, <1>3, <1>4 DEF Kernel
<1>6. /\ n.pxReadyTasksLists = ready /\ n.pxDelayedTaskList = delayed
      /\ n.pxOverflowDelayedTaskList = overflow /\ n.xSuspendedTaskList = susp
      /\ n.uxTopReadyPriority = s.uxTopReadyPriority
      /\ n.xNextTaskUnblockTime = s.xNextTaskUnblockTime
      /\ n.xYieldPending = s.xYieldPending
  BY <1>3 DEF Kernel
<1>7. SameEvents(n, s) /\ SameRest(n, s)
  BY <1>3 DEF Kernel, SameEvents, SameRest
<1> QED BY <1>1, <1>2, <1>5, <1>6, <1>7 DEF n, RdyAt, DItems, OItems, susp

\* RemoveEvent takes t out of every event list and xPendingReadyList.
LEMMA RemoveEventFacts ==
  ASSUME NEW s \in Kernel, NEW t
  PROVE  LET n == RemoveEvent(s, t)
         IN  /\ n \in Kernel
             /\ \A e \in Events : Wts(n, e) = Wts(s, e) \ {t}
             /\ Pnd(n) = Pnd(s) \ {t}
             /\ n.xSuspendedTaskList = s.xSuspendedTaskList
             /\ n.xYieldPending = s.xYieldPending
             /\ SameReady(n, s) /\ SameDelayed(n, s) /\ SameRest(n, s)
<1> DEFINE waits == [e \in Events |-> Without(s.xTasksWaiting[e], t)]
           pend == Without(s.xPendingReadyList, t)
           n == RemoveEvent(s, t)
<1>1. \A e \in Events : waits[e] \in Distinct(Tasks) /\ ToSet(waits[e]) = Wts(s, e) \ {t}
  BY WithoutFacts DEF Kernel, Wts
<1>2. pend \in Distinct(Tasks) /\ ToSet(pend) = Pnd(s) \ {t}
  BY WithoutFacts DEF Kernel, Pnd
<1>3. n = [s EXCEPT !.xTasksWaiting = waits, !.xPendingReadyList = pend]
  BY DEF RemoveEvent, Kernel
<1>4. waits \in [Events -> Distinct(Tasks)]
  BY <1>1
<1> HIDE DEF n, waits, pend
<1>5. n \in Kernel
  BY <1>2, <1>3, <1>4 DEF Kernel
<1>6. /\ n.xTasksWaiting = waits /\ n.xPendingReadyList = pend
      /\ n.xSuspendedTaskList = s.xSuspendedTaskList
      /\ n.xYieldPending = s.xYieldPending
  BY <1>3 DEF Kernel
<1>7. SameReady(n, s) /\ SameDelayed(n, s) /\ SameRest(n, s)
  BY <1>3 DEF Kernel, SameReady, SameDelayed, SameRest
<1> QED BY <1>1, <1>2, <1>5, <1>6, <1>7 DEF n, Wts, Pnd

\* Unlink takes t out of every list, and changes nothing else.
LEMMA UnlinkFacts ==
  ASSUME NEW s \in Kernel, NEW t
  PROVE  LET n == Unlink(s, t)
         IN  /\ n \in Kernel
             /\ \A q \in Priorities : RdyAt(n, q) = RdyAt(s, q) \ {t}
             /\ DItems(n) = {d \in DItems(s) : d.owner # t}
             /\ OItems(n) = {d \in OItems(s) : d.owner # t}
             /\ n.xSuspendedTaskList = s.xSuspendedTaskList \ {t}
             /\ \A e \in Events : Wts(n, e) = Wts(s, e) \ {t}
             /\ Pnd(n) = Pnd(s) \ {t}
             /\ n.uxTopReadyPriority = s.uxTopReadyPriority
             /\ n.xNextTaskUnblockTime = s.xNextTaskUnblockTime
             /\ n.xYieldPending = s.xYieldPending
             /\ SameRest(n, s)
<1> DEFINE m == RemoveState(s, t)
           n == Unlink(s, t)
<1>1. /\ m \in Kernel
      /\ \A q \in Priorities : RdyAt(m, q) = RdyAt(s, q) \ {t}
      /\ DItems(m) = {d \in DItems(s) : d.owner # t}
      /\ OItems(m) = {d \in OItems(s) : d.owner # t}
      /\ m.xSuspendedTaskList = s.xSuspendedTaskList \ {t}
      /\ m.uxTopReadyPriority = s.uxTopReadyPriority
      /\ m.xNextTaskUnblockTime = s.xNextTaskUnblockTime
      /\ m.xYieldPending = s.xYieldPending
      /\ SameEvents(m, s) /\ SameRest(m, s)
  BY RemoveStateFacts
<1>2. n = RemoveEvent(m, t)
  BY DEF Unlink
<1> HIDE DEF m, n
<1>3. /\ n \in Kernel
      /\ \A e \in Events : Wts(n, e) = Wts(m, e) \ {t}
      /\ Pnd(n) = Pnd(m) \ {t}
      /\ n.xSuspendedTaskList = m.xSuspendedTaskList
      /\ n.xYieldPending = m.xYieldPending
      /\ SameReady(n, m) /\ SameDelayed(n, m) /\ SameRest(n, m)
  BY <1>1, <1>2, RemoveEventFacts
<1>4. /\ \A q \in Priorities : RdyAt(n, q) = RdyAt(s, q) \ {t}
      /\ DItems(n) = {d \in DItems(s) : d.owner # t}
      /\ OItems(n) = {d \in OItems(s) : d.owner # t}
      /\ n.uxTopReadyPriority = s.uxTopReadyPriority
      /\ n.xNextTaskUnblockTime = s.xNextTaskUnblockTime
  BY <1>1, <1>3 DEF SameReady, SameDelayed, RdyAt, DItems, OItems
<1>5. /\ \A e \in Events : Wts(n, e) = Wts(s, e) \ {t}
      /\ Pnd(n) = Pnd(s) \ {t}
  BY <1>1, <1>3 DEF SameEvents, Wts, Pnd
<1>6. SameRest(n, s)
  BY <1>1, <1>3 DEF SameRest
<1> QED BY <1>1, <1>3, <1>4, <1>5, <1>6 DEF n

\* prvResetNextTaskUnblockTime: xNextTaskUnblockTime is no later than any
\* wake time in the delayed list.
LEMMA ResetFacts ==
  ASSUME NEW s \in Kernel
  PROVE  LET n == prvResetNextTaskUnblockTime(s)
         IN  /\ n \in Kernel
             /\ \A d \in DItems(n) : n.xNextTaskUnblockTime <= d.value
             /\ DItems(n) = DItems(s) /\ OItems(n) = OItems(s)
             /\ n.xSuspendedTaskList = s.xSuspendedTaskList
             /\ n.xYieldPending = s.xYieldPending
             /\ SameReady(n, s) /\ SameEvents(n, s) /\ SameRest(n, s)
<1> DEFINE d == s.pxDelayedTaskList
           v == IF d = <<>> THEN portMAX_DELAY ELSE Head(d).value
           n == prvResetNextTaskUnblockTime(s)
<1>1. d \in DList
  BY DEF Kernel
<1>2. v \in 0..portMAX_DELAY /\ \A x \in ToSet(d) : v <= x.value
  <2>1. CASE d = <<>>
    BY <2>1, BoundsAssumption DEF portMAX_DELAY, ToSet
  <2>2. CASE d # <<>>
    <3> HIDE DEF d
    <3>1. Head(d) \in ToSet(d) /\ \A x \in ToSet(d) : Head(d).value <= x.value
      BY <1>1, <2>2, DelayedHead
    <3>2. Head(d) \in Item
      BY <1>1, <3>1, DelayedFacts
    <3> QED BY <2>2, <3>1, <3>2, ItemFields
  <2> QED BY <2>1, <2>2
<1>3. n = [s EXCEPT !.xNextTaskUnblockTime = v]
  BY DEF prvResetNextTaskUnblockTime, Kernel
<1> HIDE DEF n, v
<1>4. n \in Kernel
  BY <1>2, <1>3 DEF Kernel
<1>5. /\ n.xNextTaskUnblockTime = v
      /\ n.pxDelayedTaskList = s.pxDelayedTaskList
      /\ n.pxOverflowDelayedTaskList = s.pxOverflowDelayedTaskList
      /\ n.xSuspendedTaskList = s.xSuspendedTaskList
      /\ n.xYieldPending = s.xYieldPending
  BY <1>3 DEF Kernel
<1>6. SameReady(n, s) /\ SameEvents(n, s) /\ SameRest(n, s)
  BY <1>3 DEF Kernel, SameReady, SameEvents, SameRest
<1> QED BY <1>2, <1>4, <1>5, <1>6 DEF n, DItems, OItems

\* Unblock makes t ready and takes it out of every other list.
LEMMA UnblockFacts ==
  ASSUME NEW s \in Kernel, NEW t \in Threads
  PROVE  LET n == Unblock(s, t)
             p == s.uxPriority[t]
         IN  /\ n \in Kernel
             /\ \A q \in Priorities : RdyAt(n, q) = IF q = p THEN RdyAt(s, q) \cup {t}
                                                    ELSE RdyAt(s, q) \ {t}
             /\ DItems(n) = {d \in DItems(s) : d.owner # t}
             /\ OItems(n) = {d \in OItems(s) : d.owner # t}
             /\ n.xSuspendedTaskList = s.xSuspendedTaskList \ {t}
             /\ \A e \in Events : Wts(n, e) = Wts(s, e) \ {t}
             /\ Pnd(n) = Pnd(s) \ {t}
             /\ n.uxTopReadyPriority = IF p > s.uxTopReadyPriority THEN p
                                       ELSE s.uxTopReadyPriority
             /\ n.xNextTaskUnblockTime = s.xNextTaskUnblockTime
             /\ n.xYieldPending = s.xYieldPending
             /\ SameRest(n, s)
<1> DEFINE m == Unlink(s, t)
           n == Unblock(s, t)
           p == s.uxPriority[t]
<1>1. /\ m \in Kernel
      /\ \A q \in Priorities : RdyAt(m, q) = RdyAt(s, q) \ {t}
      /\ DItems(m) = {d \in DItems(s) : d.owner # t}
      /\ OItems(m) = {d \in OItems(s) : d.owner # t}
      /\ m.xSuspendedTaskList = s.xSuspendedTaskList \ {t}
      /\ \A e \in Events : Wts(m, e) = Wts(s, e) \ {t}
      /\ Pnd(m) = Pnd(s) \ {t}
      /\ m.uxTopReadyPriority = s.uxTopReadyPriority
      /\ m.xNextTaskUnblockTime = s.xNextTaskUnblockTime
      /\ m.xYieldPending = s.xYieldPending
      /\ SameRest(m, s)
  BY UnlinkFacts
<1>2. n = prvAddTaskToReadyList(m, t)
  BY DEF Unblock
<1>3. p \in Priorities /\ m.uxPriority[t] = p /\ t \notin RdyAt(m, p)
  BY <1>1 DEF Kernel, SameRest
<1> HIDE DEF m, n, p
<1>4. /\ n \in Kernel
      /\ \A q \in Priorities : RdyAt(n, q) = IF q = p THEN RdyAt(m, q) \cup {t} ELSE RdyAt(m, q)
      /\ n.uxTopReadyPriority = IF p > m.uxTopReadyPriority THEN p ELSE m.uxTopReadyPriority
      /\ n.xSuspendedTaskList = m.xSuspendedTaskList
      /\ n.xYieldPending = m.xYieldPending
      /\ SameDelayed(n, m) /\ SameEvents(n, m) /\ SameRest(n, m)
  BY <1>1, <1>2, <1>3, AddReadyFacts
<1>5. /\ DItems(n) = {d \in DItems(s) : d.owner # t}
      /\ OItems(n) = {d \in OItems(s) : d.owner # t}
      /\ n.xNextTaskUnblockTime = s.xNextTaskUnblockTime
  BY <1>1, <1>4 DEF SameDelayed, DItems, OItems
<1>6. /\ \A e \in Events : Wts(n, e) = Wts(s, e) \ {t}
      /\ Pnd(n) = Pnd(s) \ {t}
  BY <1>1, <1>4 DEF SameEvents, Wts, Pnd
<1>7. SameRest(n, s)
  BY <1>1, <1>4 DEF SameRest
<1>8. \A q \in Priorities : RdyAt(n, q) = IF q = p THEN RdyAt(s, q) \cup {t}
                                          ELSE RdyAt(s, q) \ {t}
  BY <1>1, <1>4
<1> QED BY <1>1, <1>4, <1>5, <1>6, <1>7, <1>8 DEF n, p

\* Priorities are numbers.
LEMMA PriorityFacts == \A p \in Priorities : p \in Nat
  BY DEF Priorities

\* prvAddCurrentTaskToDelayedList takes the running task out of its ready
\* list and puts it in the suspended list, or in the delayed list that its
\* wake time belongs to, and keeps xNextTaskUnblockTime no later than it.
LEMMA AddCurrentFacts ==
  ASSUME NEW s \in Kernel, s.pxCurrentTCB \in Tasks,
         NEW n \in 0..portMAX_DELAY, NEW forever \in BOOLEAN
  PROVE  LET r == prvAddCurrentTaskToDelayedList(s, n, forever)
             t == s.pxCurrentTCB
             wake == (s.xTickCount + n) % Wrap
             x == [owner |-> t, value |-> wake]
             D == {d \in DItems(s) : d.owner # t}
             O == {d \in OItems(s) : d.owner # t}
         IN  /\ r \in Kernel
             /\ \A q \in Priorities : RdyAt(r, q) = RdyAt(s, q) \ {t}
             /\ x \in Item
             /\ \/ /\ n = portMAX_DELAY /\ forever
                   /\ DItems(r) = D /\ OItems(r) = O
                   /\ r.xSuspendedTaskList = s.xSuspendedTaskList \cup {t}
                   /\ r.xNextTaskUnblockTime = s.xNextTaskUnblockTime
                \/ /\ ~ (n = portMAX_DELAY /\ forever) /\ wake < s.xTickCount
                   /\ DItems(r) = D /\ OItems(r) = O \cup {x}
                   /\ r.xSuspendedTaskList = s.xSuspendedTaskList \ {t}
                   /\ r.xNextTaskUnblockTime = s.xNextTaskUnblockTime
                \/ /\ ~ (n = portMAX_DELAY /\ forever) /\ ~ (wake < s.xTickCount)
                   /\ DItems(r) = D \cup {x} /\ OItems(r) = O
                   /\ r.xSuspendedTaskList = s.xSuspendedTaskList \ {t}
                   /\ r.xNextTaskUnblockTime = IF wake < s.xNextTaskUnblockTime THEN wake
                                               ELSE s.xNextTaskUnblockTime
             /\ r.uxTopReadyPriority = s.uxTopReadyPriority
             /\ r.xYieldPending = s.xYieldPending
             /\ SameEvents(r, s) /\ SameRest(r, s)
<1> DEFINE r == prvAddCurrentTaskToDelayedList(s, n, forever)
           t == s.pxCurrentTCB
           wake == (s.xTickCount + n) % Wrap
           x == [owner |-> t, value |-> wake]
           D == {d \in DItems(s) : d.owner # t}
           O == {d \in OItems(s) : d.owner # t}
           m == RemoveState(s, t)
<1>1. /\ m \in Kernel
      /\ \A q \in Priorities : RdyAt(m, q) = RdyAt(s, q) \ {t}
      /\ DItems(m) = D /\ OItems(m) = O
      /\ m.xSuspendedTaskList = s.xSuspendedTaskList \ {t}
      /\ m.uxTopReadyPriority = s.uxTopReadyPriority
      /\ m.xNextTaskUnblockTime = s.xNextTaskUnblockTime
      /\ m.xYieldPending = s.xYieldPending
      /\ SameEvents(m, s) /\ SameRest(m, s)
  BY RemoveStateFacts
<1>2. wake \in 0..portMAX_DELAY /\ x \in Item /\ x.owner = t /\ x.value = wake
  BY BoundsAssumption DEF Kernel, Item, portMAX_DELAY
<1> DEFINE overflow == Insert(m.pxOverflowDelayedTaskList, x, FirstLater(m.pxOverflowDelayedTaskList, wake))
           delayed == Insert(m.pxDelayedTaskList, x, FirstLater(m.pxDelayedTaskList, wake))
           next == IF wake < m.xNextTaskUnblockTime THEN wake ELSE m.xNextTaskUnblockTime
<1>3. r = IF n = portMAX_DELAY /\ forever
          THEN [m EXCEPT !.xSuspendedTaskList = @ \cup {t}]
          ELSE IF wake < s.xTickCount
          THEN [m EXCEPT !.pxOverflowDelayedTaskList = overflow]
          ELSE [m EXCEPT !.pxDelayedTaskList = delayed, !.xNextTaskUnblockTime = next]
  BY <1>1 DEF prvAddCurrentTaskToDelayedList, Overflows, Kernel
<1>4. /\ overflow \in DList /\ ToSet(overflow) = O \cup {x}
      /\ delayed \in DList /\ ToSet(delayed) = D \cup {x}
      /\ next \in 0..portMAX_DELAY
  <2>1. m.pxOverflowDelayedTaskList \in DList /\ m.pxDelayedTaskList \in DList
        /\ m.xNextTaskUnblockTime \in 0..portMAX_DELAY
    BY <1>1 DEF Kernel
  <2>2. /\ \A d \in ToSet(m.pxOverflowDelayedTaskList) : d.owner # x.owner
        /\ \A d \in ToSet(m.pxDelayedTaskList) : d.owner # x.owner
    BY <1>1, <1>2 DEF DItems, OItems
  <2>3. /\ O = ToSet(m.pxOverflowDelayedTaskList)
        /\ D = ToSet(m.pxDelayedTaskList)
    BY <1>1 DEF DItems, OItems
  <2> HIDE DEF x, wake, m, D, O
  <2>4. /\ Insert(m.pxOverflowDelayedTaskList, x, FirstLater(m.pxOverflowDelayedTaskList, x.value)) \in DList
        /\ ToSet(Insert(m.pxOverflowDelayedTaskList, x, FirstLater(m.pxOverflowDelayedTaskList, x.value)))
             = ToSet(m.pxOverflowDelayedTaskList) \cup {x}
    BY <1>2, <2>1, <2>2, DelayedInsert
  <2>5. /\ Insert(m.pxDelayedTaskList, x, FirstLater(m.pxDelayedTaskList, x.value)) \in DList
        /\ ToSet(Insert(m.pxDelayedTaskList, x, FirstLater(m.pxDelayedTaskList, x.value)))
             = ToSet(m.pxDelayedTaskList) \cup {x}
    BY <1>2, <2>1, <2>2, DelayedInsert
  <2>6. next \in 0..portMAX_DELAY
    BY <1>2, <2>1
  <2> QED BY <1>2, <2>3, <2>4, <2>5, <2>6
<1>5. t \in Tasks
  OBVIOUS
<1> HIDE DEF r, wake, x, D, O, m, overflow, delayed, next
<1>6. CASE n = portMAX_DELAY /\ forever
  <2>1. r = [m EXCEPT !.xSuspendedTaskList = @ \cup {t}]
    BY <1>3, <1>6
  <2>2. r \in Kernel
    BY <1>1, <1>5, <2>1 DEF Kernel
  <2>3. r.xSuspendedTaskList = s.xSuspendedTaskList \cup {t}
    BY <1>1, <2>1 DEF Kernel
  <2>4. /\ SameReady(r, m) /\ SameDelayed(r, m) /\ SameEvents(r, m) /\ SameRest(r, m)
        /\ r.xYieldPending = m.xYieldPending
    BY <1>1, <2>1 DEF Kernel, SameReady, SameDelayed, SameEvents, SameRest
  <2>5. DItems(r) = D /\ OItems(r) = O /\ r.xNextTaskUnblockTime = s.xNextTaskUnblockTime
        /\ \A q \in Priorities : RdyAt(r, q) = RdyAt(s, q) \ {t}
    BY <1>1, <2>4 DEF SameReady, SameDelayed, DItems, OItems, RdyAt
  <2>6. /\ SameEvents(r, s) /\ SameRest(r, s)
        /\ r.xYieldPending = s.xYieldPending /\ r.uxTopReadyPriority = s.uxTopReadyPriority
    BY <1>1, <2>4 DEF SameReady, SameEvents, SameRest
  <2> QED BY <1>2, <1>6, <2>2, <2>3, <2>5, <2>6 DEF r, wake, x, D, O
<1>7. CASE ~ (n = portMAX_DELAY /\ forever) /\ wake < s.xTickCount
  <2>1. r = [m EXCEPT !.pxOverflowDelayedTaskList = overflow]
    BY <1>3, <1>7
  <2>2. r \in Kernel
    BY <1>1, <1>4, <2>1 DEF Kernel
  <2>3. OItems(r) = O \cup {x}
    BY <1>1, <1>4, <2>1 DEF Kernel, OItems
  <2>4. /\ SameReady(r, m) /\ SameEvents(r, m) /\ SameRest(r, m)
        /\ r.pxDelayedTaskList = m.pxDelayedTaskList
        /\ r.xNextTaskUnblockTime = m.xNextTaskUnblockTime
        /\ r.xYieldPending = m.xYieldPending
        /\ r.xSuspendedTaskList = m.xSuspendedTaskList
    BY <1>1, <2>1 DEF Kernel, SameReady, SameEvents, SameRest
  <2>5. DItems(r) = D /\ r.xNextTaskUnblockTime = s.xNextTaskUnblockTime
        /\ r.xSuspendedTaskList = s.xSuspendedTaskList \ {t}
        /\ \A q \in Priorities : RdyAt(r, q) = RdyAt(s, q) \ {t}
    BY <1>1, <2>4 DEF SameReady, DItems, RdyAt
  <2>6. /\ SameEvents(r, s) /\ SameRest(r, s)
        /\ r.xYieldPending = s.xYieldPending /\ r.uxTopReadyPriority = s.uxTopReadyPriority
    BY <1>1, <2>4 DEF SameReady, SameEvents, SameRest
  <2> QED BY <1>2, <1>7, <2>2, <2>3, <2>5, <2>6 DEF r, wake, x, D, O
<1>8. CASE ~ (n = portMAX_DELAY /\ forever) /\ ~ (wake < s.xTickCount)
  <2>1. r = [m EXCEPT !.pxDelayedTaskList = delayed, !.xNextTaskUnblockTime = next]
    BY <1>3, <1>8
  <2>2. r \in Kernel
    BY <1>1, <1>4, <2>1 DEF Kernel
  <2>3. DItems(r) = D \cup {x}
    BY <1>1, <1>4, <2>1 DEF Kernel, DItems
  <2>4. /\ SameReady(r, m) /\ SameEvents(r, m) /\ SameRest(r, m)
        /\ r.pxOverflowDelayedTaskList = m.pxOverflowDelayedTaskList
        /\ r.xNextTaskUnblockTime = next
        /\ r.xYieldPending = m.xYieldPending
        /\ r.xSuspendedTaskList = m.xSuspendedTaskList
    BY <1>1, <2>1 DEF Kernel, SameReady, SameEvents, SameRest
  <2>5. OItems(r) = O
        /\ r.xSuspendedTaskList = s.xSuspendedTaskList \ {t}
        /\ \A q \in Priorities : RdyAt(r, q) = RdyAt(s, q) \ {t}
    BY <1>1, <2>4 DEF SameReady, OItems, RdyAt
  <2>6. /\ SameEvents(r, s) /\ SameRest(r, s)
        /\ r.xYieldPending = s.xYieldPending /\ r.uxTopReadyPriority = s.uxTopReadyPriority
    BY <1>1, <2>4 DEF SameReady, SameEvents, SameRest
  <2>7. r.xNextTaskUnblockTime = IF wake < s.xNextTaskUnblockTime THEN wake ELSE s.xNextTaskUnblockTime
    BY <1>1, <2>4 DEF next
  <2> QED BY <1>2, <1>8, <2>2, <2>3, <2>5, <2>6, <2>7 DEF r, wake, x, D, O
<1> QED BY <1>6, <1>7, <1>8

\* taskSWITCH_DELAYED_LISTS exchanges the two delayed lists.
LEMMA SwitchDelayedFacts ==
  ASSUME NEW s \in Kernel
  PROVE  LET n == taskSWITCH_DELAYED_LISTS(s)
         IN  /\ n \in Kernel
             /\ \A d \in DItems(n) : n.xNextTaskUnblockTime <= d.value
             /\ DItems(n) = OItems(s) /\ OItems(n) = DItems(s)
             /\ n.xSuspendedTaskList = s.xSuspendedTaskList
             /\ n.xYieldPending = s.xYieldPending
             /\ SameReady(n, s) /\ SameEvents(n, s) /\ SameRest(n, s)
<1> DEFINE m == [s EXCEPT !.pxDelayedTaskList = s.pxOverflowDelayedTaskList,
                          !.pxOverflowDelayedTaskList = s.pxDelayedTaskList]
           n == taskSWITCH_DELAYED_LISTS(s)
<1>1. m \in Kernel
  BY DEF Kernel
<1>2. /\ m.xSuspendedTaskList = s.xSuspendedTaskList
      /\ m.xYieldPending = s.xYieldPending
      /\ SameReady(m, s) /\ SameEvents(m, s) /\ SameRest(m, s)
  BY DEF Kernel, SameReady, SameEvents, SameRest
<1>3. DItems(m) = OItems(s) /\ OItems(m) = DItems(s)
  BY DEF Kernel, DItems, OItems
<1>4. n = prvResetNextTaskUnblockTime(m)
  BY DEF taskSWITCH_DELAYED_LISTS
<1> HIDE DEF m, n
<1>5. /\ n \in Kernel
      /\ \A d \in DItems(n) : n.xNextTaskUnblockTime <= d.value
      /\ DItems(n) = DItems(m) /\ OItems(n) = OItems(m)
      /\ n.xSuspendedTaskList = m.xSuspendedTaskList
      /\ n.xYieldPending = m.xYieldPending
      /\ SameReady(n, m) /\ SameEvents(n, m) /\ SameRest(n, m)
  BY <1>1, <1>4, ResetFacts
<1>6. SameReady(n, s) /\ SameEvents(n, s) /\ SameRest(n, s)
  BY <1>2, <1>5 DEF SameReady, SameEvents, SameRest
<1> QED BY <1>2, <1>3, <1>5, <1>6 DEF n

(***************************************************************************)
(* A set X of tasks has been made ready.                                   *)
(***************************************************************************)
Woke(n, s, X) ==
    /\ n \in Kernel
    /\ \A q \in Priorities :
          RdyAt(n, q) = (RdyAt(s, q) \ X) \cup {t \in X : s.uxPriority[t] = q}
    /\ DItems(n) = {d \in DItems(s) : d.owner \notin X}
    /\ OItems(n) = {d \in OItems(s) : d.owner \notin X}
    /\ n.xSuspendedTaskList = s.xSuspendedTaskList \ X
    /\ \A e \in Events : Wts(n, e) = Wts(s, e) \ X
    /\ Pnd(n) = Pnd(s) \ X
    /\ s.uxTopReadyPriority <= n.uxTopReadyPriority
    /\ \A t \in X : s.uxPriority[t] <= n.uxTopReadyPriority
    /\ n.xNextTaskUnblockTime = s.xNextTaskUnblockTime
    /\ SameRest(n, s)

\* No task has been woken yet.
LEMMA WokeNone ==
  ASSUME NEW s \in Kernel
  PROVE  Woke(s, s, {})
<1>1. s.uxTopReadyPriority \in Nat
  BY PriorityFacts DEF Kernel
<1>2. SameRest(s, s)
  BY DEF SameRest
<1> QED BY <1>1, <1>2 DEF Woke

\* One more task is woken.
LEMMA WokeOneMore ==
  ASSUME NEW s \in Kernel, NEW m, NEW X \in SUBSET Threads, Woke(m, s, X), NEW t \in Threads
  PROVE  /\ Woke(Unblock(m, t), s, X \cup {t})
         /\ Unblock(m, t).xYieldPending = m.xYieldPending
         /\ Unblock(m, t) \in Kernel
<1> DEFINE n == Unblock(m, t)
           p == m.uxPriority[t]
           Y == X \cup {t}
<1>1. m \in Kernel
  BY DEF Woke
<1>2. /\ n \in Kernel
      /\ \A q \in Priorities : RdyAt(n, q) = IF q = p THEN RdyAt(m, q) \cup {t}
                                             ELSE RdyAt(m, q) \ {t}
      /\ DItems(n) = {d \in DItems(m) : d.owner # t}
      /\ OItems(n) = {d \in OItems(m) : d.owner # t}
      /\ n.xSuspendedTaskList = m.xSuspendedTaskList \ {t}
      /\ \A e \in Events : Wts(n, e) = Wts(m, e) \ {t}
      /\ Pnd(n) = Pnd(m) \ {t}
      /\ n.uxTopReadyPriority = IF p > m.uxTopReadyPriority THEN p ELSE m.uxTopReadyPriority
      /\ n.xNextTaskUnblockTime = m.xNextTaskUnblockTime
      /\ n.xYieldPending = m.xYieldPending
      /\ SameRest(n, m)
  BY <1>1, UnblockFacts
<1>3. m.uxPriority = s.uxPriority
  BY DEF Woke, SameRest
<1>4. /\ p \in Nat /\ m.uxTopReadyPriority \in Nat /\ s.uxTopReadyPriority \in Nat
      /\ n.uxTopReadyPriority \in Nat /\ \A u \in Threads : s.uxPriority[u] \in Nat
  BY <1>1, <1>2, PriorityFacts DEF Kernel
<1> HIDE DEF n, p
<1>5. \A q \in Priorities :
        RdyAt(n, q) = (RdyAt(s, q) \ Y) \cup {u \in Y : s.uxPriority[u] = q}
  <2> TAKE q \in Priorities
  <2>1. RdyAt(m, q) = (RdyAt(s, q) \ X) \cup {u \in X : s.uxPriority[u] = q}
    BY DEF Woke
  <2>2. p = s.uxPriority[t]
    BY <1>3 DEF p
  <2>3. CASE q = p
    BY <1>2, <2>1, <2>2, <2>3
  <2>4. CASE q # p
    BY <1>2, <2>1, <2>2, <2>4
  <2> QED BY <2>3, <2>4
<1>6. /\ DItems(n) = {d \in DItems(s) : d.owner \notin Y}
      /\ OItems(n) = {d \in OItems(s) : d.owner \notin Y}
  BY <1>2 DEF Woke
<1>7. /\ n.xSuspendedTaskList = s.xSuspendedTaskList \ Y
      /\ \A e \in Events : Wts(n, e) = Wts(s, e) \ Y
      /\ Pnd(n) = Pnd(s) \ Y
  BY <1>2 DEF Woke
<1>8. s.uxTopReadyPriority <= n.uxTopReadyPriority
  BY <1>2, <1>4 DEF Woke
<1>9. \A u \in Y : s.uxPriority[u] <= n.uxTopReadyPriority
  <2> TAKE u \in Y
  <2>1. CASE u = t
    BY <1>2, <1>3, <1>4, <2>1 DEF p
  <2>2. CASE u \in X
    BY <1>2, <1>4, <2>2 DEF Woke
  <2> QED BY <2>1, <2>2
<1>10. n.xNextTaskUnblockTime = s.xNextTaskUnblockTime /\ SameRest(n, s)
  BY <1>2 DEF Woke, SameRest
<1> HIDE DEF Y
<1>11. Woke(n, s, Y)
  BY <1>2, <1>5, <1>6, <1>7, <1>8, <1>9, <1>10 DEF Woke
<1> QED BY <1>2, <1>11 DEF n, Y

UnblockOwner(u, d) == Unblock(u, d.owner)
DueFold == INSTANCE Folding WITH Op <- UnblockOwner, K <- Kernel, D <- Item

\* The loop over the due items goes from kernel state to kernel state.
LEMMA UnblockOwnerType == \A u \in Kernel, d \in Item : UnblockOwner(u, d) \in Kernel
<1> TAKE u \in Kernel, d \in Item
<1>1. d.owner \in Threads
  BY ItemFields
<1> QED BY <1>1, UnblockFacts DEF UnblockOwner

\* The loop of xTaskIncrementTick over the items that are due wakes exactly
\* their owners.
LEMMA WakeAllDue ==
  ASSUME NEW s \in Kernel, NEW due \in Seq(Item)
  PROVE  LET n == FoldLeft(LAMBDA u, d : Unblock(u, d.owner), s, due)
         IN  Woke(n, s, {due[i].owner : i \in 1..Len(due)}) /\ n.xYieldPending = s.xYieldPending
<1> DEFINE n == FoldLeft(LAMBDA u, d : Unblock(u, d.owner), s, due)
<1>1. \E g \in [0..Len(due) -> Kernel] :
            /\ g[0] = s
            /\ \A i \in 1..Len(due) : g[i] = UnblockOwner(g[i - 1], due[i])
            /\ DueFold!FoldLeft(UnblockOwner, s, due) = g[Len(due)]
  BY UnblockOwnerType, Induct, DueFold!FoldSteps
<1>2. n = DueFold!FoldLeft(UnblockOwner, s, due)
  BY DEF UnblockOwner, FoldLeft, MapThenFoldSet, DueFold!FoldLeft, DueFold!MapThenFoldSet,
         Max, DueFold!Max
<1> HIDE DEF n
<1>3. PICK g \in [0..Len(due) -> Kernel] :
            /\ g[0] = s
            /\ \A i \in 1..Len(due) : g[i] = UnblockOwner(g[i - 1], due[i])
            /\ n = g[Len(due)]
  BY <1>1, <1>2
<1> DEFINE X(i) == {due[j].owner : j \in 1..i}
           P(i) == i <= Len(due) =>
                     Woke(g[i], s, X(i)) /\ g[i].xYieldPending = s.xYieldPending
           Q == {i \in Nat : P(i)}
<1>4. 0 \in Q
  <2>1. X(0) = {}
    OBVIOUS
  <2> HIDE DEF X
  <2>2. P(0)
    BY <1>3, <2>1, WokeNone
  <2> HIDE DEF P
  <2> QED BY <2>2
<1>5. ASSUME NEW i \in Nat, i \in Q PROVE i + 1 \in Q
  <2>1. P(i)
    BY <1>5
  <2> SUFFICES ASSUME i + 1 <= Len(due)
               PROVE  /\ Woke(g[i + 1], s, X(i + 1))
                      /\ g[i + 1].xYieldPending = s.xYieldPending
    OBVIOUS
  <2>2. Len(due) \in Nat /\ i <= Len(due) /\ i + 1 \in 1..Len(due)
    OBVIOUS
  <2>3. due[i + 1] \in Item /\ due[i + 1].owner \in Threads
    BY <2>2, ItemFields
  <2>4. X(i) \in SUBSET Threads
    <3>1. \A j \in 1..i : due[j] \in Item
      BY <2>2
    <3> QED BY <3>1, ItemFields
  <2>5. X(i + 1) = X(i) \cup {due[i + 1].owner}
    <3>1. 1..(i + 1) = (1..i) \cup {i + 1}
      OBVIOUS
    <3> QED BY <3>1
  <2>6. g[i + 1] = Unblock(g[i], due[i + 1].owner)
    <3>1. g[i + 1] = UnblockOwner(g[i + 1 - 1], due[i + 1])
      BY <1>3, <2>2
    <3>2. i + 1 - 1 = i
      OBVIOUS
    <3> QED BY <3>1, <3>2 DEF UnblockOwner
  <2> HIDE DEF X
  <2>7. Woke(g[i], s, X(i)) /\ g[i].xYieldPending = s.xYieldPending
    BY <2>1, <2>2
  <2>8. /\ Woke(Unblock(g[i], due[i + 1].owner), s, X(i) \cup {due[i + 1].owner})
        /\ Unblock(g[i], due[i + 1].owner).xYieldPending = g[i].xYieldPending
    BY <2>3, <2>4, <2>7, WokeOneMore
  <2> QED BY <2>5, <2>6, <2>7, <2>8
<1>6. Nat \subseteq Q
  <2> HIDE DEF Q
  <2> QED BY <1>4, <1>5, Induct
<1>7. P(Len(due))
  <2> HIDE DEF P
  <2> QED BY <1>6
<1>8. Woke(n, s, X(Len(due))) /\ n.xYieldPending = s.xYieldPending
  <2> HIDE DEF X
  <2>1. Len(due) <= Len(due)
    OBVIOUS
  <2> QED BY <1>3, <1>7, <2>1
<1> QED BY <1>8 DEF n

DueItems(l, now) ==
    LET f == FirstLater(l, now) IN IF f = 0 THEN l ELSE SubSeq(l, 1, f - 1)

\* The items that are due are a prefix of the delayed list, which is
\* sorted.
LEMMA DuePrefix ==
  ASSUME NEW l \in DList, NEW now \in Nat
  PROVE  /\ DueItems(l, now) \in Seq(Item)
         /\ ToSet(DueItems(l, now)) = {d \in ToSet(l) : d.value <= now}
<1> DEFINE f == FirstLater(l, now)
           r == DueItems(l, now)
           n == IF f = 0 THEN Len(l) ELSE f - 1
<1>1. /\ l \in Seq(Item) /\ Len(l) \in Nat /\ ToSet(l) = {l[j] : j \in 1..Len(l)}
      /\ \A j, m \in 1..Len(l) : j <= m => l[j].value <= l[m].value
      /\ \A j \in 1..Len(l) : l[j].value \in Nat
  BY DelayedFacts
<1>2. /\ f \in 0..Len(l)
      /\ f = 0 => \A j \in 1..Len(l) : ~ (l[j].value > now)
      /\ f # 0 => l[f].value > now /\ \A j \in 1..(f - 1) : ~ (l[j].value > now)
  BY <1>1, SelectLater
<1>3. r = IF f = 0 THEN l ELSE SubSeq(l, 1, f - 1)
  BY DEF DueItems
<1> HIDE DEF f, r
<1>4. n \in 0..Len(l) /\ n \in Nat
  BY <1>1, <1>2
<1>5. /\ \A j \in 1..Len(l) : j <= n => l[j].value <= now
      /\ \A j \in 1..Len(l) : j > n => l[j].value > now
  BY <1>1, <1>2
<1>6. r \in Seq(Item) /\ Len(r) = n /\ \A j \in 1..n : r[j] = l[j]
  BY <1>1, <1>2, <1>3
<1> HIDE DEF n
<1>7. ToSet(r) = {r[j] : j \in 1..Len(r)}
  BY <1>6, ElementsOf
<1>8. \A j \in 1..n : j \in 1..Len(l) /\ j <= n
  BY <1>1, <1>4
<1>9. \A d \in ToSet(r) : d \in ToSet(l) /\ d.value <= now
  BY <1>1, <1>5, <1>6, <1>7, <1>8
<1>10. ASSUME NEW d \in ToSet(l), d.value <= now PROVE d \in ToSet(r)
  <2>1. PICK j \in 1..Len(l) : d = l[j]
    BY <1>1
  <2>2. j <= n /\ j \in 1..n
    BY <1>1, <1>4, <1>5, <1>10, <2>1
  <2> QED BY <1>6, <1>7, <2>1, <2>2
<1>11. ToSet(r) = {d \in ToSet(l) : d.value <= now}
  BY <1>9, <1>10
<1> QED BY <1>6, <1>11 DEF r

\* xTaskIncrementTick when the scheduler is not suspended: exactly the
\* tasks whose wake time the new count reaches, in the list that is current
\* after a wrap, are made ready, and a switch is asked for if one of them
\* is above the running task or a yield was pending.
LEMMA TickFacts ==
  ASSUME NEW s \in Kernel, s.uxSchedulerSuspended = 0,
         \A d \in DItems(s) : s.xNextTaskUnblockTime <= d.value
  PROVE  LET now == (s.xTickCount + 1) % Wrap
             r == xTaskIncrementTick(s)
             n == r.s
             D == IF now = 0 THEN OItems(s) ELSE DItems(s)
             O == IF now = 0 THEN DItems(s) ELSE OItems(s)
             X == {d.owner : d \in {c \in D : c.value <= now}}
             p == s.uxPriority[s.pxCurrentTCB]
         IN  /\ n \in Kernel /\ X \in SUBSET Threads
             /\ \A q \in Priorities :
                   RdyAt(n, q) = (RdyAt(s, q) \ X) \cup {t \in X : s.uxPriority[t] = q}
             /\ DItems(n) = {d \in D : d.owner \notin X}
             /\ OItems(n) = {d \in O : d.owner \notin X}
             /\ \A d \in DItems(n) : n.xNextTaskUnblockTime <= d.value
             /\ n.xSuspendedTaskList = s.xSuspendedTaskList \ X
             /\ \A e \in Events : Wts(n, e) = Wts(s, e) \ X
             /\ Pnd(n) = Pnd(s) \ X
             /\ s.uxTopReadyPriority <= n.uxTopReadyPriority
             /\ \A t \in X : s.uxPriority[t] <= n.uxTopReadyPriority
             /\ n.xTickCount = now /\ n.xYieldPending = s.xYieldPending
             /\ n.xTasksWaitingTermination = s.xTasksWaitingTermination
             /\ n.uxPriority = s.uxPriority
             /\ n.xPendedTicks = s.xPendedTicks
             /\ n.uxSchedulerSuspended = s.uxSchedulerSuspended
             /\ n.pxCurrentTCB = s.pxCurrentTCB
             /\ r.switch \in BOOLEAN
             /\ \A t \in X : s.uxPriority[t] > p => r.switch
             /\ s.xYieldPending => r.switch
<1> DEFINE now == (s.xTickCount + 1) % Wrap
           r == xTaskIncrementTick(s)
           n == r.s
           D == IF now = 0 THEN OItems(s) ELSE DItems(s)
           O == IF now = 0 THEN DItems(s) ELSE OItems(s)
           p == s.uxPriority[s.pxCurrentTCB]
           s1 == [s EXCEPT !.xTickCount = now]
           s2 == IF now = 0 THEN taskSWITCH_DELAYED_LISTS(s1) ELSE s1
           expired == now >= s2.xNextTaskUnblockTime
           due == IF ~expired THEN <<>> ELSE DueItems(s2.pxDelayedTaskList, now)
           s3 == FoldLeft(LAMBDA u, d : Unblock(u, d.owner), s2, due)
           s4 == IF expired THEN prvResetNextTaskUnblockTime(s3) ELSE s3
<1>1. r = [s |-> s4,
           switch |-> \/ \E d \in ToSet(due) : s.uxPriority[d.owner] > p
                      \/ SharesPriority(s4.pxReadyTasksLists[p])
                      \/ s.xYieldPending]
  BY DEF xTaskIncrementTick, DueItems
<1>2. now \in 0..portMAX_DELAY /\ now \in Nat
  BY BoundsAssumption DEF Kernel, portMAX_DELAY
<1> HIDE DEF r, now
<1>3. s1 \in Kernel
  BY <1>2 DEF Kernel
<1>4. /\ SameReady(s1, s) /\ SameDelayed(s1, s) /\ SameEvents(s1, s)
      /\ s1.xSuspendedTaskList = s.xSuspendedTaskList
      /\ s1.xYieldPending = s.xYieldPending
      /\ s1.xTickCount = now
      /\ s1.xTasksWaitingTermination = s.xTasksWaitingTermination
      /\ s1.uxPriority = s.uxPriority /\ s1.xPendedTicks = s.xPendedTicks
      /\ s1.uxSchedulerSuspended = s.uxSchedulerSuspended
      /\ s1.pxCurrentTCB = s.pxCurrentTCB
  BY DEF Kernel, SameReady, SameDelayed, SameEvents
<1> HIDE DEF s1
<1>5. /\ s2 \in Kernel /\ DItems(s2) = D /\ OItems(s2) = O
      /\ \A d \in DItems(s2) : s2.xNextTaskUnblockTime <= d.value
      /\ s2.xSuspendedTaskList = s1.xSuspendedTaskList
      /\ s2.xYieldPending = s1.xYieldPending
      /\ SameReady(s2, s1) /\ SameEvents(s2, s1) /\ SameRest(s2, s1)
  <2>1. DItems(s1) = DItems(s) /\ OItems(s1) = OItems(s)
        /\ \A d \in DItems(s1) : s1.xNextTaskUnblockTime <= d.value
    BY <1>4 DEF SameDelayed, DItems, OItems
  <2>2. CASE now = 0
    BY <1>3, <2>1, <2>2, SwitchDelayedFacts
  <2>3. CASE now # 0
    BY <1>3, <2>1, <2>3 DEF SameReady, SameEvents, SameRest
  <2> QED BY <2>2, <2>3
<1> HIDE DEF s2, D, O
<1> DEFINE X == {d.owner : d \in {c \in D : c.value <= now}}
<1>6. D \subseteq Item
  BY <1>5, DelayedFacts DEF Kernel, DItems
<1>7. X \in SUBSET Threads
  BY <1>6, ItemFields
<1>8. s2.xNextTaskUnblockTime \in Nat /\ s2.pxDelayedTaskList \in DList
  BY <1>5, BoundsAssumption DEF Kernel, portMAX_DELAY
<1>9. due \in Seq(Item) /\ ToSet(due) = {c \in D : c.value <= now}
  <2>1. CASE ~expired
    <3>1. \A c \in D : ~ (c.value <= now)
      BY <1>2, <1>5, <1>6, <1>8, <2>1, ItemFields
    <3> QED BY <2>1, <3>1 DEF ToSet
  <2>2. CASE expired
    BY <1>2, <1>5, <1>8, <2>2, DuePrefix DEF DItems
  <2> QED BY <2>1, <2>2
<1> HIDE DEF due
<1>10. {due[i].owner : i \in 1..Len(due)} = X
  <2>1. ToSet(due) = {due[i] : i \in 1..Len(due)}
    BY <1>9, ElementsOf
  <2>2. \A i \in 1..Len(due) : due[i] \in {c \in D : c.value <= now}
    BY <1>9, <2>1
  <2>3. \A d \in {c \in D : c.value <= now} : \E i \in 1..Len(due) : d = due[i]
    BY <1>9, <2>1
  <2> QED BY <2>2, <2>3
<1> HIDE DEF X
<1>11. Woke(s3, s2, X) /\ s3.xYieldPending = s2.xYieldPending
  BY <1>5, <1>9, <1>10, WakeAllDue
<1> HIDE DEF s3
<1>12. /\ s4 \in Kernel
       /\ DItems(s4) = DItems(s3) /\ OItems(s4) = OItems(s3)
       /\ \A d \in DItems(s4) : s4.xNextTaskUnblockTime <= d.value
       /\ s4.xSuspendedTaskList = s3.xSuspendedTaskList
       /\ s4.xYieldPending = s3.xYieldPending
       /\ SameReady(s4, s3) /\ SameEvents(s4, s3) /\ SameRest(s4, s3)
  <2>1. s3 \in Kernel
    BY <1>11 DEF Woke
  <2>2. CASE expired
    BY <2>1, <2>2, ResetFacts
  <2>3. CASE ~expired
    <3>1. \A d \in DItems(s3) : s3.xNextTaskUnblockTime <= d.value
      BY <1>5, <1>11 DEF Woke
    <3> QED BY <2>1, <2>3, <3>1 DEF SameReady, SameEvents, SameRest
  <2> QED BY <2>2, <2>3
<1> HIDE DEF s4
<1>13. n = s4
  BY <1>1
<1>14. s2.uxPriority = s.uxPriority
  BY <1>4, <1>5 DEF SameRest
<1>15. \A q \in Priorities :
          RdyAt(n, q) = (RdyAt(s, q) \ X) \cup {t \in X : s.uxPriority[t] = q}
  <2>1. \A q \in Priorities : RdyAt(s2, q) = RdyAt(s, q) /\ RdyAt(s4, q) = RdyAt(s3, q)
    BY <1>4, <1>5, <1>12 DEF SameReady, RdyAt
  <2>2. \A q \in Priorities :
          RdyAt(s3, q) = (RdyAt(s2, q) \ X) \cup {t \in X : s2.uxPriority[t] = q}
    BY <1>11 DEF Woke
  <2> QED BY <1>13, <1>14, <2>1, <2>2
<1>16. /\ DItems(n) = {d \in D : d.owner \notin X}
       /\ OItems(n) = {d \in O : d.owner \notin X}
  BY <1>5, <1>11, <1>12, <1>13 DEF Woke
<1>17. n.xSuspendedTaskList = s.xSuspendedTaskList \ X
  BY <1>4, <1>5, <1>11, <1>12, <1>13 DEF Woke
<1>18. /\ \A e \in Events : Wts(n, e) = Wts(s, e) \ X
       /\ Pnd(n) = Pnd(s) \ X
  <2>1. /\ \A e \in Events : Wts(s2, e) = Wts(s, e) /\ Wts(s4, e) = Wts(s3, e)
        /\ Pnd(s2) = Pnd(s) /\ Pnd(s4) = Pnd(s3)
    BY <1>4, <1>5, <1>12 DEF SameEvents, Wts, Pnd
  <2> QED BY <1>11, <1>13, <2>1 DEF Woke
<1>19. /\ s.uxTopReadyPriority <= n.uxTopReadyPriority
       /\ \A t \in X : s.uxPriority[t] <= n.uxTopReadyPriority
  <2>1. s2.uxTopReadyPriority = s.uxTopReadyPriority
        /\ s4.uxTopReadyPriority = s3.uxTopReadyPriority
    BY <1>4, <1>5, <1>12 DEF SameReady
  <2> QED BY <1>11, <1>13, <1>14, <2>1 DEF Woke
<1>20. /\ n.xTickCount = now /\ n.xYieldPending = s.xYieldPending
       /\ n.xTasksWaitingTermination = s.xTasksWaitingTermination
       /\ n.uxPriority = s.uxPriority
       /\ n.xPendedTicks = s.xPendedTicks
       /\ n.uxSchedulerSuspended = s.uxSchedulerSuspended
       /\ n.pxCurrentTCB = s.pxCurrentTCB
  BY <1>4, <1>5, <1>11, <1>12, <1>13 DEF Woke, SameRest
<1>21. /\ r.switch \in BOOLEAN
       /\ \A t \in X : s.uxPriority[t] > p => r.switch
       /\ s.xYieldPending => r.switch
  <2>1. s.xYieldPending \in BOOLEAN
    BY DEF Kernel
  <2>2. r.switch = (\/ \E d \in ToSet(due) : s.uxPriority[d.owner] > p
                    \/ SharesPriority(s4.pxReadyTasksLists[p])
                    \/ s.xYieldPending)
    BY <1>1
  <2>3. \A t \in X : \E d \in ToSet(due) : d.owner = t
    BY <1>9 DEF X
  <2>4. ASSUME NEW t \in X, s.uxPriority[t] > p PROVE r.switch
    BY <2>2, <2>3, <2>4
  <2>5. r.switch \in BOOLEAN
    BY <2>1, <2>2 DEF SharesPriority
  <2>6. s.xYieldPending => r.switch
    BY <2>2
  <2> QED BY <2>4, <2>5, <2>6
<1> QED BY <1>7, <1>12, <1>13, <1>15, <1>16, <1>17, <1>18, <1>19, <1>20, <1>21
        DEF r, now, D, O, X

-----------------------------------------------------------------------------
(***************************************************************************)
(* xPendingReadyList.                                                      *)
(***************************************************************************)
\* Nothing but xYieldPending changes.
LEMMA SetYieldFacts ==
  ASSUME NEW s \in Kernel, NEW y \in BOOLEAN
  PROVE  LET n == [s EXCEPT !.xYieldPending = y]
         IN  /\ n \in Kernel /\ n.xYieldPending = y
             /\ n.xSuspendedTaskList = s.xSuspendedTaskList
             /\ SameReady(n, s) /\ SameDelayed(n, s) /\ SameEvents(n, s) /\ SameRest(n, s)
<1> DEFINE n == [s EXCEPT !.xYieldPending = y]
<1>1. n \in Kernel
  BY DEF Kernel
<1>2. n.xYieldPending = y /\ n.xSuspendedTaskList = s.xSuspendedTaskList
  BY DEF Kernel
<1>3. SameReady(n, s) /\ SameDelayed(n, s) /\ SameEvents(n, s) /\ SameRest(n, s)
  BY DEF Kernel, SameReady, SameDelayed, SameEvents, SameRest
<1> QED BY <1>1, <1>2, <1>3

MoveTask(u, t) ==
    [Unblock(u, t) EXCEPT !.xYieldPending =
        @ \/ u.uxPriority[t] >= u.uxPriority[u.pxCurrentTCB]]
MoveFold == INSTANCE Folding WITH Op <- MoveTask, K <- Kernel, D <- Tasks

\* One task of xPendingReadyList is moved to its ready list.
LEMMA MoveTaskFacts ==
  ASSUME NEW s \in Kernel, NEW m, NEW X \in SUBSET Threads, Woke(m, s, X), NEW t \in Tasks
  PROVE  /\ Woke(MoveTask(m, t), s, X \cup {t})
         /\ MoveTask(m, t) \in Kernel
         /\ m.xYieldPending => MoveTask(m, t).xYieldPending
         /\ s.uxPriority[t] >= s.uxPriority[s.pxCurrentTCB] => MoveTask(m, t).xYieldPending
<1> DEFINE u == Unblock(m, t)
           y == u.xYieldPending \/ m.uxPriority[t] >= m.uxPriority[m.pxCurrentTCB]
           n == MoveTask(m, t)
<1>1. t \in Threads
  BY DEF Threads
<1>2. Woke(u, s, X \cup {t}) /\ u.xYieldPending = m.xYieldPending /\ u \in Kernel
  BY <1>1, WokeOneMore
<1>3. m.uxPriority = s.uxPriority /\ m.pxCurrentTCB = s.pxCurrentTCB
  BY DEF Woke, SameRest
<1>4. n = [u EXCEPT !.xYieldPending = y] /\ y \in BOOLEAN
  <2>1. u.xYieldPending \in BOOLEAN
    BY <1>2 DEF Kernel
  <2>2. y \in BOOLEAN
    BY <2>1
  <2>3. n = [u EXCEPT !.xYieldPending = y]
    BY <1>2 DEF MoveTask, Kernel
  <2> QED BY <2>2, <2>3
<1>5. (m.xYieldPending => y) /\ (s.uxPriority[t] >= s.uxPriority[s.pxCurrentTCB] => y)
  BY <1>2, <1>3
<1> HIDE DEF n, u, y
<1>6. /\ n \in Kernel /\ n.xYieldPending = y
      /\ n.xSuspendedTaskList = u.xSuspendedTaskList
      /\ SameReady(n, u) /\ SameDelayed(n, u) /\ SameEvents(n, u) /\ SameRest(n, u)
  BY <1>2, <1>4, SetYieldFacts
<1> DEFINE Y == X \cup {t}
<1> HIDE DEF Y
<1>7. Woke(u, s, Y)
  BY <1>2 DEF Y
<1>8. Woke(n, s, Y)
  <2>1. /\ \A q \in Priorities : RdyAt(n, q) = RdyAt(u, q)
        /\ n.uxTopReadyPriority = u.uxTopReadyPriority
    BY <1>6 DEF SameReady, RdyAt
  <2>2. DItems(n) = DItems(u) /\ OItems(n) = OItems(u)
        /\ n.xNextTaskUnblockTime = u.xNextTaskUnblockTime
    BY <1>6 DEF SameDelayed, DItems, OItems
  <2>3. Pnd(n) = Pnd(u) /\ \A e \in Events : Wts(n, e) = Wts(u, e)
    BY <1>6 DEF SameEvents, Wts, Pnd
  <2>4. SameRest(n, s)
    BY <1>6, <1>7 DEF SameRest, Woke
  <2> QED BY <1>6, <1>7, <2>1, <2>2, <2>3, <2>4 DEF Woke
<1> QED BY <1>5, <1>6, <1>8 DEF n, Y

\* The loop of xTaskResumeAll over the tasks that were held back.
LEMMA MoveAll ==
  ASSUME NEW s \in Kernel, NEW seq \in Seq(Tasks)
  PROVE  LET n == FoldLeft(MoveTask, s, seq)
         IN  /\ Woke(n, s, ToSet(seq))
             /\ s.xYieldPending => n.xYieldPending
             /\ \A t \in ToSet(seq) :
                   s.uxPriority[t] >= s.uxPriority[s.pxCurrentTCB] => n.xYieldPending
<1> DEFINE n == FoldLeft(MoveTask, s, seq)
           high(t) == s.uxPriority[t] >= s.uxPriority[s.pxCurrentTCB]
<1>1. \A u \in Kernel, t \in Tasks : MoveTask(u, t) \in Kernel
  <2> TAKE u \in Kernel, t \in Tasks
  <2>1. Woke(u, u, {})
    BY WokeNone
  <2> QED BY <2>1, MoveTaskFacts
<1>2. \E g \in [0..Len(seq) -> Kernel] :
            /\ g[0] = s
            /\ \A i \in 1..Len(seq) : g[i] = MoveTask(g[i - 1], seq[i])
            /\ MoveFold!FoldLeft(MoveTask, s, seq) = g[Len(seq)]
  BY <1>1, Induct, MoveFold!FoldSteps
<1>3. n = MoveFold!FoldLeft(MoveTask, s, seq)
  BY DEF FoldLeft, MapThenFoldSet, MoveFold!FoldLeft, MoveFold!MapThenFoldSet,
         Max, MoveFold!Max
<1> HIDE DEF n
<1>4. PICK g \in [0..Len(seq) -> Kernel] :
            /\ g[0] = s
            /\ \A i \in 1..Len(seq) : g[i] = MoveTask(g[i - 1], seq[i])
            /\ n = g[Len(seq)]
  BY <1>2, <1>3
<1> DEFINE X(i) == {seq[j] : j \in 1..i}
           P(i) == i <= Len(seq) => /\ Woke(g[i], s, X(i))
                                    /\ s.xYieldPending => g[i].xYieldPending
                                    /\ \A t \in X(i) : high(t) => g[i].xYieldPending
           Q == {i \in Nat : P(i)}
<1>5. 0 \in Q
  <2>1. X(0) = {}
    OBVIOUS
  <2> HIDE DEF X
  <2>2. P(0)
    BY <1>4, <2>1, WokeNone
  <2> HIDE DEF P
  <2> QED BY <2>2
<1>6. ASSUME NEW i \in Nat, i \in Q PROVE i + 1 \in Q
  <2>1. P(i)
    BY <1>6
  <2> SUFFICES ASSUME i + 1 <= Len(seq)
               PROVE  /\ Woke(g[i + 1], s, X(i + 1))
                      /\ s.xYieldPending => g[i + 1].xYieldPending
                      /\ \A t \in X(i + 1) : high(t) => g[i + 1].xYieldPending
    OBVIOUS
  <2>2. Len(seq) \in Nat /\ i <= Len(seq) /\ i + 1 \in 1..Len(seq)
    OBVIOUS
  <2>3. seq[i + 1] \in Tasks
    BY <2>2
  <2>4. X(i) \in SUBSET Threads
    <3>1. \A j \in 1..i : seq[j] \in Tasks
      BY <2>2
    <3> QED BY <3>1 DEF Threads
  <2>5. X(i + 1) = X(i) \cup {seq[i + 1]}
    <3>1. 1..(i + 1) = (1..i) \cup {i + 1}
      OBVIOUS
    <3> QED BY <3>1
  <2>6. g[i + 1] = MoveTask(g[i], seq[i + 1])
    <3>1. g[i + 1] = MoveTask(g[i + 1 - 1], seq[i + 1])
      BY <1>4, <2>2
    <3>2. i + 1 - 1 = i
      OBVIOUS
    <3> QED BY <3>1, <3>2
  <2> HIDE DEF X
  <2>7. /\ Woke(g[i], s, X(i)) /\ s.xYieldPending => g[i].xYieldPending
        /\ \A t \in X(i) : high(t) => g[i].xYieldPending
    BY <2>1, <2>2
  <2>8. /\ Woke(MoveTask(g[i], seq[i + 1]), s, X(i) \cup {seq[i + 1]})
        /\ g[i].xYieldPending => MoveTask(g[i], seq[i + 1]).xYieldPending
        /\ high(seq[i + 1]) => MoveTask(g[i], seq[i + 1]).xYieldPending
    <3>1. Woke(g[i], s, X(i))
      BY <2>7
    <3> QED BY <2>3, <2>4, <3>1, MoveTaskFacts
  <2> HIDE DEF high
  <2> QED BY <2>5, <2>6, <2>7, <2>8
<1>7. Nat \subseteq Q
  <2> HIDE DEF Q
  <2> QED BY <1>5, <1>6, Induct
<1>8. P(Len(seq))
  <2> HIDE DEF P
  <2> QED BY <1>7
<1>9. X(Len(seq)) = ToSet(seq)
  BY ElementsOf
<1> HIDE DEF X
<1>10. Len(seq) <= Len(seq)
  OBVIOUS
<1> QED BY <1>4, <1>8, <1>9, <1>10 DEF n

\* MovePendingReady makes exactly the tasks of xPendingReadyList ready, and
\* a yield is pending if one of them is not below the running task.
LEMMA MovePendingFacts ==
  ASSUME NEW s \in Kernel, \A d \in DItems(s) : s.xNextTaskUnblockTime <= d.value
  PROVE  LET n == MovePendingReady(s)
             X == Pnd(s)
         IN  /\ n \in Kernel /\ X \in SUBSET Threads
             /\ \A q \in Priorities :
                   RdyAt(n, q) = (RdyAt(s, q) \ X) \cup {t \in X : s.uxPriority[t] = q}
             /\ DItems(n) = {d \in DItems(s) : d.owner \notin X}
             /\ OItems(n) = {d \in OItems(s) : d.owner \notin X}
             /\ \A d \in DItems(n) : n.xNextTaskUnblockTime <= d.value
             /\ n.xSuspendedTaskList = s.xSuspendedTaskList \ X
             /\ \A e \in Events : Wts(n, e) = Wts(s, e) \ X
             /\ Pnd(n) = {}
             /\ s.uxTopReadyPriority <= n.uxTopReadyPriority
             /\ \A t \in X : s.uxPriority[t] <= n.uxTopReadyPriority
             /\ SameRest(n, s)
             /\ s.xYieldPending => n.xYieldPending
             /\ \A t \in X : s.uxPriority[t] >= s.uxPriority[s.pxCurrentTCB] => n.xYieldPending
<1> DEFINE n == MovePendingReady(s)
           X == Pnd(s)
           m == FoldLeft(MoveTask, s, s.xPendingReadyList)
<1>1. s.xPendingReadyList \in Seq(Tasks)
  BY DEF Kernel, Distinct
<1>2. X \in SUBSET Threads
  BY <1>1, ElementsOf DEF Pnd, Threads
<1>3. n = IF s.xPendingReadyList = <<>> THEN s ELSE prvResetNextTaskUnblockTime(m)
  BY DEF MovePendingReady, MoveTask, FoldLeft, MapThenFoldSet
<1>4. /\ Woke(m, s, X)
      /\ s.xYieldPending => m.xYieldPending
      /\ \A t \in X : s.uxPriority[t] >= s.uxPriority[s.pxCurrentTCB] => m.xYieldPending
  BY <1>1, MoveAll DEF Pnd
<1> HIDE DEF n, m
<1>5. CASE s.xPendingReadyList = <<>>
  <2>1. X = {} /\ n = s
    BY <1>3, <1>5 DEF Pnd, ToSet
  <2>2. s.uxTopReadyPriority \in Nat
    BY PriorityFacts DEF Kernel
  <2> HIDE DEF X
  <2> QED BY <1>2, <2>1, <2>2 DEF n, X, SameRest
<1>6. CASE s.xPendingReadyList # <<>>
  <2>1. m \in Kernel /\ n = prvResetNextTaskUnblockTime(m)
    BY <1>3, <1>4, <1>6 DEF Woke
  <2>2. /\ n \in Kernel
        /\ \A d \in DItems(n) : n.xNextTaskUnblockTime <= d.value
        /\ DItems(n) = DItems(m) /\ OItems(n) = OItems(m)
        /\ n.xSuspendedTaskList = m.xSuspendedTaskList
        /\ n.xYieldPending = m.xYieldPending
        /\ SameReady(n, m) /\ SameEvents(n, m) /\ SameRest(n, m)
    BY <2>1, ResetFacts
  <2>3. /\ \A q \in Priorities : RdyAt(n, q) = RdyAt(m, q)
        /\ n.uxTopReadyPriority = m.uxTopReadyPriority
        /\ Pnd(n) = Pnd(m) /\ \A e \in Events : Wts(n, e) = Wts(m, e)
    BY <2>2 DEF SameReady, RdyAt, SameEvents, Wts, Pnd
  <2>4. SameRest(n, s)
    BY <1>4, <2>2 DEF SameRest, Woke
  <2> HIDE DEF X
  <2>5. Pnd(n) = {}
    BY <1>4, <2>3 DEF Woke, X
  <2> QED BY <1>2, <1>4, <2>2, <2>3, <2>4, <2>5 DEF n, X, Woke
<1> QED BY <1>5, <1>6

-----------------------------------------------------------------------------
(***************************************************************************)
(* Consistent lists.                                                       *)
(***************************************************************************)
DOwn(s) == {d.owner : d \in DItems(s)}
OOwn(s) == {d.owner : d \in OItems(s)}
IsReady(s, t) == \E q \in Priorities : t \in RdyAt(s, q)
Asleep(s, t) == t \in DOwn(s) \/ t \in OOwn(s) \/ t \in s.xSuspendedTaskList
Linked(s, t) == IsReady(s, t) \/ Asleep(s, t)
Waits(s, t) == \E e \in Events : t \in Wts(s, e)

\* the state item of t is in one list, its event item in at most one
TaskOK(s, t) ==
    /\ \A q \in Priorities : t \in RdyAt(s, q) => s.uxPriority[t] = q
    /\ IsReady(s, t) => ~ Asleep(s, t) /\ ~ Waits(s, t) /\ t \notin Pnd(s)
    /\ t \in DOwn(s) => t \notin OOwn(s) /\ t \notin s.xSuspendedTaskList
    /\ t \in OOwn(s) => t \notin s.xSuspendedTaskList
    /\ \A e, f \in Events : t \in Wts(s, e) /\ t \in Wts(s, f) => e = f
    /\ t \in Pnd(s) => ~ Waits(s, t)
    /\ t \in Pnd(s) \/ Waits(s, t) => Asleep(s, t)
ListsOK(s) ==
    /\ \A t \in Threads : TaskOK(s, t)
    /\ Idle \in RdyAt(s, 0)
    /\ \A q \in Priorities : RdyAt(s, q) # {} => q <= s.uxTopReadyPriority

\* nothing ready has a higher priority than the running task
Highest(s) == \A t \in Threads : IsReady(s, t) => s.uxPriority[t] <= s.uxPriority[s.pxCurrentTCB]

\* the tasks in X have been made ready, the others are where they were
Readied(n, s, X) ==
    /\ n \in Kernel
    /\ \A q \in Priorities :
          RdyAt(n, q) = (RdyAt(s, q) \ X) \cup {t \in X : s.uxPriority[t] = q}
    /\ \/ DOwn(n) = DOwn(s) \ X /\ OOwn(n) = OOwn(s) \ X
       \/ DOwn(n) = OOwn(s) \ X /\ OOwn(n) = DOwn(s) \ X
    /\ n.xSuspendedTaskList = s.xSuspendedTaskList \ X
    /\ \A e \in Events : Wts(n, e) = Wts(s, e) \ X
    /\ Pnd(n) = Pnd(s) \ X
    /\ s.uxTopReadyPriority <= n.uxTopReadyPriority
    /\ \A t \in X : s.uxPriority[t] <= n.uxTopReadyPriority
    /\ n.uxPriority = s.uxPriority
    /\ n.pxCurrentTCB = s.pxCurrentTCB

\* A task is still in one list when a set of tasks has been made ready.
LEMMA ReadiedTask ==
  ASSUME NEW s \in Kernel, NEW n, NEW X \in SUBSET Threads, Readied(n, s, X),
         NEW t \in Threads, TaskOK(s, t)
  PROVE  /\ TaskOK(n, t)
         /\ IsReady(n, t) <=> IsReady(s, t) \/ t \in X
         /\ Linked(n, t) <=> Linked(s, t) \/ t \in X
<1>1. CASE t \in X
  <2>1. s.uxPriority[t] \in Priorities
    BY DEF Kernel
  <2>2. /\ \A q \in Priorities : t \in RdyAt(n, q) <=> q = s.uxPriority[t]
        /\ n.uxPriority[t] = s.uxPriority[t]
    BY <1>1 DEF Readied
  <2>3. ~ Asleep(n, t) /\ ~ Waits(n, t) /\ t \notin Pnd(n)
    BY <1>1 DEF Readied, Asleep, Waits
  <2>4. IsReady(n, t)
    BY <2>1, <2>2 DEF IsReady
  <2> QED BY <1>1, <2>2, <2>3, <2>4 DEF TaskOK, Linked, Asleep, Waits
<1>2. CASE t \notin X
  <2>1. \A q \in Priorities : t \in RdyAt(n, q) <=> t \in RdyAt(s, q)
    BY <1>2 DEF Readied
  <2>2. /\ IsReady(n, t) <=> IsReady(s, t)
        /\ n.uxPriority[t] = s.uxPriority[t]
    BY <2>1 DEF IsReady, Readied
  <2>3. /\ t \in n.xSuspendedTaskList <=> t \in s.xSuspendedTaskList
        /\ \A e \in Events : t \in Wts(n, e) <=> t \in Wts(s, e)
        /\ t \in Pnd(n) <=> t \in Pnd(s)
    BY <1>2 DEF Readied
  <2>4. \/ (t \in DOwn(n) <=> t \in DOwn(s)) /\ (t \in OOwn(n) <=> t \in OOwn(s))
        \/ (t \in DOwn(n) <=> t \in OOwn(s)) /\ (t \in OOwn(n) <=> t \in DOwn(s))
    BY <1>2 DEF Readied
  <2>5. /\ Asleep(n, t) <=> Asleep(s, t)
        /\ Waits(n, t) <=> Waits(s, t)
    BY <2>3, <2>4 DEF Asleep, Waits
  <2>6. /\ t \in DOwn(n) => t \notin OOwn(n) /\ t \notin n.xSuspendedTaskList
        /\ t \in OOwn(n) => t \notin n.xSuspendedTaskList
    BY <2>3, <2>4 DEF TaskOK
  <2>7. \A e, f \in Events : t \in Wts(n, e) /\ t \in Wts(n, f) => e = f
    BY <2>3 DEF TaskOK
  <2>8. TaskOK(n, t)
    BY <2>1, <2>2, <2>3, <2>5, <2>6, <2>7 DEF TaskOK
  <2> QED BY <1>2, <2>2, <2>5, <2>8 DEF Linked
<1> QED BY <1>1, <1>2

\* So are all of them.
LEMMA ReadiedLists ==
  ASSUME NEW s \in Kernel, NEW n, NEW X \in SUBSET Threads, Readied(n, s, X), ListsOK(s)
  PROVE  /\ ListsOK(n)
         /\ \A t \in Threads : /\ IsReady(n, t) <=> IsReady(s, t) \/ t \in X
                               /\ Linked(n, t) <=> Linked(s, t) \/ t \in X
<1>1. \A t \in Threads : /\ TaskOK(n, t)
                         /\ IsReady(n, t) <=> IsReady(s, t) \/ t \in X
                         /\ Linked(n, t) <=> Linked(s, t) \/ t \in X
  BY ReadiedTask DEF ListsOK
<1>2. 0 \in Priorities
  BY BoundsAssumption DEF Priorities
<1>3. Idle \in RdyAt(n, 0)
  <2>1. Idle \in Threads /\ Idle \in RdyAt(s, 0) /\ s.uxPriority[Idle] = 0
    BY <1>2 DEF ListsOK, TaskOK, Threads
  <2> QED BY <1>2, <2>1 DEF Readied
<1>4. ASSUME NEW q \in Priorities, RdyAt(n, q) # {} PROVE q <= n.uxTopReadyPriority
  <2>1. s.uxTopReadyPriority \in Nat /\ n.uxTopReadyPriority \in Nat /\ q \in Nat
    BY PriorityFacts DEF Kernel, Readied
  <2>2. CASE RdyAt(s, q) # {}
    BY <2>1, <2>2 DEF ListsOK, Readied
  <2>3. CASE RdyAt(s, q) = {}
    <3>1. PICK t \in X : s.uxPriority[t] = q
      BY <1>4, <2>3 DEF Readied
    <3> QED BY <3>1 DEF Readied
  <2> QED BY <2>2, <2>3
<1> QED BY <1>1, <1>3, <1>4 DEF ListsOK

\* The running task has the highest priority still, if no task that was
\* made ready is above it.
LEMMA ReadiedHighest ==
  ASSUME NEW s \in Kernel, NEW n, NEW X \in SUBSET Threads, Readied(n, s, X), ListsOK(s),
         Highest(s), \A t \in X : ~ (s.uxPriority[t] > s.uxPriority[s.pxCurrentTCB])
  PROVE  Highest(n)
<1>1. /\ \A t \in Threads : IsReady(n, t) <=> IsReady(s, t) \/ t \in X
      /\ n.uxPriority = s.uxPriority /\ n.pxCurrentTCB = s.pxCurrentTCB
  BY ReadiedLists DEF Readied
<1>2. \A t \in Threads : s.uxPriority[t] \in Nat
  BY PriorityFacts DEF Kernel
<1>3. s.pxCurrentTCB \in Threads
  BY DEF Kernel
<1> QED BY <1>1, <1>2, <1>3 DEF Highest

(***************************************************************************)
(* Time.                                                                   *)
(***************************************************************************)
\* what is left of a time x of which lag has passed
LeftOf(x, lag) == IF x > lag THEN x - lag ELSE 0

TimesOK(s) ==
    /\ \A d \in DItems(s) : d.value > s.xTickCount /\ s.xNextTaskUnblockTime <= d.value
    /\ \A d \in OItems(s) : d.value < s.xTickCount
LeftOK(s, l, lag) ==
    /\ \A t \in Threads : l[t] > 0 => (t \in DOwn(s) \/ t \in OOwn(s)) /\ t \notin Pnd(s)
    /\ \A d \in DItems(s) : d.owner \notin Pnd(s) =>
          l[d.owner] = LeftOf(d.value - s.xTickCount, lag)
    /\ \A d \in OItems(s) : d.owner \notin Pnd(s) =>
          l[d.owner] = LeftOf(d.value + Wrap - s.xTickCount, lag)

\* The fields of the kernel state that hold times and priorities are
\* numbers below their bounds.
LEMMA ItemsTyped ==
  ASSUME NEW s \in Kernel
  PROVE  /\ \A d \in DItems(s) \cup OItems(s) : d \in Item /\ d.owner \in Threads
                                                 /\ d.value \in Nat /\ d.value < Wrap
         /\ s.xTickCount \in Nat /\ s.xTickCount < Wrap
         /\ s.xNextTaskUnblockTime \in Nat
         /\ \A t \in Threads : s.uxPriority[t] \in Priorities /\ s.uxPriority[t] \in Nat
         /\ s.uxTopReadyPriority \in Nat
<1>1. Wrap \in Nat /\ Wrap > 1 /\ portMAX_DELAY = Wrap - 1
  BY BoundsAssumption DEF portMAX_DELAY
<1>2. s.pxDelayedTaskList \in DList /\ s.pxOverflowDelayedTaskList \in DList
  BY DEF Kernel
<1>3. DItems(s) \subseteq Item /\ OItems(s) \subseteq Item
  BY <1>2, DelayedFacts DEF DItems, OItems
<1>4. \A d \in Item : d.owner \in Threads /\ d.value \in Nat /\ d.value < Wrap
  BY <1>1, ItemFields
<1>5. s.xTickCount \in 0..portMAX_DELAY /\ s.xNextTaskUnblockTime \in 0..portMAX_DELAY
      /\ s.uxPriority \in [Threads -> Priorities] /\ s.uxTopReadyPriority \in Priorities
  BY DEF Kernel
<1> QED BY <1>1, <1>3, <1>4, <1>5, PriorityFacts

\* The remainder of a sum of two counts: xTickCount wraps at most once.
LEMMA WrapOnce ==
  ASSUME NEW x \in Nat, x < 2 * Wrap
  PROVE  x % Wrap = IF x < Wrap THEN x ELSE x - Wrap
<1> DEFINE q == x \div Wrap
           r == x % Wrap
<1>1. Wrap \in Nat /\ Wrap > 1
  BY BoundsAssumption
<1>2. q \in Int /\ r \in 0..(Wrap - 1) /\ x = Wrap * q + r
  BY <1>1
<1> HIDE DEF q, r
<1>3. q >= 0
  <2> SUFFICES ASSUME q <= -1 PROVE FALSE
    BY <1>2
  <2>1. Wrap * q <= Wrap * (-1)
    BY <1>1, <1>2
  <2> QED BY <1>1, <1>2, <2>1
<1>4. q <= 1
  <2> SUFFICES ASSUME q >= 2 PROVE FALSE
    BY <1>2
  <2>1. Wrap * q >= Wrap * 2
    BY <1>1, <1>2
  <2> QED BY <1>1, <1>2, <2>1
<1>5. q = 0 \/ q = 1
  BY <1>2, <1>3, <1>4
<1>6. CASE q = 0
  <2>1. x = r
    BY <1>1, <1>2, <1>6
  <2> QED BY <1>1, <1>2, <2>1 DEF r
<1>7. CASE q = 1
  <2>1. x = Wrap + r
    BY <1>1, <1>2, <1>7
  <2> QED BY <1>1, <1>2, <2>1 DEF r
<1> QED BY <1>5, <1>6, <1>7

\* xTaskIncrementTick when the scheduler is not suspended, for the delays:
\* one of the ticks the tasks have been waiting for without being told
\* (lag) is accounted for, and the tasks made ready are those with nothing
\* left to wait for.
LEMMA TickStep ==
  ASSUME NEW s \in Kernel, s.uxSchedulerSuspended = 0, TimesOK(s), Pnd(s) = {},
         \A t \in Threads : TaskOK(s, t),
         NEW lag \in Nat, lag > 0, NEW l \in [Threads -> Nat], LeftOK(s, l, lag)
  PROVE  LET r == xTaskIncrementTick(s)
             n == r.s
         IN  \E X \in SUBSET Threads :
                /\ Readied(n, s, X) /\ TimesOK(n) /\ LeftOK(n, l, lag - 1)
                /\ Pnd(n) = {} /\ n.xYieldPending = s.xYieldPending
                /\ \A t \in X : Asleep(s, t)
                /\ n.xTasksWaitingTermination = s.xTasksWaitingTermination
                /\ n.xPendedTicks = s.xPendedTicks /\ n.uxSchedulerSuspended = 0
                /\ r.switch \in BOOLEAN
                /\ \A t \in X : s.uxPriority[t] > s.uxPriority[s.pxCurrentTCB] => r.switch
                /\ s.xYieldPending => r.switch
<1> DEFINE now == (s.xTickCount + 1) % Wrap
           r == xTaskIncrementTick(s)
           n == r.s
           D == IF now = 0 THEN OItems(s) ELSE DItems(s)
           O == IF now = 0 THEN DItems(s) ELSE OItems(s)
           X == {d.owner : d \in {c \in D : c.value <= now}}
           p == s.uxPriority[s.pxCurrentTCB]
<1>1. /\ n \in Kernel /\ X \in SUBSET Threads
      /\ \A q \in Priorities :
            RdyAt(n, q) = (RdyAt(s, q) \ X) \cup {t \in X : s.uxPriority[t] = q}
      /\ DItems(n) = {d \in D : d.owner \notin X}
      /\ OItems(n) = {d \in O : d.owner \notin X}
      /\ \A d \in DItems(n) : n.xNextTaskUnblockTime <= d.value
      /\ n.xSuspendedTaskList = s.xSuspendedTaskList \ X
      /\ \A e \in Events : Wts(n, e) = Wts(s, e) \ X
      /\ Pnd(n) = Pnd(s) \ X
      /\ s.uxTopReadyPriority <= n.uxTopReadyPriority
      /\ \A t \in X : s.uxPriority[t] <= n.uxTopReadyPriority
      /\ n.xTickCount = now /\ n.xYieldPending = s.xYieldPending
      /\ n.xTasksWaitingTermination = s.xTasksWaitingTermination
      /\ n.uxPriority = s.uxPriority
      /\ n.xPendedTicks = s.xPendedTicks
      /\ n.uxSchedulerSuspended = s.uxSchedulerSuspended
      /\ n.pxCurrentTCB = s.pxCurrentTCB
      /\ r.switch \in BOOLEAN
      /\ \A t \in X : s.uxPriority[t] > p => r.switch
      /\ s.xYieldPending => r.switch
  <2>1. \A d \in DItems(s) : s.xNextTaskUnblockTime <= d.value
    BY DEF TimesOK
  <2> QED BY <2>1, TickFacts
<1>2. /\ \A d \in DItems(s) \cup OItems(s) : d \in Item /\ d.owner \in Threads
                                              /\ d.value \in Nat /\ d.value < Wrap
      /\ s.xTickCount \in Nat /\ s.xTickCount < Wrap
      /\ Wrap \in Nat /\ Wrap > 1
  BY ItemsTyped, BoundsAssumption
<1>3. now = IF s.xTickCount + 1 < Wrap THEN s.xTickCount + 1 ELSE s.xTickCount + 1 - Wrap
  BY <1>2, WrapOnce
<1>4. now \in Nat /\ ((now = 0 /\ s.xTickCount = Wrap - 1) \/ (now # 0 /\ now = s.xTickCount + 1))
  BY <1>2, <1>3
<1> HIDE DEF n, r, now
<1>5. now = 0 => O = {}
  BY <1>2, <1>4 DEF TimesOK
<1>6. \A d \in D \cup O : d \in DItems(s) \cup OItems(s)
  OBVIOUS
<1>7. \A d \in D : d.value > now => d.owner \notin X
  <2> SUFFICES ASSUME NEW d \in D, d.value > now, d.owner \in X PROVE FALSE
    OBVIOUS
  <2>1. PICK c \in D : c.value <= now /\ c.owner = d.owner
    OBVIOUS
  <2>2. c = d
    <3>1. s.pxDelayedTaskList \in DList /\ s.pxOverflowDelayedTaskList \in DList
      BY DEF Kernel
    <3>2. \A a, b \in D : a.owner = b.owner => a = b
      BY <3>1, DelayedFacts DEF DItems, OItems
    <3> QED BY <2>1, <3>2
  <2> QED BY <1>2, <1>4, <1>6, <2>1, <2>2
<1>8. \A d \in O : d.owner \notin X
  <2> SUFFICES ASSUME NEW d \in O, d.owner \in X PROVE FALSE
    OBVIOUS
  <2>1. PICK c \in D : c.owner = d.owner
    OBVIOUS
  <2>2. now # 0 /\ d.owner \in OOwn(s) /\ d.owner \in DOwn(s)
    BY <1>5, <2>1 DEF OOwn, DOwn
  <2>3. d.owner \in Threads
    BY <1>2
  <2> QED BY <2>2, <2>3 DEF TaskOK
<1>9. DItems(n) = {d \in D : d.value > now} /\ OItems(n) = O
  <2>1. \A d \in D : d.owner \notin X => d.value > now
    BY <1>2, <1>4, <1>6
  <2> QED BY <1>1, <1>7, <1>8, <2>1
<1>10. TimesOK(n)
  <2>1. \A d \in DItems(n) : d.value > n.xTickCount
    BY <1>1, <1>9
  <2>2. \A d \in OItems(n) : d.value < n.xTickCount
    BY <1>1, <1>2, <1>4, <1>5, <1>9 DEF TimesOK
  <2> QED BY <1>1, <2>1, <2>2 DEF TimesOK
<1>11. Pnd(n) = {}
  BY <1>1
<1>12. /\ DOwn(n) = {d.owner : d \in D} \ X
       /\ OOwn(n) = {d.owner : d \in O} \ X
  BY <1>1 DEF DOwn, OOwn
<1>13. Readied(n, s, X)
  <2>1. \/ DOwn(n) = DOwn(s) \ X /\ OOwn(n) = OOwn(s) \ X
        \/ DOwn(n) = OOwn(s) \ X /\ OOwn(n) = DOwn(s) \ X
    BY <1>12 DEF DOwn, OOwn
  <2> HIDE DEF X
  <2> QED BY <1>1, <2>1 DEF Readied
<1>14. \A t \in X : Asleep(s, t)
  BY DEF Asleep, DOwn, OOwn
<1>15. \A d \in D : l[d.owner] = LeftOf(IF now = 0 THEN d.value + 1 ELSE d.value - s.xTickCount, lag)
  <2> SUFFICES ASSUME NEW d \in D
               PROVE  l[d.owner] = LeftOf(IF now = 0 THEN d.value + 1 ELSE d.value - s.xTickCount, lag)
    OBVIOUS
  <2>1. CASE now = 0
    <3>1. l[d.owner] = LeftOf(d.value + Wrap - s.xTickCount, lag)
      BY <2>1 DEF LeftOK
    <3>2. d.value + Wrap - s.xTickCount = d.value + 1
      BY <1>2, <1>4, <2>1
    <3> QED BY <2>1, <3>1, <3>2
  <2>2. CASE now # 0
    BY <2>2 DEF LeftOK
  <2> QED BY <2>1, <2>2
<1>16. \A d \in D : d.value <= now => l[d.owner] = 0
  BY <1>2, <1>4, <1>6, <1>15 DEF LeftOf
<1>17. LeftOK(n, l, lag - 1)
  <2>1. ASSUME NEW t \in Threads, l[t] > 0
        PROVE  t \in DOwn(n) \/ t \in OOwn(n)
    <3>1. t \in DOwn(s) \/ t \in OOwn(s)
      BY <2>1 DEF LeftOK
    <3>2. t \notin X
      BY <1>16, <2>1
    <3> QED BY <1>12, <3>1, <3>2 DEF DOwn, OOwn
  <2>2. ASSUME NEW d \in DItems(n)
        PROVE  l[d.owner] = LeftOf(d.value - n.xTickCount, lag - 1)
    <3>1. d \in D /\ d.value > now
      BY <1>9
    <3>2. d.value \in Nat
      BY <1>2, <1>6, <3>1
    <3> HIDE DEF D
    <3> QED BY <1>1, <1>2, <1>4, <1>15, <3>1, <3>2 DEF LeftOf
  <2>3. ASSUME NEW d \in OItems(n)
        PROVE  l[d.owner] = LeftOf(d.value + Wrap - n.xTickCount, lag - 1)
    <3>1. d \in OItems(s) /\ now # 0
      BY <1>5, <1>9
    <3>2. l[d.owner] = LeftOf(d.value + Wrap - s.xTickCount, lag) /\ d.value \in Nat
      BY <1>2, <3>1 DEF LeftOK
    <3> QED BY <1>1, <1>2, <1>4, <3>1, <3>2 DEF LeftOf
  <2> QED BY <1>11, <2>1, <2>2, <2>3 DEF LeftOK
<1> HIDE DEF X
<1> QED BY <1>1, <1>10, <1>11, <1>13, <1>14, <1>17 DEF r, n, p

-----------------------------------------------------------------------------
(***************************************************************************)
(* Catching up with pended ticks.                                          *)
(***************************************************************************)
\* the lists hold the same, wherever their pxIndex is
SamePlaces(n, s) ==
    /\ \A q \in Priorities : RdyAt(n, q) = RdyAt(s, q)
    /\ DItems(n) = DItems(s) /\ OItems(n) = OItems(s)
    /\ n.xSuspendedTaskList = s.xSuspendedTaskList
    /\ \A e \in Events : Wts(n, e) = Wts(s, e)
    /\ Pnd(n) = Pnd(s)
    /\ n.uxPriority = s.uxPriority /\ n.xTickCount = s.xTickCount
    /\ n.xNextTaskUnblockTime = s.xNextTaskUnblockTime

\* What is said of tasks, wake times and delays depends only on the
\* contents of the lists.
LEMMA SamePlacesFacts ==
  ASSUME NEW s, NEW n, SamePlaces(n, s)
  PROVE  /\ \A t : /\ IsReady(n, t) <=> IsReady(s, t)
                   /\ Asleep(n, t) <=> Asleep(s, t)
                   /\ Linked(n, t) <=> Linked(s, t)
                   /\ TaskOK(s, t) => TaskOK(n, t)
         /\ TimesOK(s) => TimesOK(n)
         /\ \A l, lag : LeftOK(s, l, lag) => LeftOK(n, l, lag)
<1>1. DOwn(n) = DOwn(s) /\ OOwn(n) = OOwn(s)
  BY DEF DOwn, OOwn, SamePlaces
<1>2. \A t : /\ IsReady(n, t) <=> IsReady(s, t)
             /\ Asleep(n, t) <=> Asleep(s, t)
             /\ Waits(n, t) <=> Waits(s, t)
             /\ Linked(n, t) <=> Linked(s, t)
  BY <1>1 DEF SamePlaces, IsReady, Asleep, Waits, Linked
<1>3. ASSUME NEW t, TaskOK(s, t) PROVE TaskOK(n, t)
  BY <1>1, <1>2, <1>3 DEF SamePlaces, TaskOK
<1>4. TimesOK(s) => TimesOK(n)
  BY DEF SamePlaces, TimesOK
<1>5. ASSUME NEW l, NEW lag, LeftOK(s, l, lag) PROVE LeftOK(n, l, lag)
  BY <1>1, <1>5 DEF SamePlaces, LeftOK
<1> QED BY <1>2, <1>3, <1>4, <1>5

\* States that differ in no list hold the same tasks in each.
LEMMA SameEverything ==
  ASSUME NEW s, NEW n, SameReady(n, s), SameDelayed(n, s), SameEvents(n, s), SameRest(n, s),
         n.xSuspendedTaskList = s.xSuspendedTaskList
  PROVE  SamePlaces(n, s)
  BY DEF SameReady, SameDelayed, SameEvents, SameRest, SamePlaces, RdyAt, DItems, OItems, Wts, Pnd

\* the ticks that were pended up to lag of them have been caught up with
Caught(n, s, l, lag) ==
    /\ n \in Kernel /\ n.uxSchedulerSuspended = 0
    /\ ListsOK(n) /\ TimesOK(n) /\ LeftOK(n, l, lag) /\ Pnd(n) = {}
    /\ n.xPendedTicks = s.xPendedTicks
    /\ n.xTasksWaitingTermination = s.xTasksWaitingTermination
    /\ n.uxPriority = s.uxPriority /\ n.pxCurrentTCB = s.pxCurrentTCB
    /\ \A t \in Threads : /\ Linked(n, t) <=> Linked(s, t)
                          /\ IsReady(s, t) => IsReady(n, t)
    /\ s.xYieldPending => n.xYieldPending
    /\ n.xYieldPending \/ (Highest(s) => Highest(n))

PendedTick(u, i) ==
    LET r == xTaskIncrementTick(u) IN [r.s EXCEPT !.xYieldPending = @ \/ r.switch]
Steady == {u \in Kernel : /\ u.uxSchedulerSuspended = 0
                          /\ \A d \in DItems(u) : u.xNextTaskUnblockTime <= d.value}
TickFold == INSTANCE Folding WITH Op <- PendedTick, K <- Steady, D <- Nat

\* The loop over the pended ticks goes from kernel state to kernel state.
LEMMA PendedTickType == \A u \in Steady, i \in Nat : PendedTick(u, i) \in Steady
<1> SUFFICES ASSUME NEW u \in Steady, NEW i \in Nat PROVE PendedTick(u, i) \in Steady
  OBVIOUS
<1> DEFINE r == xTaskIncrementTick(u)
           m == r.s
           y == m.xYieldPending \/ r.switch
           n == PendedTick(u, i)
<1>1. u \in Kernel /\ u.uxSchedulerSuspended = 0
      /\ \A d \in DItems(u) : u.xNextTaskUnblockTime <= d.value
  BY DEF Steady
<1>2. /\ m \in Kernel /\ m.uxSchedulerSuspended = 0 /\ r.switch \in BOOLEAN
      /\ \A d \in DItems(m) : m.xNextTaskUnblockTime <= d.value
  BY <1>1, TickFacts
<1>3. y \in BOOLEAN
  BY <1>2 DEF Kernel
<1>4. n = [m EXCEPT !.xYieldPending = y]
  BY <1>2 DEF PendedTick, Kernel
<1> HIDE DEF n, m, r, y
<1>5. n \in Kernel /\ SameDelayed(n, m) /\ SameRest(n, m)
  BY <1>2, <1>3, <1>4, SetYieldFacts
<1> QED BY <1>2, <1>5 DEF n, Steady, SameDelayed, SameRest, DItems

\* One more pended tick has been caught up with.
LEMMA CaughtOneMore ==
  ASSUME NEW s \in Kernel, NEW l \in [Threads -> Nat], NEW u, NEW lag \in Nat, lag > 0,
         Caught(u, s, l, lag), NEW i
  PROVE  Caught(PendedTick(u, i), s, l, lag - 1)
<1> DEFINE r == xTaskIncrementTick(u)
           m == r.s
           y == m.xYieldPending \/ r.switch
           n == PendedTick(u, i)
<1>1. /\ u \in Kernel /\ u.uxSchedulerSuspended = 0 /\ TimesOK(u) /\ Pnd(u) = {}
      /\ ListsOK(u) /\ LeftOK(u, l, lag) /\ \A t \in Threads : TaskOK(u, t)
  BY DEF Caught, ListsOK
<1>2. PICK X \in SUBSET Threads :
                /\ Readied(m, u, X) /\ TimesOK(m) /\ LeftOK(m, l, lag - 1)
                /\ Pnd(m) = {} /\ m.xYieldPending = u.xYieldPending
                /\ \A t \in X : Asleep(u, t)
                /\ m.xTasksWaitingTermination = u.xTasksWaitingTermination
                /\ m.xPendedTicks = u.xPendedTicks /\ m.uxSchedulerSuspended = 0
                /\ r.switch \in BOOLEAN
                /\ \A t \in X : u.uxPriority[t] > u.uxPriority[u.pxCurrentTCB] => r.switch
                /\ u.xYieldPending => r.switch
  <2> HIDE DEF m, r
  <2> QED BY <1>1, TickStep DEF m, r
<1>3. m \in Kernel /\ y \in BOOLEAN
  BY <1>2 DEF Readied, Kernel
<1>4. n = [m EXCEPT !.xYieldPending = y]
  BY <1>3 DEF PendedTick, Kernel
<1>5. /\ r.switch = TRUE \/ u.xYieldPending = TRUE => y = TRUE
      /\ r.switch = FALSE /\ u.xYieldPending = FALSE => y = FALSE
  BY <1>2
<1> HIDE DEF n, m, r, y
<1>6. /\ n \in Kernel /\ n.xYieldPending = y
      /\ n.xSuspendedTaskList = m.xSuspendedTaskList
      /\ SameReady(n, m) /\ SameDelayed(n, m) /\ SameEvents(n, m) /\ SameRest(n, m)
  BY <1>3, <1>4, SetYieldFacts
<1>15. (n.xYieldPending => r.switch \/ u.xYieldPending)
       /\ (r.switch \/ u.xYieldPending => n.xYieldPending)
  <2>1. u.xYieldPending \in BOOLEAN
    BY <1>1 DEF Kernel
  <2>2. CASE r.switch = TRUE \/ u.xYieldPending = TRUE
    <3>1. y = TRUE
      BY <1>5, <2>2
    <3> QED BY <1>6, <2>2, <3>1
  <2>3. CASE r.switch = FALSE /\ u.xYieldPending = FALSE
    <3>1. y = FALSE
      BY <1>5, <2>3
    <3> QED BY <1>6, <2>3, <3>1
  <2> QED BY <1>2, <2>1, <2>2, <2>3
<1>7. SamePlaces(n, m)
  BY <1>6, SameEverything
<1>8. /\ ListsOK(m)
      /\ \A t \in Threads : /\ IsReady(m, t) <=> IsReady(u, t) \/ t \in X
                            /\ Linked(m, t) <=> Linked(u, t) \/ t \in X
  BY <1>1, <1>2, ReadiedLists
<1>9. ListsOK(n)
  <2>1. \A t \in Threads : TaskOK(n, t)
    BY <1>7, <1>8, SamePlacesFacts DEF ListsOK
  <2>2. /\ 0 \in Priorities /\ n.uxTopReadyPriority = m.uxTopReadyPriority
        /\ \A q \in Priorities : RdyAt(n, q) = RdyAt(m, q)
    BY <1>6, <1>7, BoundsAssumption DEF SamePlaces, SameReady, Priorities
  <2> QED BY <1>8, <2>1, <2>2 DEF ListsOK
<1>10. TimesOK(n) /\ LeftOK(n, l, lag - 1) /\ Pnd(n) = {}
  BY <1>2, <1>7, SamePlacesFacts DEF SamePlaces
<1>11. /\ n.uxSchedulerSuspended = 0 /\ n.xPendedTicks = s.xPendedTicks
       /\ n.xTasksWaitingTermination = s.xTasksWaitingTermination
       /\ n.uxPriority = s.uxPriority /\ n.pxCurrentTCB = s.pxCurrentTCB
  BY <1>2, <1>6 DEF SameRest, Caught, Readied
<1>12. \A t \in Threads : /\ Linked(n, t) <=> Linked(s, t)
                          /\ IsReady(s, t) => IsReady(n, t)
  <2> TAKE t \in Threads
  <2>1. /\ IsReady(n, t) <=> IsReady(u, t) \/ t \in X
        /\ Linked(n, t) <=> Linked(u, t) \/ t \in X
    BY <1>7, <1>8, SamePlacesFacts
  <2>2. t \in X => Linked(u, t)
    BY <1>2 DEF Linked
  <2> QED BY <2>1, <2>2 DEF Caught
<1>13. s.xYieldPending => n.xYieldPending
  BY <1>15 DEF Caught
<1>14. ASSUME ~ n.xYieldPending, Highest(s) PROVE Highest(n)
  <2>1. Highest(u)
    <3>1. ~ u.xYieldPending
      BY <1>14, <1>15
    <3> QED BY <1>14, <3>1 DEF Caught
  <2>2. \A t \in X : ~ (u.uxPriority[t] > u.uxPriority[u.pxCurrentTCB])
    <3>1. ~ r.switch
      BY <1>14, <1>15
    <3> QED BY <1>2, <3>1
  <2>3. Highest(m)
    BY <1>1, <1>2, <2>1, <2>2, ReadiedHighest
  <2>4. n.pxCurrentTCB = m.pxCurrentTCB /\ n.uxPriority = m.uxPriority
    BY <1>6 DEF SameRest
  <2> QED BY <1>7, <2>3, <2>4, SamePlacesFacts DEF Highest
<1> QED BY <1>6, <1>9, <1>10, <1>11, <1>12, <1>13, <1>14 DEF n, Caught

\* The loop of xTaskResumeAll over the pended ticks: after it no delay lags
\* behind.
LEMMA CatchUp ==
  ASSUME NEW s \in Kernel, s.uxSchedulerSuspended = 0, ListsOK(s), TimesOK(s), Pnd(s) = {},
         NEW l \in [Threads -> Nat], NEW lag \in Nat, LeftOK(s, l, lag)
  PROVE  Caught(FoldLeft(PendedTick, s, [i \in 1..lag |-> i]), s, l, 0)
<1> DEFINE seq == [i \in 1..lag |-> i]
           n == FoldLeft(PendedTick, s, seq)
<1>1. seq \in Seq(Nat) /\ Len(seq) = lag
  OBVIOUS
<1>2. s \in Steady
  BY DEF Steady, TimesOK
<1> HIDE DEF seq
<1>3. \E g \in [0..Len(seq) -> Steady] :
            /\ g[0] = s
            /\ \A i \in 1..Len(seq) : g[i] = PendedTick(g[i - 1], seq[i])
            /\ TickFold!FoldLeft(PendedTick, s, seq) = g[Len(seq)]
  BY <1>1, <1>2, PendedTickType, Induct, TickFold!FoldSteps
<1>4. n = TickFold!FoldLeft(PendedTick, s, seq)
  BY DEF FoldLeft, MapThenFoldSet, TickFold!FoldLeft, TickFold!MapThenFoldSet,
         Max, TickFold!Max
<1> HIDE DEF n
<1>5. PICK g \in [0..lag -> Steady] :
            /\ g[0] = s
            /\ \A i \in 1..lag : g[i] = PendedTick(g[i - 1], seq[i])
            /\ n = g[lag]
  BY <1>1, <1>3, <1>4
<1> DEFINE P(i) == i <= lag => Caught(g[i], s, l, lag - i)
           Q == {i \in Nat : P(i)}
<1>6. 0 \in Q
  <2>1. lag - 0 = lag
    OBVIOUS
  <2>2. Caught(s, s, l, lag)
    BY DEF Caught
  <2>3. P(0)
    BY <1>5, <2>1, <2>2
  <2> HIDE DEF P
  <2> QED BY <2>3
<1>7. ASSUME NEW i \in Nat, i \in Q PROVE i + 1 \in Q
  <2>1. P(i)
    BY <1>7
  <2> SUFFICES ASSUME i + 1 <= lag PROVE Caught(g[i + 1], s, l, lag - (i + 1))
    OBVIOUS
  <2>2. /\ i + 1 \in 1..lag /\ i <= lag /\ lag - i \in Nat /\ lag - i > 0
        /\ lag - i - 1 = lag - (i + 1) /\ i + 1 - 1 = i
    OBVIOUS
  <2>3. g[i + 1] = PendedTick(g[i + 1 - 1], seq[i + 1])
    BY <1>5, <2>2
  <2>4. Caught(g[i], s, l, lag - i)
    BY <2>1, <2>2
  <2>5. Caught(PendedTick(g[i], seq[i + 1]), s, l, lag - i - 1)
    BY <2>2, <2>4, CaughtOneMore
  <2> QED BY <2>2, <2>3, <2>5
<1>8. Nat \subseteq Q
  <2> HIDE DEF Q
  <2> QED BY <1>6, <1>7, Induct
<1>9. P(lag)
  <2> HIDE DEF P
  <2> QED BY <1>8
<1>10. lag <= lag /\ lag - lag = 0
  OBVIOUS
<1> QED BY <1>5, <1>9, <1>10 DEF n, seq

-----------------------------------------------------------------------------
(***************************************************************************)
(* xTaskResumeAll and vTaskSwitchContext.                                  *)
(***************************************************************************)
\* The lists are consistent if they hold what consistent lists hold.
LEMMA SameListsOK ==
  ASSUME NEW s, NEW n, SamePlaces(n, s), ListsOK(s),
         n.uxTopReadyPriority = s.uxTopReadyPriority
  PROVE  ListsOK(n)
<1>1. \A t \in Threads : TaskOK(n, t)
  BY SamePlacesFacts DEF ListsOK
<1>2. 0 \in Priorities /\ \A q \in Priorities : RdyAt(n, q) = RdyAt(s, q)
  BY BoundsAssumption DEF SamePlaces, Priorities
<1> QED BY <1>1, <1>2 DEF ListsOK

\* Nothing ready is above the running task if that held before with the
\* same lists.
LEMMA SameHighest ==
  ASSUME NEW s, NEW n, SamePlaces(n, s), n.pxCurrentTCB = s.pxCurrentTCB
  PROVE  Highest(s) => Highest(n)
<1>1. n.uxPriority = s.uxPriority
  BY DEF SamePlaces
<1> QED BY <1>1, SamePlacesFacts DEF Highest

SetCounts(s, c, b) == [s EXCEPT !.uxSchedulerSuspended = c, !.xPendedTicks = b]

\* Nothing but uxSchedulerSuspended and xPendedTicks changes.
LEMMA SetCountsFacts ==
  ASSUME NEW s \in Kernel, NEW c \in Nat, NEW b \in Nat
  PROVE  LET n == SetCounts(s, c, b)
         IN  /\ n \in Kernel /\ n.uxSchedulerSuspended = c /\ n.xPendedTicks = b
             /\ SamePlaces(n, s) /\ n.uxTopReadyPriority = s.uxTopReadyPriority
             /\ n.xYieldPending = s.xYieldPending /\ n.pxCurrentTCB = s.pxCurrentTCB
             /\ n.xTasksWaitingTermination = s.xTasksWaitingTermination
<1> DEFINE n == SetCounts(s, c, b)
<1> USE DEF SetCounts
<1>1. n \in Kernel
  BY DEF Kernel
<1>2. /\ n.uxSchedulerSuspended = c /\ n.xPendedTicks = b
      /\ n.uxTopReadyPriority = s.uxTopReadyPriority
      /\ n.xYieldPending = s.xYieldPending /\ n.pxCurrentTCB = s.pxCurrentTCB
      /\ n.xTasksWaitingTermination = s.xTasksWaitingTermination
  BY DEF Kernel
<1>3. SamePlaces(n, s)
  BY DEF Kernel, SamePlaces, RdyAt, DItems, OItems, Wts, Pnd
<1> QED BY <1>1, <1>2, <1>3

\* the scheduler is no longer suspended
Resumed(n, s, l) ==
    /\ n \in Kernel /\ n.uxSchedulerSuspended = 0
    /\ ListsOK(n) /\ TimesOK(n) /\ LeftOK(n, l, 0) /\ Pnd(n) = {}
    /\ n.xPendedTicks = 0
    /\ n.xTasksWaitingTermination = s.xTasksWaitingTermination
    /\ n.uxPriority = s.uxPriority /\ n.pxCurrentTCB = s.pxCurrentTCB
    /\ \A t \in Threads : /\ Linked(n, t) <=> Linked(s, t)
                          /\ IsReady(s, t) => IsReady(n, t)
    /\ s.xYieldPending => n.xYieldPending
    /\ n.xYieldPending \/ (Highest(s) => Highest(n))

\* The outermost xTaskResumeAll: every task that was held back is ready,
\* every pended tick is accounted for, and a yield is pending unless
\* nothing ready is above the running task.
LEMMA ResumeLast ==
  ASSUME NEW s \in Kernel, s.uxSchedulerSuspended = 1, ListsOK(s), TimesOK(s),
         NEW l \in [Threads -> Nat], LeftOK(s, l, s.xPendedTicks)
  PROVE  LET r == xTaskResumeAll(s)
         IN  Resumed(r.s, s, l) /\ r.yielded = r.s.xYieldPending
<1> DEFINE r == xTaskResumeAll(s)
           a == SetCounts(s, 0, s.xPendedTicks)
           m == MovePendingReady(a)
           X == Pnd(a)
           u == FoldLeft(PendedTick, m, [i \in 1..m.xPendedTicks |-> i])
           n == SetCounts(u, 0, 0)
<1>1. s.xPendedTicks \in Nat /\ s.uxSchedulerSuspended - 1 = 0
  BY DEF Kernel
<1>2. a = [s EXCEPT !.uxSchedulerSuspended = @ - 1]
  BY <1>1 DEF Kernel, SetCounts
<1>3. /\ a \in Kernel /\ a.uxSchedulerSuspended = 0 /\ a.xPendedTicks = s.xPendedTicks
      /\ SamePlaces(a, s) /\ a.uxTopReadyPriority = s.uxTopReadyPriority
      /\ a.xYieldPending = s.xYieldPending /\ a.pxCurrentTCB = s.pxCurrentTCB
      /\ a.xTasksWaitingTermination = s.xTasksWaitingTermination
  <2>1. 0 \in Nat /\ s.xPendedTicks \in Nat
    BY <1>1
  <2> HIDE DEF r, m, X, u, n
  <2>2. SetCounts(s, 0, s.xPendedTicks).pxCurrentTCB = s.pxCurrentTCB
        /\ SetCounts(s, 0, s.xPendedTicks) \in Kernel
    BY <2>1, SetCountsFacts
  <2> QED BY <2>1, SetCountsFacts
<1>4. ProcessPendedTicks(m) = [u EXCEPT !.xPendedTicks = 0]
  BY DEF ProcessPendedTicks, PendedTick, FoldLeft, MapThenFoldSet
<1>5. r = [s |-> ProcessPendedTicks(m), yielded |-> ProcessPendedTicks(m).xYieldPending]
  BY <1>1, <1>2, <1>3 DEF xTaskResumeAll, YieldsNow
<1> HIDE DEF r, a
<1>6. ListsOK(a) /\ TimesOK(a) /\ LeftOK(a, l, s.xPendedTicks)
      /\ a.uxPriority = s.uxPriority
  BY <1>3, SameListsOK, SamePlacesFacts DEF SamePlaces
<1>7. \A t \in Threads : /\ Linked(a, t) <=> Linked(s, t)
                         /\ IsReady(a, t) <=> IsReady(s, t)
  BY <1>3, SamePlacesFacts
<1>8. Highest(s) => Highest(a)
  BY <1>3, SameHighest
<1>9. /\ m \in Kernel /\ X \in SUBSET Threads
      /\ \A q \in Priorities :
            RdyAt(m, q) = (RdyAt(a, q) \ X) \cup {t \in X : a.uxPriority[t] = q}
      /\ DItems(m) = {d \in DItems(a) : d.owner \notin X}
      /\ OItems(m) = {d \in OItems(a) : d.owner \notin X}
      /\ \A d \in DItems(m) : m.xNextTaskUnblockTime <= d.value
      /\ m.xSuspendedTaskList = a.xSuspendedTaskList \ X
      /\ \A e \in Events : Wts(m, e) = Wts(a, e) \ X
      /\ Pnd(m) = {}
      /\ a.uxTopReadyPriority <= m.uxTopReadyPriority
      /\ \A t \in X : a.uxPriority[t] <= m.uxTopReadyPriority
      /\ SameRest(m, a)
      /\ a.xYieldPending => m.xYieldPending
      /\ \A t \in X : a.uxPriority[t] >= a.uxPriority[a.pxCurrentTCB] => m.xYieldPending
  <2>1. \A d \in DItems(a) : a.xNextTaskUnblockTime <= d.value
    BY <1>6 DEF TimesOK
  <2> QED BY <1>3, <2>1, MovePendingFacts
<1> HIDE DEF m
<1>10. DOwn(m) = DOwn(a) \ X /\ OOwn(m) = OOwn(a) \ X
  BY <1>9 DEF DOwn, OOwn
<1>11. Readied(m, a, X)
  <2>1. Pnd(m) = Pnd(a) \ X
    BY <1>9
  <2> HIDE DEF X
  <2> QED BY <1>9, <1>10, <2>1 DEF Readied, SameRest
<1>12. /\ ListsOK(m)
       /\ \A t \in Threads : /\ IsReady(m, t) <=> IsReady(a, t) \/ t \in X
                             /\ Linked(m, t) <=> Linked(a, t) \/ t \in X
  BY <1>3, <1>6, <1>9, <1>11, ReadiedLists
<1>13. \A t \in X : Linked(a, t)
  BY <1>6, <1>9 DEF ListsOK, TaskOK, Linked
<1>14. m.uxSchedulerSuspended = 0 /\ m.xPendedTicks = s.xPendedTicks
       /\ m.xTickCount = a.xTickCount
       /\ m.uxPriority = s.uxPriority /\ m.pxCurrentTCB = s.pxCurrentTCB
       /\ m.xTasksWaitingTermination = s.xTasksWaitingTermination
  BY <1>3, <1>6, <1>9 DEF SameRest
<1>15. TimesOK(m)
  BY <1>6, <1>9, <1>14 DEF TimesOK
<1>16. LeftOK(m, l, s.xPendedTicks)
  <2>1. \A t \in Threads : l[t] > 0 => t \in DOwn(m) \/ t \in OOwn(m)
    BY <1>6, <1>10 DEF LeftOK
  <2>2. \A d \in DItems(m) : l[d.owner] = LeftOf(d.value - m.xTickCount, s.xPendedTicks)
    BY <1>6, <1>9, <1>14 DEF LeftOK
  <2>3. \A d \in OItems(m) : l[d.owner] = LeftOf(d.value + Wrap - m.xTickCount, s.xPendedTicks)
    BY <1>6, <1>9, <1>14 DEF LeftOK
  <2> QED BY <1>9, <2>1, <2>2, <2>3 DEF LeftOK
<1>17. Highest(s) => m.xYieldPending \/ Highest(m)
  <2> SUFFICES ASSUME Highest(s), ~ m.xYieldPending PROVE Highest(m)
    OBVIOUS
  <2>1. \A t \in X : ~ (a.uxPriority[t] > a.uxPriority[a.pxCurrentTCB])
    <3>1. \A t \in Threads : a.uxPriority[t] \in Nat
      BY <1>3, ItemsTyped
    <3>2. a.pxCurrentTCB \in Threads
      BY <1>3 DEF Kernel
    <3> QED BY <1>9, <3>1, <3>2
  <2> QED BY <1>3, <1>6, <1>8, <1>9, <1>11, <2>1, ReadiedHighest
<1> HIDE DEF X
<1>18. Caught(u, m, l, 0)
  <2>1. m.xPendedTicks \in Nat /\ LeftOK(m, l, m.xPendedTicks)
    BY <1>1, <1>14, <1>16
  <2> QED BY <1>9, <1>12, <1>14, <1>15, <2>1, CatchUp
<1> HIDE DEF u
<1>19. ProcessPendedTicks(m) = n
  BY <1>4, <1>18 DEF Caught, Kernel, SetCounts
<1>20. /\ n \in Kernel /\ n.uxSchedulerSuspended = 0 /\ n.xPendedTicks = 0
       /\ SamePlaces(n, u) /\ n.uxTopReadyPriority = u.uxTopReadyPriority
       /\ n.xYieldPending = u.xYieldPending /\ n.pxCurrentTCB = u.pxCurrentTCB
       /\ n.xTasksWaitingTermination = u.xTasksWaitingTermination
  BY <1>18, SetCountsFacts DEF Caught
<1> HIDE DEF n
<1>21. ListsOK(n) /\ TimesOK(n) /\ LeftOK(n, l, 0) /\ Pnd(n) = {}
  BY <1>18, <1>20, SameListsOK, SamePlacesFacts DEF Caught, SamePlaces
<1>22. /\ n.xTasksWaitingTermination = s.xTasksWaitingTermination
       /\ n.uxPriority = s.uxPriority /\ n.pxCurrentTCB = s.pxCurrentTCB
  BY <1>14, <1>18, <1>20 DEF Caught, SamePlaces
<1>23. \A t \in Threads : /\ Linked(n, t) <=> Linked(s, t)
                          /\ IsReady(s, t) => IsReady(n, t)
  <2> TAKE t \in Threads
  <2>1. (IsReady(n, t) <=> IsReady(u, t)) /\ (Linked(n, t) <=> Linked(u, t))
    BY <1>20, SamePlacesFacts
  <2> QED BY <1>7, <1>12, <1>13, <1>18, <2>1 DEF Caught
<1>24. s.xYieldPending => n.xYieldPending
  BY <1>3, <1>9, <1>18, <1>20 DEF Caught
<1>25. n.xYieldPending \/ (Highest(s) => Highest(n))
  <2>1. Highest(u) => Highest(n)
    BY <1>20, SameHighest
  <2> QED BY <1>17, <1>18, <1>20, <2>1 DEF Caught
<1>26. r.s = n /\ r.yielded = n.xYieldPending
  BY <1>5, <1>19
<1> QED BY <1>20, <1>21, <1>22, <1>23, <1>24, <1>25, <1>26 DEF Resumed, r

\* vTaskSwitchContext when the scheduler is not suspended chooses a task
\* that is ready and that nothing ready is above.
LEMMA SwitchFacts ==
  ASSUME NEW s \in Kernel, s.uxSchedulerSuspended = 0, ListsOK(s)
  PROVE  LET n == vTaskSwitchContext(s)
         IN  /\ n \in Kernel /\ SamePlaces(n, s) /\ ListsOK(n)
             /\ IsReady(n, n.pxCurrentTCB) /\ Highest(n)
             /\ n.xTasksWaitingTermination = s.xTasksWaitingTermination
             /\ n.xPendedTicks = s.xPendedTicks
             /\ n.uxSchedulerSuspended = s.uxSchedulerSuspended
<1> DEFINE n == vTaskSwitchContext(s)
           top == s.uxTopReadyPriority
           Q == {q \in 0..top : s.pxReadyTasksLists[q].items # <<>>}
           C(q) == /\ s.pxReadyTasksLists[q].items # <<>>
                   /\ \A r \in (q + 1)..top : s.pxReadyTasksLists[r].items = <<>>
           p == CHOOSE q \in 0..top : C(q)
           l == s.pxReadyTasksLists[p]
           t == l.items[NextIndex(l)]
<1>1. top \in Priorities /\ top \in Nat /\ \A q \in 0..top : q \in Priorities
      /\ MaxPriority \in Nat
  BY BoundsAssumption DEF Kernel, Priorities
<1>2. \A q \in Priorities : /\ s.pxReadyTasksLists[q] \in RList
                            /\ s.pxReadyTasksLists[q].items \in Seq(Threads)
  BY DEF Kernel, RList, Distinct
<1>3. \A q \in Priorities : RdyAt(s, q) = {} <=> s.pxReadyTasksLists[q].items = <<>>
  <2> TAKE q \in Priorities
  <2>1. RdyAt(s, q) = {s.pxReadyTasksLists[q].items[j] : j \in 1..Len(s.pxReadyTasksLists[q].items)}
    BY <1>2, ElementsOf DEF RdyAt
  <2>2. s.pxReadyTasksLists[q].items \in Seq(Threads)
    BY <1>2
  <2>3. CASE s.pxReadyTasksLists[q].items = <<>>
    BY <2>1, <2>3
  <2>4. CASE s.pxReadyTasksLists[q].items # <<>>
    <3>1. 1 \in 1..Len(s.pxReadyTasksLists[q].items)
      BY <2>2, <2>4
    <3> QED BY <2>1, <2>4, <3>1
  <2> QED BY <2>3, <2>4
<1>4. \A q \in Priorities : RdyAt(s, q) # {} => q \in 0..top
  BY <1>1, PriorityFacts DEF ListsOK, Priorities
<1>5. Q # {}
  <2>1. 0 \in Priorities /\ 0 \in 0..top
    BY <1>1 DEF Priorities
  <2>2. RdyAt(s, 0) # {}
    BY DEF ListsOK
  <2> QED BY <1>3, <2>1, <2>2
<1>6. \E q \in 0..top : C(q)
  <2>1. Q \in SUBSET (0..top)
    OBVIOUS
  <2> DEFINE m == TickFold!Max(Q)
  <2>2. m \in Q /\ \A i \in Q : i <= m
    <3> HIDE DEF Q, top
    <3> QED BY <1>1, <1>5, <2>1, Induct, TickFold!GreatestNumber
  <2> HIDE DEF m
  <2>3. \A r \in (m + 1)..top : r \in 0..top /\ ~ (r <= m)
    BY <1>1, <2>2
  <2>4. C(m) /\ m \in 0..top
    BY <2>2, <2>3
  <2> QED BY <2>4
<1>7. p \in 0..top /\ C(p)
  <2> HIDE DEF C
  <2> QED BY <1>6
<1>8. p \in Priorities /\ p \in Nat
  BY <1>1, <1>7
<1>9. \A q \in Priorities : RdyAt(s, q) # {} => q <= p
  <2> TAKE q \in Priorities
  <2> HAVE RdyAt(s, q) # {}
  <2> SUFFICES ASSUME ~ (q <= p) PROVE FALSE
    OBVIOUS
  <2>1. q \in 0..top
    BY <1>4
  <2> HIDE DEF p, top
  <2>2. q \in (p + 1)..top
    BY <1>1, <1>8, <2>1
  <2> QED BY <1>3, <1>7, <2>2
<1> HIDE DEF p
<1>10. /\ l \in RList /\ l.items \in Seq(Threads) /\ l.items # <<>> /\ l.index \in Nat
       /\ l.index <= Len(l.items) /\ l.items \in Distinct(Threads)
       /\ l = [items |-> l.items, index |-> l.index]
  BY <1>2, <1>7, <1>8 DEF RList
<1>11. NextIndex(l) \in 1..Len(l.items)
  <2> HIDE DEF l
  <2> QED BY <1>10 DEF NextIndex
<1>12. t \in Threads /\ t \in RdyAt(s, p)
  <2>1. RdyAt(s, p) = {l.items[j] : j \in 1..Len(l.items)}
    BY <1>10, ElementsOf DEF RdyAt
  <2> HIDE DEF l
  <2> QED BY <1>10, <1>11, <2>1
<1> DEFINE ready == [s.pxReadyTasksLists EXCEPT ![p] = [l EXCEPT !.index = NextIndex(l)]]
<1>13. n = [s EXCEPT !.xYieldPending = FALSE, !.pxReadyTasksLists = ready,
                     !.pxCurrentTCB = t, !.uxTopReadyPriority = p]
  BY DEF vTaskSwitchContext, p, Kernel
<1>14. [l EXCEPT !.index = NextIndex(l)] \in RList
       /\ [l EXCEPT !.index = NextIndex(l)].items = l.items
  <2> HIDE DEF l
  <2> QED BY <1>10, <1>11 DEF RList
<1>15. ready \in [Priorities -> RList] /\ \A q \in Priorities : ready[q].items = s.pxReadyTasksLists[q].items
  <2>1. s.pxReadyTasksLists \in [Priorities -> RList]
    BY DEF Kernel
  <2> QED BY <1>8, <1>14, <2>1
<1> HIDE DEF n, l, t, ready, top
<1>16. n \in Kernel
  BY <1>8, <1>12, <1>13, <1>15 DEF Kernel
<1>17. /\ n.pxReadyTasksLists = ready /\ n.pxCurrentTCB = t /\ n.uxTopReadyPriority = p
       /\ n.pxDelayedTaskList = s.pxDelayedTaskList
       /\ n.pxOverflowDelayedTaskList = s.pxOverflowDelayedTaskList
       /\ n.xSuspendedTaskList = s.xSuspendedTaskList
       /\ n.xTasksWaiting = s.xTasksWaiting /\ n.xPendingReadyList = s.xPendingReadyList
       /\ n.uxPriority = s.uxPriority /\ n.xTickCount = s.xTickCount
       /\ n.xNextTaskUnblockTime = s.xNextTaskUnblockTime
       /\ n.xTasksWaitingTermination = s.xTasksWaitingTermination
       /\ n.xPendedTicks = s.xPendedTicks
       /\ n.uxSchedulerSuspended = s.uxSchedulerSuspended
  BY <1>13 DEF Kernel
<1>18. SamePlaces(n, s)
  BY <1>15, <1>17 DEF SamePlaces, RdyAt, DItems, OItems, Wts, Pnd
<1>19. ListsOK(n)
  <2>1. \A u \in Threads : TaskOK(n, u)
    BY <1>18, SamePlacesFacts DEF ListsOK
  <2>2. \A q \in Priorities : RdyAt(n, q) = RdyAt(s, q)
    BY <1>18 DEF SamePlaces
  <2>3. 0 \in Priorities
    BY <1>1 DEF Priorities
  <2> QED BY <1>9, <1>17, <2>1, <2>2, <2>3 DEF ListsOK
<1>20. IsReady(n, n.pxCurrentTCB)
  <2>1. RdyAt(n, p) = RdyAt(s, p)
    BY <1>8, <1>18 DEF SamePlaces
  <2> QED BY <1>8, <1>12, <1>17, <2>1 DEF IsReady
<1>21. Highest(n)
  <2> SUFFICES ASSUME NEW u \in Threads, IsReady(n, u)
               PROVE  n.uxPriority[u] <= n.uxPriority[t]
    BY <1>17 DEF Highest
  <2>1. PICK q \in Priorities : u \in RdyAt(s, q)
    BY <1>18 DEF IsReady, SamePlaces
  <2>2. s.uxPriority[u] = q /\ s.uxPriority[t] = p
    BY <1>8, <1>12, <2>1 DEF ListsOK, TaskOK
  <2> QED BY <1>9, <1>17, <2>1, <2>2
<1> QED BY <1>16, <1>17, <1>18, <1>19, <1>20, <1>21 DEF n

-----------------------------------------------------------------------------
(***************************************************************************)
(* One task moves.                                                         *)
(***************************************************************************)
\* u is in the lists of n in which it is in s
SameTask(n, s, u) ==
    /\ \A q \in Priorities : u \in RdyAt(n, q) <=> u \in RdyAt(s, q)
    /\ u \in DOwn(n) <=> u \in DOwn(s)
    /\ u \in OOwn(n) <=> u \in OOwn(s)
    /\ u \in n.xSuspendedTaskList <=> u \in s.xSuspendedTaskList
    /\ \A e \in Events : u \in Wts(n, e) <=> u \in Wts(s, e)
    /\ u \in Pnd(n) <=> u \in Pnd(s)
    /\ n.uxPriority[u] = s.uxPriority[u]

\* What is said of one task depends only on the lists it is in.
LEMMA SameTaskFacts ==
  ASSUME NEW s, NEW n, NEW u, SameTask(n, s, u)
  PROVE  /\ IsReady(n, u) <=> IsReady(s, u)
         /\ Asleep(n, u) <=> Asleep(s, u)
         /\ Linked(n, u) <=> Linked(s, u)
         /\ TaskOK(s, u) => TaskOK(n, u)
<1>1. /\ IsReady(n, u) <=> IsReady(s, u)
      /\ Asleep(n, u) <=> Asleep(s, u)
      /\ Linked(n, u) <=> Linked(s, u)
      /\ Waits(n, u) <=> Waits(s, u)
  BY DEF SameTask, IsReady, Asleep, Linked, Waits
<1>2. ASSUME TaskOK(s, u) PROVE TaskOK(n, u)
  <2>1. \A e, f \in Events : u \in Wts(n, e) /\ u \in Wts(n, f) => e = f
    BY <1>2 DEF SameTask, TaskOK
  <2> QED BY <1>1, <1>2, <2>1 DEF SameTask, TaskOK
<1> QED BY <1>1, <1>2

\* What is in a ready list is a task.
LEMMA ReadyTyped ==
  ASSUME NEW s \in Kernel
  PROVE  /\ \A q \in Priorities : RdyAt(s, q) \subseteq Threads
         /\ \A t : IsReady(s, t) => t \in Threads
<1>1. ASSUME NEW q \in Priorities PROVE RdyAt(s, q) \subseteq Threads
  <2>1. s.pxReadyTasksLists[q].items \in Seq(Threads)
    BY DEF Kernel, RList, Distinct
  <2> QED BY <2>1, ElementsOf DEF RdyAt
<1> QED BY <1>1 DEF IsReady

\* The lists are consistent after a step that moved one task only.
LEMMA OneMoved ==
  ASSUME NEW s \in Kernel, NEW n \in Kernel, ListsOK(s), NEW t \in Tasks, TaskOK(n, t),
         \A u \in Threads : u # t => SameTask(n, s, u),
         s.uxTopReadyPriority <= n.uxTopReadyPriority,
         \A q \in Priorities : t \in RdyAt(n, q) => q <= n.uxTopReadyPriority
  PROVE  /\ ListsOK(n)
         /\ \A u \in Threads : u # t => /\ IsReady(n, u) <=> IsReady(s, u)
                                        /\ Linked(n, u) <=> Linked(s, u)
<1>1. \A u \in Threads : TaskOK(n, u)
  <2> TAKE u \in Threads
  <2>1. CASE u = t
    BY <2>1
  <2>2. CASE u # t
    BY <2>2, SameTaskFacts DEF ListsOK
  <2> QED BY <2>1, <2>2
<1>2. Idle \in RdyAt(n, 0)
  <2>1. Idle \in Threads /\ Idle # t /\ 0 \in Priorities
    BY ThreadsAssumption, BoundsAssumption DEF Threads, Priorities
  <2> QED BY <2>1 DEF ListsOK, SameTask
<1>3. ASSUME NEW q \in Priorities, RdyAt(n, q) # {} PROVE q <= n.uxTopReadyPriority
  <2>1. PICK u \in RdyAt(n, q) : u \in Threads
    BY <1>3, ReadyTyped
  <2>2. CASE u = t
    BY <2>2
  <2>3. CASE u # t
    <3>1. u \in RdyAt(s, q)
      BY <2>1, <2>3 DEF SameTask
    <3>2. q <= s.uxTopReadyPriority
      BY <3>1 DEF ListsOK
    <3>3. q \in Nat /\ s.uxTopReadyPriority \in Nat /\ n.uxTopReadyPriority \in Nat
      BY ItemsTyped, PriorityFacts
    <3> QED BY <3>2, <3>3
  <2> QED BY <2>2, <2>3
<1>4. \A u \in Threads : u # t => /\ IsReady(n, u) <=> IsReady(s, u)
                                  /\ Linked(n, u) <=> Linked(s, u)
  BY SameTaskFacts
<1> QED BY <1>1, <1>2, <1>3, <1>4 DEF ListsOK

\* The running task has the highest priority still after a step that moved
\* one task, which is not above it.
LEMMA OneMovedHighest ==
  ASSUME NEW s \in Kernel, NEW n \in Kernel, NEW t \in Tasks,
         \A u \in Threads : u # t => SameTask(n, s, u),
         n.pxCurrentTCB = s.pxCurrentTCB, Highest(s),
         s.uxPriority[s.pxCurrentTCB] <= n.uxPriority[n.pxCurrentTCB],
         IsReady(n, t) => n.uxPriority[t] <= n.uxPriority[n.pxCurrentTCB]
  PROVE  Highest(n)
<1> SUFFICES ASSUME NEW u \in Threads, IsReady(n, u), u # t
             PROVE  n.uxPriority[u] <= n.uxPriority[n.pxCurrentTCB]
  BY DEF Highest
<1>1. IsReady(s, u) /\ n.uxPriority[u] = s.uxPriority[u]
  BY SameTaskFacts DEF SameTask
<1>2. s.uxPriority[u] <= s.uxPriority[s.pxCurrentTCB]
  BY <1>1 DEF Highest
<1>3. s.pxCurrentTCB \in Threads /\ n.pxCurrentTCB \in Threads
  BY DEF Kernel
<1>4. s.uxPriority[u] \in Nat /\ s.uxPriority[s.pxCurrentTCB] \in Nat
      /\ n.uxPriority[n.pxCurrentTCB] \in Nat
  BY <1>3, ItemsTyped
<1> QED BY <1>1, <1>2, <1>4

\* The tasks in X have left the delayed lists, and have nothing left to
\* wait for.
LEMMA LeaveDelayed ==
  ASSUME NEW s, NEW n, NEW X, NEW l, NEW h, NEW lag,
         DItems(n) = {d \in DItems(s) : d.owner \notin X},
         OItems(n) = {d \in OItems(s) : d.owner \notin X},
         n.xTickCount = s.xTickCount, Pnd(n) = Pnd(s) \ X,
         \A d \in DItems(s) \cup OItems(s) : d.owner \in Threads,
         \A t \in Threads : h[t] = IF t \in X THEN 0 ELSE l[t],
         TimesOK(s), LeftOK(s, l, lag)
  PROVE  /\ n.xNextTaskUnblockTime = s.xNextTaskUnblockTime => TimesOK(n)
         /\ LeftOK(n, h, lag)
         /\ DOwn(n) = DOwn(s) \ X /\ OOwn(n) = OOwn(s) \ X
<1>1. DOwn(n) = DOwn(s) \ X /\ OOwn(n) = OOwn(s) \ X
  BY DEF DOwn, OOwn
<1>2. n.xNextTaskUnblockTime = s.xNextTaskUnblockTime => TimesOK(n)
  BY DEF TimesOK
<1>3. \A t \in Threads : h[t] > 0 => (t \in DOwn(n) \/ t \in OOwn(n)) /\ t \notin Pnd(n)
  <2> SUFFICES ASSUME NEW t \in Threads, h[t] > 0
               PROVE  (t \in DOwn(n) \/ t \in OOwn(n)) /\ t \notin Pnd(n)
    OBVIOUS
  <2>1. t \notin X /\ h[t] = l[t]
    OBVIOUS
  <2> QED BY <1>1, <2>1 DEF LeftOK
<1>4. /\ \A d \in DItems(n) : d.owner \notin Pnd(n) =>
            h[d.owner] = LeftOf(d.value - n.xTickCount, lag)
      /\ \A d \in OItems(n) : d.owner \notin Pnd(n) =>
            h[d.owner] = LeftOf(d.value + Wrap - n.xTickCount, lag)
  BY DEF LeftOK
<1> QED BY <1>1, <1>2, <1>3, <1>4 DEF LeftOK

\* one task has been made ready by a call or an interrupt
Readies(n, s, t) ==
    /\ Readied(n, s, {t})
    /\ DItems(n) = {d \in DItems(s) : d.owner # t}
    /\ OItems(n) = {d \in OItems(s) : d.owner # t}
    /\ n.xNextTaskUnblockTime = s.xNextTaskUnblockTime
    /\ n.xTickCount = s.xTickCount /\ n.xPendedTicks = s.xPendedTicks
    /\ n.uxSchedulerSuspended = s.uxSchedulerSuspended
    /\ n.xTasksWaitingTermination = s.xTasksWaitingTermination
    /\ n.xYieldPending = s.xYieldPending

\* A task that waits, or is only suspended, is made ready.
LEMMA MakeReady ==
  ASSUME NEW s \in Kernel, NEW t \in Tasks, t \notin Pnd(s)
  PROVE  /\ Readies(prvAddTaskToReadyList(RemoveState(RemoveEvent(s, t), t), t), s, t)
         /\ ~ Waits(s, t) => Readies(prvAddTaskToReadyList(RemoveState(s, t), t), s, t)
<1>1. t \in Threads
  BY DEF Threads
<1>2. ASSUME NEW a \in Kernel, SameReady(a, s), SameDelayed(a, s), SameRest(a, s),
             a.xSuspendedTaskList = s.xSuspendedTaskList,
             a.xYieldPending = s.xYieldPending,
             \A e \in Events : Wts(a, e) = Wts(s, e) \ {t}, Pnd(a) = Pnd(s)
      PROVE  Readies(prvAddTaskToReadyList(RemoveState(a, t), t), s, t)
  <2> DEFINE b == RemoveState(a, t)
             n == prvAddTaskToReadyList(b, t)
             p == s.uxPriority[t]
  <2>1. /\ \A q \in Priorities : RdyAt(a, q) = RdyAt(s, q)
        /\ DItems(a) = DItems(s) /\ OItems(a) = OItems(s)
    BY <1>2 DEF SameReady, SameDelayed, RdyAt, DItems, OItems
  <2>2. /\ b \in Kernel
        /\ \A q \in Priorities : RdyAt(b, q) = RdyAt(s, q) \ {t}
        /\ DItems(b) = {d \in DItems(s) : d.owner # t}
        /\ OItems(b) = {d \in OItems(s) : d.owner # t}
        /\ b.xSuspendedTaskList = s.xSuspendedTaskList \ {t}
        /\ b.uxTopReadyPriority = a.uxTopReadyPriority
        /\ b.xNextTaskUnblockTime = a.xNextTaskUnblockTime
        /\ b.xYieldPending = s.xYieldPending
        /\ SameEvents(b, a) /\ SameRest(b, a)
    BY <1>2, <2>1, RemoveStateFacts
  <2>3. p \in Priorities /\ b.uxPriority[t] = p /\ t \notin RdyAt(b, p)
    BY <1>1, <1>2, <2>2 DEF Kernel, SameRest
  <2> HIDE DEF b, n, p
  <2>4. /\ n \in Kernel
        /\ \A q \in Priorities : RdyAt(n, q) = IF q = p THEN RdyAt(b, q) \cup {t} ELSE RdyAt(b, q)
        /\ n.uxTopReadyPriority = IF p > b.uxTopReadyPriority THEN p ELSE b.uxTopReadyPriority
        /\ n.xSuspendedTaskList = b.xSuspendedTaskList
        /\ n.xYieldPending = b.xYieldPending
        /\ SameDelayed(n, b) /\ SameEvents(n, b) /\ SameRest(n, b)
    BY <1>1, <2>2, <2>3, AddReadyFacts DEF n
  <2>5. /\ DItems(n) = {d \in DItems(s) : d.owner # t}
        /\ OItems(n) = {d \in OItems(s) : d.owner # t}
        /\ n.xNextTaskUnblockTime = s.xNextTaskUnblockTime
    BY <1>2, <2>2, <2>4 DEF SameDelayed, DItems, OItems
  <2>6. DOwn(n) = DOwn(s) \ {t} /\ OOwn(n) = OOwn(s) \ {t}
    BY <2>5 DEF DOwn, OOwn
  <2>7. /\ \A e \in Events : Wts(n, e) = Wts(s, e) \ {t}
        /\ Pnd(n) = Pnd(s) \ {t}
    BY <1>2, <2>2, <2>4 DEF SameEvents, Wts, Pnd
  <2>8. SameRest(n, s)
    BY <1>2, <2>2, <2>4 DEF SameRest
  <2>9. s.uxTopReadyPriority <= n.uxTopReadyPriority /\ p <= n.uxTopReadyPriority
    <3>1. b.uxTopReadyPriority = s.uxTopReadyPriority
      BY <1>2, <2>2 DEF SameReady
    <3>2. s.uxTopReadyPriority \in Nat /\ p \in Nat
      BY <2>3, ItemsTyped, PriorityFacts
    <3> QED BY <2>4, <3>1, <3>2
  <2>10. \A q \in Priorities :
            RdyAt(n, q) = (RdyAt(s, q) \ {t}) \cup {u \in {t} : s.uxPriority[u] = q}
    <3> TAKE q \in Priorities
    <3>1. CASE q = p
      <4>1. {u \in {t} : s.uxPriority[u] = q} = {t}
        BY <3>1 DEF p
      <4> QED BY <2>2, <2>4, <3>1, <4>1
    <3>2. CASE q # p
      <4>1. {u \in {t} : s.uxPriority[u] = q} = {}
        BY <3>2 DEF p
      <4> QED BY <2>2, <2>4, <3>2, <4>1
    <3> QED BY <3>1, <3>2
  <2>11. Readied(n, s, {t})
    BY <2>2, <2>4, <2>6, <2>7, <2>8, <2>9, <2>10 DEF Readied, SameRest, p
  <2> QED BY <2>2, <2>4, <2>5, <2>8, <2>11 DEF Readies, SameRest, n, b
<1>3. Readies(prvAddTaskToReadyList(RemoveState(RemoveEvent(s, t), t), t), s, t)
  <2> DEFINE a == RemoveEvent(s, t)
  <2>1. /\ a \in Kernel
        /\ \A e \in Events : Wts(a, e) = Wts(s, e) \ {t}
        /\ Pnd(a) = Pnd(s) \ {t}
        /\ a.xSuspendedTaskList = s.xSuspendedTaskList
        /\ a.xYieldPending = s.xYieldPending
        /\ SameReady(a, s) /\ SameDelayed(a, s) /\ SameRest(a, s)
    BY RemoveEventFacts
  <2> HIDE DEF a
  <2>2. Pnd(a) = Pnd(s)
    BY <2>1
  <2>3. Readies(prvAddTaskToReadyList(RemoveState(a, t), t), s, t)
    BY <1>2, <2>1, <2>2
  <2> QED BY <2>3 DEF a
<1>4. ASSUME ~ Waits(s, t)
      PROVE  Readies(prvAddTaskToReadyList(RemoveState(s, t), t), s, t)
  <2>1. \A e \in Events : Wts(s, e) = Wts(s, e) \ {t}
    BY <1>4 DEF Waits
  <2>2. SameReady(s, s) /\ SameDelayed(s, s) /\ SameRest(s, s)
    BY DEF SameReady, SameDelayed, SameRest
  <2> QED BY <1>2, <2>1, <2>2
<1> QED BY <1>3, <1>4

-----------------------------------------------------------------------------
(***************************************************************************)
(* A signal.                                                               *)
(***************************************************************************)
\* the delay of t is over
Cleared(h, l, t) == \A u \in Threads : h[u] = IF u = t THEN 0 ELSE l[u]

\* One task that was asleep has been made ready, and its delay forgotten.
LEMMA ReadiesFacts ==
  ASSUME NEW s \in Kernel, NEW t \in Tasks, NEW n, Readies(n, s, t),
         ListsOK(s), TimesOK(s), NEW l, NEW h, NEW lag, LeftOK(s, l, lag),
         Cleared(h, l, t)
  PROVE  /\ n \in Kernel /\ ListsOK(n) /\ TimesOK(n) /\ LeftOK(n, h, lag)
         /\ \A u \in Threads : /\ IsReady(n, u) <=> IsReady(s, u) \/ u = t
                               /\ Linked(n, u) <=> Linked(s, u) \/ u = t
         /\ Pnd(n) = Pnd(s) \ {t}
         /\ n.uxPriority = s.uxPriority /\ n.pxCurrentTCB = s.pxCurrentTCB
<1>0. \A u \in Threads : h[u] = IF u = t THEN 0 ELSE l[u]
  BY DEF Cleared
<1> USE <1>0
<1>1. {t} \in SUBSET Threads
  BY DEF Threads
<1>2. Readied(n, s, {t})
  BY DEF Readies
<1>3. /\ ListsOK(n)
      /\ \A u \in Threads : /\ IsReady(n, u) <=> IsReady(s, u) \/ u \in {t}
                            /\ Linked(n, u) <=> Linked(s, u) \/ u \in {t}
  BY <1>1, <1>2, ReadiedLists
<1>4. TimesOK(n) /\ LeftOK(n, h, lag)
  <2> DEFINE X == {t}
  <2>1. /\ DItems(n) = {d \in DItems(s) : d.owner \notin X}
        /\ OItems(n) = {d \in OItems(s) : d.owner \notin X}
        /\ n.xTickCount = s.xTickCount /\ Pnd(n) = Pnd(s) \ X
        /\ n.xNextTaskUnblockTime = s.xNextTaskUnblockTime
        /\ \A u \in Threads : h[u] = IF u \in X THEN 0 ELSE l[u]
    BY <1>2 DEF Readies, Readied
  <2>2. \A d \in DItems(s) \cup OItems(s) : d.owner \in Threads
    BY ItemsTyped
  <2> HIDE DEF X
  <2> QED BY <2>1, <2>2, LeaveDelayed
<1> QED BY <1>2, <1>3, <1>4 DEF Readied

\* what a signal leaves alone
Signalled(n, s) ==
    /\ n \in Kernel
    /\ \A u \in Threads : /\ Linked(n, u) <=> Linked(s, u)
                          /\ IsReady(s, u) => IsReady(n, u)
    /\ n.uxPriority = s.uxPriority /\ n.pxCurrentTCB = s.pxCurrentTCB
    /\ n.xTasksWaitingTermination = s.xTasksWaitingTermination
    /\ n.xPendedTicks = s.xPendedTicks
    /\ n.uxSchedulerSuspended = s.uxSchedulerSuspended
    /\ Pnd(n) # {} => n.uxSchedulerSuspended > 0

\* no task that has become ready has a higher priority than the running one
NoneAbove(n, s) ==
    \A u \in Threads : IsReady(n, u) =>
        IsReady(s, u) \/ s.uxPriority[u] <= s.uxPriority[s.pxCurrentTCB]

\* xTaskRemoveFromEventList makes the first waiting task ready, or holds it
\* back while the scheduler is suspended, and reports whether it is above
\* the running task.
LEMMA SignalFacts ==
  ASSUME NEW s \in Kernel, ListsOK(s), TimesOK(s), NEW lag, NEW l \in [Threads -> Nat],
         LeftOK(s, l, lag), NEW e \in Events, s.xTasksWaiting[e] # <<>>,
         Pnd(s) # {} => s.uxSchedulerSuspended > 0
  PROVE  LET r == xTaskRemoveFromEventList(s, e)
             n == r.s
             t == Head(s.xTasksWaiting[e])
         IN  /\ t \in Tasks /\ Signalled(n, s)
             /\ ListsOK(n) /\ TimesOK(n) /\ LeftOK(n, [l EXCEPT ![t] = 0], lag)
             /\ r.higher \in BOOLEAN
             /\ r.higher => n.xYieldPending
             /\ s.xYieldPending => n.xYieldPending
             /\ ~ r.higher => NoneAbove(n, s)
<1> DEFINE r == xTaskRemoveFromEventList(s, e)
           n == r.s
           t == Head(s.xTasksWaiting[e])
           h == [l EXCEPT ![t] = 0]
           a == RemoveEvent(s, t)
           higher == Preempts(s, t)
           b == prvAddTaskToReadyList(RemoveState(a, t), t)
           c == [a EXCEPT !.xPendingReadyList = Append(@, t)]
           m == IF s.uxSchedulerSuspended = 0 THEN b ELSE c
           y == m.xYieldPending \/ higher
<1>1. t \in Tasks /\ t \in Wts(s, e)
  <2>1. s.xTasksWaiting[e] \in Distinct(Tasks)
    BY DEF Kernel
  <2> QED BY <2>1, DistinctTail DEF Wts
<1>2. t \in Threads /\ t # Idle
  BY <1>1, ThreadsAssumption DEF Threads
<1>3. Waits(s, t) /\ Asleep(s, t) /\ t \notin Pnd(s) /\ ~ IsReady(s, t) /\ Linked(s, t)
  BY <1>1, <1>2 DEF Waits, ListsOK, TaskOK, Linked
<1>4. \A u \in Threads : h[u] = IF u = t THEN 0 ELSE l[u]
  BY <1>2
<1>5. r = [s |-> [m EXCEPT !.xYieldPending = @ \/ higher], higher |-> higher]
      /\ higher = (s.uxPriority[t] > s.uxPriority[s.pxCurrentTCB])
  <2>1. a.uxSchedulerSuspended = s.uxSchedulerSuspended
    BY RemoveEventFacts DEF SameRest
  <2> QED BY <2>1 DEF xTaskRemoveFromEventList, Preempts
<1> HIDE DEF t, h, higher
<1>6. /\ a \in Kernel
      /\ \A f \in Events : Wts(a, f) = Wts(s, f) \ {t}
      /\ Pnd(a) = Pnd(s) \ {t}
      /\ a.xSuspendedTaskList = s.xSuspendedTaskList
      /\ a.xYieldPending = s.xYieldPending
      /\ SameReady(a, s) /\ SameDelayed(a, s) /\ SameRest(a, s)
  BY RemoveEventFacts
<1>7. /\ m \in Kernel /\ ListsOK(m) /\ TimesOK(m) /\ LeftOK(m, h, lag)
      /\ Signalled(m, s) /\ m.xYieldPending = s.xYieldPending
      /\ ~ higher => NoneAbove(m, s)
  <2>1. CASE s.uxSchedulerSuspended = 0
    <3>1. Readies(b, s, t)
      BY <1>1, <1>3, MakeReady
    <3>2. /\ b \in Kernel /\ ListsOK(b) /\ TimesOK(b) /\ LeftOK(b, h, lag)
          /\ \A u \in Threads : /\ IsReady(b, u) <=> IsReady(s, u) \/ u = t
                                /\ Linked(b, u) <=> Linked(s, u) \/ u = t
          /\ Pnd(b) = Pnd(s) \ {t}
          /\ b.uxPriority = s.uxPriority /\ b.pxCurrentTCB = s.pxCurrentTCB
      <4> HIDE DEF b
      <4>1. Cleared(h, l, t)
        BY <1>4 DEF Cleared
      <4> QED BY <1>1, <1>4, <3>1, <4>1, ReadiesFacts
    <3>3. Signalled(b, s)
      <4> HIDE DEF b
      <4>1. Pnd(b) = {}
        BY <2>1, <3>2
      <4> QED BY <1>3, <3>1, <3>2, <4>1 DEF Signalled, Readies
    <3>4. ~ higher => NoneAbove(b, s)
      <4> HIDE DEF b
      <4>1. ~ higher => s.uxPriority[t] <= s.uxPriority[s.pxCurrentTCB]
        <5>1. s.pxCurrentTCB \in Threads
          BY DEF Kernel
        <5>2. s.uxPriority[t] \in Nat /\ s.uxPriority[s.pxCurrentTCB] \in Nat
          BY <1>2, <5>1, ItemsTyped
        <5>3. ~ higher => ~ (s.uxPriority[t] > s.uxPriority[s.pxCurrentTCB])
          BY <1>5, Zenon
        <5> QED BY <5>2, <5>3
      <4> QED BY <3>2, <4>1 DEF NoneAbove
    <3>5. b.xYieldPending = s.xYieldPending
      BY <3>1 DEF Readies
    <3> QED BY <2>1, <3>2, <3>3, <3>4, <3>5
  <2>2. CASE s.uxSchedulerSuspended # 0
    <3> HIDE DEF a
    <3> DEFINE pend == Append(a.xPendingReadyList, t)
    <3>1. pend \in Distinct(Tasks) /\ ToSet(pend) = Pnd(s) \cup {t}
      <4>1. a.xPendingReadyList \in Distinct(Tasks) /\ t \notin ToSet(a.xPendingReadyList)
        BY <1>6 DEF Kernel, Pnd
      <4>2. pend \in Distinct(Tasks) /\ ToSet(pend) = ToSet(a.xPendingReadyList) \cup {t}
        BY <1>1, <4>1, DistinctAppend
      <4> QED BY <1>6, <4>2 DEF Pnd
    <3> HIDE DEF pend
    <3>2. c = [a EXCEPT !.xPendingReadyList = pend]
      BY <1>6 DEF Kernel, pend
    <3> HIDE DEF c
    <3>3. c \in Kernel
      BY <1>6, <3>1, <3>2 DEF Kernel
    <3>4. /\ SameReady(c, a) /\ SameDelayed(c, a) /\ SameRest(c, a)
          /\ c.xSuspendedTaskList = a.xSuspendedTaskList
          /\ c.xYieldPending = a.xYieldPending
          /\ c.xTasksWaiting = a.xTasksWaiting
          /\ c.xPendingReadyList = pend
      BY <1>6, <3>2 DEF Kernel, SameReady, SameDelayed, SameRest
    <3>5. /\ SameReady(c, s) /\ SameDelayed(c, s) /\ SameRest(c, s)
          /\ c.xSuspendedTaskList = s.xSuspendedTaskList
          /\ c.xYieldPending = s.xYieldPending
      BY <1>6, <3>4 DEF SameReady, SameDelayed, SameRest
    <3>6. /\ \A f \in Events : Wts(c, f) = Wts(s, f) \ {t}
          /\ Pnd(c) = Pnd(s) \cup {t}
      BY <1>6, <3>1, <3>4 DEF Wts, Pnd
    <3>7. /\ \A q \in Priorities : RdyAt(c, q) = RdyAt(s, q)
          /\ DItems(c) = DItems(s) /\ OItems(c) = OItems(s)
          /\ DOwn(c) = DOwn(s) /\ OOwn(c) = OOwn(s)
          /\ c.uxPriority = s.uxPriority /\ c.xTickCount = s.xTickCount
          /\ c.uxTopReadyPriority = s.uxTopReadyPriority
          /\ c.xNextTaskUnblockTime = s.xNextTaskUnblockTime
      BY <3>5 DEF SameReady, SameDelayed, SameRest, RdyAt, DItems, OItems, DOwn, OOwn
    <3>8. \A u \in Threads : u # t => SameTask(c, s, u)
      BY <3>5, <3>6, <3>7 DEF SameTask
    <3>9. IsReady(c, t) <=> IsReady(s, t)
      BY <3>7 DEF IsReady
    <3>10. (Asleep(c, t) <=> Asleep(s, t)) /\ ~ Waits(c, t)
      BY <3>5, <3>6, <3>7 DEF Asleep, Waits
    <3>11. TaskOK(c, t)
      <4>1. TaskOK(s, t)
        BY <1>2 DEF ListsOK
      <4> QED BY <1>3, <3>5, <3>6, <3>7, <3>9, <3>10, <4>1 DEF TaskOK
    <3>12. /\ ListsOK(c)
           /\ \A u \in Threads : u # t => /\ IsReady(c, u) <=> IsReady(s, u)
                                          /\ Linked(c, u) <=> Linked(s, u)
      <4>1. s.uxTopReadyPriority <= c.uxTopReadyPriority
        BY <3>7, ItemsTyped
      <4>2. \A q \in Priorities : t \in RdyAt(c, q) => q <= c.uxTopReadyPriority
        BY <1>3, <3>9 DEF IsReady
      <4> QED BY <1>1, <3>3, <3>8, <3>11, <4>1, <4>2, OneMoved
    <3>13. Linked(c, t) <=> Linked(s, t)
      BY <3>9, <3>10 DEF Linked
    <3>14. TimesOK(c) /\ LeftOK(c, h, lag)
      <4>1. TimesOK(c)
        BY <3>7 DEF TimesOK
      <4>2. \A u \in Threads : h[u] > 0 => (u \in DOwn(c) \/ u \in OOwn(c)) /\ u \notin Pnd(c)
        BY <1>4, <3>6, <3>7 DEF LeftOK
      <4>3. \A d \in DItems(s) \cup OItems(s) : d.owner \in Threads
        BY ItemsTyped
      <4>4. \A d \in DItems(s) \cup OItems(s) : d.owner \notin Pnd(c) =>
              d.owner \notin Pnd(s) /\ h[d.owner] = l[d.owner]
        BY <1>4, <3>6, <4>3
      <4> QED BY <3>7, <4>1, <4>2, <4>4 DEF LeftOK
    <3>15. Signalled(c, s)
      <4>1. s.uxSchedulerSuspended > 0 /\ c.uxSchedulerSuspended = s.uxSchedulerSuspended
        BY <2>2, <3>5 DEF Kernel, SameRest
      <4> QED BY <3>3, <3>5, <3>9, <3>12, <3>13, <4>1 DEF Signalled, SameRest
    <3>16. NoneAbove(c, s)
      BY <3>9, <3>12 DEF NoneAbove
    <3> QED BY <2>2, <3>3, <3>5, <3>12, <3>14, <3>15, <3>16
  <2> QED BY <2>1, <2>2
<1> HIDE DEF m
<1>8. higher \in BOOLEAN
  BY <1>5
<1>9. y \in BOOLEAN
  BY <1>7, <1>8 DEF Kernel
<1>10. n = [m EXCEPT !.xYieldPending = y]
  BY <1>5, <1>7 DEF Kernel
<1>11. (higher => y) /\ (s.xYieldPending => y) /\ r.higher = higher
  BY <1>5, <1>7
<1> HIDE DEF r, n, y
<1>12. /\ n \in Kernel /\ n.xYieldPending = y
       /\ n.xSuspendedTaskList = m.xSuspendedTaskList
       /\ SameReady(n, m) /\ SameDelayed(n, m) /\ SameEvents(n, m) /\ SameRest(n, m)
  BY <1>7, <1>9, <1>10, SetYieldFacts
<1>13. SamePlaces(n, m)
  BY <1>12, SameEverything
<1>14. n.uxTopReadyPriority = m.uxTopReadyPriority /\ n.pxCurrentTCB = m.pxCurrentTCB
  BY <1>12 DEF SameReady, SameRest
<1>15. ListsOK(n) /\ TimesOK(n) /\ LeftOK(n, h, lag)
  BY <1>7, <1>13, <1>14, SameListsOK, SamePlacesFacts
<1>16. Signalled(n, s)
  <2>1. Pnd(n) = Pnd(m)
    BY <1>13 DEF SamePlaces
  <2> QED BY <1>7, <1>12, <1>13, <2>1, SamePlacesFacts DEF Signalled, SameRest
<1>17. ~ higher => NoneAbove(n, s)
  BY <1>7, <1>13, SamePlacesFacts DEF NoneAbove
<1> QED BY <1>1, <1>8, <1>11, <1>12, <1>15, <1>16, <1>17 DEF n, r, t, h

-----------------------------------------------------------------------------
(***************************************************************************)
(* Blocking.                                                               *)
(***************************************************************************)
\* t blocks for n ticks, or forever
Blocked(h, l, t, n, forever, lag) ==
    \A u \in Threads : h[u] = IF u # t THEN l[u]
                              ELSE IF n = portMAX_DELAY /\ forever THEN 0 ELSE LeftOf(n, lag)

\* and waits in the event list of E, if it is not empty
WaitsToo(a, s, t, E) ==
    /\ \A e, f \in E : e = f
    /\ \A e \in Events : Wts(a, e) = IF e \in E THEN Wts(s, e) \cup {t} ELSE Wts(s, e)

\* the state a of a task t that blocks: s with t in an event list, if E is not empty
Blocks(s, l, h, lag, t, n, forever, E, a) ==
    /\ s \in Kernel /\ ListsOK(s) /\ TimesOK(s) /\ lag \in Nat /\ LeftOK(s, l, lag)
    /\ t \in Tasks /\ t = s.pxCurrentTCB /\ IsReady(s, t)
    /\ n \in 1..portMAX_DELAY /\ forever \in BOOLEAN
    /\ Blocked(h, l, t, n, forever, lag)
    /\ a \in Kernel /\ SameReady(a, s) /\ SameDelayed(a, s) /\ SameRest(a, s)
    /\ a.xSuspendedTaskList = s.xSuspendedTaskList /\ a.xYieldPending = s.xYieldPending
    /\ Pnd(a) = Pnd(s) /\ WaitsToo(a, s, t, E)

\* The running task blocks: it has left its ready list, is linked in one
\* list for its delay, and its wake time is the one that its delay asks
\* for, across the wrap of xTickCount.
LEMMA BlockFacts ==
  ASSUME NEW s, NEW l, NEW h, NEW lag, NEW t, NEW n, NEW forever, NEW E, NEW a,
         Blocks(s, l, h, lag, t, n, forever, E, a)
  PROVE  LET r == prvAddCurrentTaskToDelayedList(a, n, forever)
         IN  /\ r \in Kernel /\ ListsOK(r) /\ TimesOK(r) /\ LeftOK(r, h, lag)
             /\ ~ IsReady(r, t) /\ Linked(r, t)
             /\ \A u \in Threads : u # t => /\ IsReady(r, u) <=> IsReady(s, u)
                                            /\ Linked(r, u) <=> Linked(s, u)
             /\ Pnd(r) = Pnd(s) /\ SameRest(r, s) /\ r.xYieldPending = s.xYieldPending
             /\ Highest(s) => Highest(r)
<1> USE DEF Blocks
<1>a. /\ s \in Kernel /\ ListsOK(s) /\ TimesOK(s) /\ lag \in Nat /\ LeftOK(s, l, lag)
      /\ t \in Tasks /\ t = s.pxCurrentTCB /\ IsReady(s, t)
      /\ n \in 1..portMAX_DELAY /\ forever \in BOOLEAN
      /\ a \in Kernel /\ SameReady(a, s) /\ SameDelayed(a, s) /\ SameRest(a, s)
      /\ a.xSuspendedTaskList = s.xSuspendedTaskList /\ a.xYieldPending = s.xYieldPending
      /\ Pnd(a) = Pnd(s)
  OBVIOUS
<1>0. /\ \A e, f \in E : e = f
      /\ \A u \in Threads : h[u] = IF u # t THEN l[u]
                               ELSE IF n = portMAX_DELAY /\ forever THEN 0 ELSE LeftOf(n, lag)
      /\ \A e \in Events : Wts(a, e) = IF e \in E THEN Wts(s, e) \cup {t} ELSE Wts(s, e)
  BY DEF Blocked, WaitsToo
<1> HIDE DEF Blocks
<1> USE <1>a, <1>0
<1> DEFINE r == prvAddCurrentTaskToDelayedList(a, n, forever)
           wake == (a.xTickCount + n) % Wrap
           x == [owner |-> t, value |-> wake]
           D == {d \in DItems(a) : d.owner # t}
           O == {d \in OItems(a) : d.owner # t}
           inf == n = portMAX_DELAY /\ forever
<1>1. /\ \A q \in Priorities : RdyAt(a, q) = RdyAt(s, q)
      /\ DItems(a) = DItems(s) /\ OItems(a) = OItems(s)
      /\ a.uxPriority = s.uxPriority /\ a.xTickCount = s.xTickCount
      /\ a.xNextTaskUnblockTime = s.xNextTaskUnblockTime
      /\ a.uxTopReadyPriority = s.uxTopReadyPriority
      /\ a.pxCurrentTCB = t
  BY DEF SameReady, SameDelayed, SameRest, RdyAt, DItems, OItems
<1>2. t \in Threads /\ t # Idle
  BY ThreadsAssumption DEF Threads
<1>3. /\ TaskOK(s, t) /\ ~ Asleep(s, t) /\ ~ Waits(s, t) /\ t \notin Pnd(s)
  BY <1>2 DEF ListsOK, TaskOK
<1>4. D = DItems(s) /\ O = OItems(s)
  BY <1>1, <1>3 DEF Asleep, DOwn, OOwn
<1>5. t \notin s.xSuspendedTaskList
  BY <1>3 DEF Asleep
<1>6. n \in 0..portMAX_DELAY /\ n \in Nat /\ n > 0 /\ n < Wrap
  BY BoundsAssumption DEF portMAX_DELAY
<1>7. /\ r \in Kernel
      /\ \A q \in Priorities : RdyAt(r, q) = RdyAt(a, q) \ {t}
      /\ x \in Item
      /\ \/ /\ inf
            /\ DItems(r) = D /\ OItems(r) = O
            /\ r.xSuspendedTaskList = a.xSuspendedTaskList \cup {t}
            /\ r.xNextTaskUnblockTime = a.xNextTaskUnblockTime
         \/ /\ ~ inf /\ wake < a.xTickCount
            /\ DItems(r) = D /\ OItems(r) = O \cup {x}
            /\ r.xSuspendedTaskList = a.xSuspendedTaskList \ {t}
            /\ r.xNextTaskUnblockTime = a.xNextTaskUnblockTime
         \/ /\ ~ inf /\ ~ (wake < a.xTickCount)
            /\ DItems(r) = D \cup {x} /\ OItems(r) = O
            /\ r.xSuspendedTaskList = a.xSuspendedTaskList \ {t}
            /\ r.xNextTaskUnblockTime = IF wake < a.xNextTaskUnblockTime THEN wake
                                        ELSE a.xNextTaskUnblockTime
      /\ r.uxTopReadyPriority = a.uxTopReadyPriority
      /\ r.xYieldPending = a.xYieldPending
      /\ SameEvents(r, a) /\ SameRest(r, a)
  <2> DEFINE c == a.pxCurrentTCB
             y == [owner |-> c, value |-> wake]
             B == {d \in DItems(a) : d.owner # c}
             F == {d \in OItems(a) : d.owner # c}
  <2>1. c = t /\ c \in Tasks
    BY <1>1
  <2>2. y = x /\ B = D /\ F = O
    BY <2>1
  <2>3. /\ r \in Kernel
        /\ \A q \in Priorities : RdyAt(r, q) = RdyAt(a, q) \ {c}
        /\ y \in Item
        /\ \/ /\ n = portMAX_DELAY /\ forever
              /\ DItems(r) = B /\ OItems(r) = F
              /\ r.xSuspendedTaskList = a.xSuspendedTaskList \cup {c}
              /\ r.xNextTaskUnblockTime = a.xNextTaskUnblockTime
           \/ /\ ~ (n = portMAX_DELAY /\ forever) /\ wake < a.xTickCount
              /\ DItems(r) = B /\ OItems(r) = F \cup {y}
              /\ r.xSuspendedTaskList = a.xSuspendedTaskList \ {c}
              /\ r.xNextTaskUnblockTime = a.xNextTaskUnblockTime
           \/ /\ ~ (n = portMAX_DELAY /\ forever) /\ ~ (wake < a.xTickCount)
              /\ DItems(r) = B \cup {y} /\ OItems(r) = F
              /\ r.xSuspendedTaskList = a.xSuspendedTaskList \ {c}
              /\ r.xNextTaskUnblockTime = IF wake < a.xNextTaskUnblockTime THEN wake
                                          ELSE a.xNextTaskUnblockTime
        /\ r.uxTopReadyPriority = a.uxTopReadyPriority
        /\ r.xYieldPending = a.xYieldPending
        /\ SameEvents(r, a) /\ SameRest(r, a)
    BY <1>6, <2>1, AddCurrentFacts
  <2> HIDE DEF c, y, B, F, x, D, O, r, wake
  <2> QED BY <2>1, <2>2, <2>3
<1> HIDE DEF r
<1>8. wake \in Nat /\ wake = IF s.xTickCount + n < Wrap THEN s.xTickCount + n
                             ELSE s.xTickCount + n - Wrap
  <2>1. s.xTickCount \in Nat /\ s.xTickCount < Wrap
    BY ItemsTyped
  <2>2. s.xTickCount + n \in Nat /\ s.xTickCount + n < 2 * Wrap
    BY <1>6, <2>1, BoundsAssumption
  <2>3. (s.xTickCount + n) % Wrap = IF s.xTickCount + n < Wrap THEN s.xTickCount + n
                                    ELSE s.xTickCount + n - Wrap
    <3> DEFINE v == s.xTickCount + n
    <3>1. v \in Nat /\ v < 2 * Wrap
      BY <2>2
    <3> HIDE DEF v
    <3>2. v % Wrap = IF v < Wrap THEN v ELSE v - Wrap
      BY <3>1, WrapOnce, BoundsAssumption
    <3> QED BY <1>6, <2>1, <2>2, <3>2, BoundsAssumption DEF v
  <2>4. wake = (s.xTickCount + n) % Wrap
    BY <1>1
  <2> HIDE DEF wake, x, D, O
  <2> QED BY <1>6, <2>1, <2>2, <2>3, <2>4, BoundsAssumption
<1> HIDE DEF wake
<1>9. x.owner = t /\ x.value = wake
  OBVIOUS
<1> HIDE DEF x, D, O
<1>10. /\ SameRest(r, s) /\ r.xYieldPending = s.xYieldPending /\ Pnd(r) = Pnd(s)
       /\ \A e \in Events : Wts(r, e) = IF e \in E THEN Wts(s, e) \cup {t} ELSE Wts(s, e)
       /\ r.uxTopReadyPriority = s.uxTopReadyPriority
       /\ r.uxPriority = s.uxPriority /\ r.xTickCount = s.xTickCount
       /\ r.pxCurrentTCB = t
  BY <1>1, <1>7 DEF SameRest, SameEvents, Wts, Pnd
<1>11. \A q \in Priorities : RdyAt(r, q) = RdyAt(s, q) \ {t}
  BY <1>1, <1>7
<1>12. ~ IsReady(r, t)
  BY <1>11 DEF IsReady
<1>13. \/ /\ inf
          /\ DItems(r) = DItems(s) /\ OItems(r) = OItems(s)
          /\ r.xSuspendedTaskList = s.xSuspendedTaskList \cup {t}
          /\ r.xNextTaskUnblockTime = s.xNextTaskUnblockTime
       \/ /\ ~ inf /\ wake < s.xTickCount
          /\ DItems(r) = DItems(s) /\ OItems(r) = OItems(s) \cup {x}
          /\ r.xSuspendedTaskList = s.xSuspendedTaskList
          /\ r.xNextTaskUnblockTime = s.xNextTaskUnblockTime
       \/ /\ ~ inf /\ ~ (wake < s.xTickCount)
          /\ DItems(r) = DItems(s) \cup {x} /\ OItems(r) = OItems(s)
          /\ r.xSuspendedTaskList = s.xSuspendedTaskList
          /\ r.xNextTaskUnblockTime = IF wake < s.xNextTaskUnblockTime THEN wake
                                      ELSE s.xNextTaskUnblockTime
  <2>1. s.xSuspendedTaskList \ {t} = s.xSuspendedTaskList
    BY <1>5
  <2> HIDE DEF inf
  <2> QED BY <1>1, <1>4, <1>7, <2>1
<1>14. \/ /\ inf /\ DOwn(r) = DOwn(s) /\ OOwn(r) = OOwn(s)
       \/ /\ ~ inf /\ DOwn(r) = DOwn(s) /\ OOwn(r) = OOwn(s) \cup {t}
       \/ /\ ~ inf /\ DOwn(r) = DOwn(s) \cup {t} /\ OOwn(r) = OOwn(s)
  <2> HIDE DEF inf
  <2> QED BY <1>9, <1>13 DEF DOwn, OOwn
<1>15. Asleep(r, t)
  <2> HIDE DEF inf
  <2> QED BY <1>9, <1>13 DEF Asleep, DOwn, OOwn
<1>16. TaskOK(r, t)
  <2>1. /\ t \in DOwn(r) => t \notin OOwn(r) /\ t \notin r.xSuspendedTaskList
        /\ t \in OOwn(r) => t \notin r.xSuspendedTaskList
    <3>1. t \notin DOwn(s) /\ t \notin OOwn(s)
      BY <1>3 DEF Asleep
    <3> HIDE DEF inf
    <3> QED BY <1>5, <1>9, <1>13, <3>1 DEF DOwn, OOwn
  <2>2. \A e, f \in Events : t \in Wts(r, e) /\ t \in Wts(r, f) => e = f
    BY <1>3, <1>10 DEF Waits
  <2> QED BY <1>3, <1>10, <1>12, <1>15, <2>1, <2>2 DEF TaskOK, IsReady
<1>17. \A u \in Threads : u # t => SameTask(r, s, u)
  <2> SUFFICES ASSUME NEW u \in Threads, u # t PROVE SameTask(r, s, u)
    OBVIOUS
  <2>1. /\ u \in DOwn(r) <=> u \in DOwn(s)
        /\ u \in OOwn(r) <=> u \in OOwn(s)
    BY <1>14
  <2>2. u \in r.xSuspendedTaskList <=> u \in s.xSuspendedTaskList
    BY <1>13
  <2> QED BY <1>10, <1>11, <2>1, <2>2 DEF SameTask
<1>18. /\ ListsOK(r)
       /\ \A u \in Threads : u # t => /\ IsReady(r, u) <=> IsReady(s, u)
                                      /\ Linked(r, u) <=> Linked(s, u)
  <2>1. s.uxTopReadyPriority <= r.uxTopReadyPriority
    BY <1>10, ItemsTyped
  <2>2. \A q \in Priorities : t \in RdyAt(r, q) => q <= r.uxTopReadyPriority
    BY <1>11
  <2> QED BY <1>7, <1>16, <1>17, <2>1, <2>2, OneMoved
<1>19. TimesOK(r)
  <2>1. s.xTickCount \in Nat /\ s.xNextTaskUnblockTime \in Nat
        /\ \A d \in DItems(s) \cup OItems(s) : d.value \in Nat
    BY ItemsTyped
  <2>2. ~ (wake < s.xTickCount) => wake > s.xTickCount
    BY <1>6, <1>8, <2>1, BoundsAssumption
  <2> HIDE DEF inf
  <2>3. CASE DItems(r) = DItems(s) \cup {x}
    <3>1. /\ OItems(r) = OItems(s) /\ wake > s.xTickCount
          /\ r.xNextTaskUnblockTime <= wake
          /\ r.xNextTaskUnblockTime <= s.xNextTaskUnblockTime
      <4>1. \/ DItems(s) = DItems(s) \cup {x}
            \/ /\ ~ (wake < s.xTickCount) /\ OItems(r) = OItems(s)
               /\ r.xNextTaskUnblockTime = IF wake < s.xNextTaskUnblockTime THEN wake
                                           ELSE s.xNextTaskUnblockTime
        BY <1>13, <2>3
      <4>2. DItems(s) # DItems(s) \cup {x}
        BY <1>3, <1>9 DEF Asleep, DOwn
      <4> QED BY <1>8, <2>1, <2>2, <4>1, <4>2
    <3>2. \A d \in DItems(s) : r.xNextTaskUnblockTime <= d.value
      <4>1. r.xNextTaskUnblockTime \in Nat
        BY <1>7, ItemsTyped
      <4> QED BY <2>1, <3>1, <4>1 DEF TimesOK
    <3> QED BY <1>9, <1>10, <2>3, <3>1, <3>2 DEF TimesOK
  <2>4. CASE DItems(r) # DItems(s) \cup {x}
    <3>1. /\ DItems(r) = DItems(s) /\ r.xNextTaskUnblockTime = s.xNextTaskUnblockTime
          /\ \A d \in OItems(r) : d \in OItems(s) \/ (d = x /\ wake < s.xTickCount)
      BY <1>13, <2>4
    <3> QED BY <1>9, <1>10, <3>1 DEF TimesOK
  <2> QED BY <2>3, <2>4
<1>20. LeftOK(r, h, lag)
  <2>1. ASSUME NEW u \in Threads, h[u] > 0
        PROVE  (u \in DOwn(r) \/ u \in OOwn(r)) /\ u \notin Pnd(r)
    <3>1. CASE u # t
      <4>1. l[u] > 0
        BY <2>1, <3>1
      <4>2. (u \in DOwn(s) \/ u \in OOwn(s)) /\ u \notin Pnd(s)
        BY <4>1 DEF LeftOK
      <4> QED BY <1>10, <1>14, <4>2
    <3>2. CASE u = t
      <4>1. ~ inf
        BY <2>1, <3>2
      <4> HIDE DEF inf
      <4> QED BY <1>3, <1>10, <1>14, <3>2, <4>1
    <3> QED BY <3>1, <3>2
  <2>2. \A d \in DItems(s) \cup OItems(s) : d.owner \in Threads /\ d.owner # t
    BY <1>3, ItemsTyped DEF Asleep, DOwn, OOwn
  <2>3. s.xTickCount \in Nat /\ s.xTickCount < Wrap
    BY ItemsTyped
  <2>4. ASSUME NEW d \in DItems(r), d.owner \notin Pnd(r)
        PROVE  h[d.owner] = LeftOf(d.value - r.xTickCount, lag)
    <3>1. CASE d \in DItems(s)
      BY <1>10, <2>2, <2>4, <3>1 DEF LeftOK
    <3>2. CASE d \notin DItems(s)
      <4>1. d = x /\ ~ inf /\ ~ (wake < s.xTickCount)
        BY <1>13, <2>4, <3>2
      <4>2. h[t] = LeftOf(n, lag)
        BY <1>2, <4>1
      <4>3. wake - s.xTickCount = n
        BY <1>6, <1>8, <2>3, <4>1, BoundsAssumption
      <4> QED BY <1>9, <1>10, <4>1, <4>2, <4>3
    <3> QED BY <3>1, <3>2
  <2>5. ASSUME NEW d \in OItems(r), d.owner \notin Pnd(r)
        PROVE  h[d.owner] = LeftOf(d.value + Wrap - r.xTickCount, lag)
    <3>1. CASE d \in OItems(s)
      BY <1>10, <2>2, <2>5, <3>1 DEF LeftOK
    <3>2. CASE d \notin OItems(s)
      <4>1. d = x /\ ~ inf /\ wake < s.xTickCount
        BY <1>13, <2>5, <3>2
      <4>2. h[t] = LeftOf(n, lag)
        BY <1>2, <4>1
      <4>3. wake + Wrap - s.xTickCount = n
        BY <1>6, <1>8, <2>3, <4>1, BoundsAssumption
      <4> QED BY <1>9, <1>10, <4>1, <4>2, <4>3
    <3> QED BY <3>1, <3>2
  <2> QED BY <2>1, <2>4, <2>5 DEF LeftOK
<1>21. Highest(s) => Highest(r)
  <2>1. s.uxPriority[s.pxCurrentTCB] <= r.uxPriority[r.pxCurrentTCB]
    BY <1>2, <1>10, ItemsTyped
  <2>2. r.pxCurrentTCB = s.pxCurrentTCB
    BY <1>10
  <2> QED BY <1>7, <1>12, <1>17, <2>1, <2>2, OneMovedHighest
<1> QED BY <1>7, <1>10, <1>12, <1>15, <1>18, <1>19, <1>20, <1>21 DEF Linked, r

-----------------------------------------------------------------------------
(***************************************************************************)
(* Suspending and deleting.                                                *)
(***************************************************************************)
\* every task is where it was, and so is everything a step may not disturb
Alike(n, s) ==
    /\ n \in Kernel /\ ListsOK(n)
    /\ \A u \in Threads : /\ IsReady(n, u) <=> IsReady(s, u)
                          /\ Linked(n, u) <=> Linked(s, u)
    /\ Pnd(n) = Pnd(s) /\ n.pxCurrentTCB = s.pxCurrentTCB

\* The same contents of the lists, the same running task: nothing has
\* moved.
LEMMA SamePlacesAlike ==
  ASSUME NEW s \in Kernel, ListsOK(s), NEW n \in Kernel, SamePlaces(n, s),
         n.pxCurrentTCB = s.pxCurrentTCB, n.uxTopReadyPriority = s.uxTopReadyPriority
  PROVE  /\ Alike(n, s)
         /\ TimesOK(s) => TimesOK(n)
         /\ \A l, lag : LeftOK(s, l, lag) => LeftOK(n, l, lag)
         /\ Highest(s) => Highest(n)
<1>1. ListsOK(n)
  BY SameListsOK
<1>2. Pnd(n) = Pnd(s)
  BY DEF SamePlaces
<1> QED BY <1>1, <1>2, SamePlacesFacts, SameHighest DEF Alike

\* prvResetNextTaskUnblockTime moves no task.
LEMMA ResetOutcome ==
  ASSUME NEW s \in Kernel, ListsOK(s), TimesOK(s), NEW l, NEW lag, LeftOK(s, l, lag)
  PROVE  LET n == prvResetNextTaskUnblockTime(s)
         IN  /\ Alike(n, s) /\ TimesOK(n) /\ LeftOK(n, l, lag) /\ SameRest(n, s)
             /\ n.xYieldPending = s.xYieldPending
             /\ Highest(s) => Highest(n)
<1> DEFINE n == prvResetNextTaskUnblockTime(s)
<1>1. /\ n \in Kernel
      /\ \A d \in DItems(n) : n.xNextTaskUnblockTime <= d.value
      /\ DItems(n) = DItems(s) /\ OItems(n) = OItems(s)
      /\ n.xSuspendedTaskList = s.xSuspendedTaskList
      /\ n.xYieldPending = s.xYieldPending
      /\ SameReady(n, s) /\ SameEvents(n, s) /\ SameRest(n, s)
  BY ResetFacts
<1> HIDE DEF n
<1>2. /\ \A q \in Priorities : RdyAt(n, q) = RdyAt(s, q)
      /\ \A e \in Events : Wts(n, e) = Wts(s, e)
      /\ Pnd(n) = Pnd(s)
      /\ DOwn(n) = DOwn(s) /\ OOwn(n) = OOwn(s)
      /\ n.uxPriority = s.uxPriority /\ n.xTickCount = s.xTickCount
      /\ n.uxTopReadyPriority = s.uxTopReadyPriority
      /\ n.pxCurrentTCB = s.pxCurrentTCB
  BY <1>1 DEF SameReady, SameEvents, SameRest, RdyAt, Wts, Pnd, DOwn, OOwn
<1>3. \A u \in Threads : SameTask(n, s, u)
  BY <1>1, <1>2 DEF SameTask
<1>4. \A u \in Threads : /\ IsReady(n, u) <=> IsReady(s, u)
                         /\ Linked(n, u) <=> Linked(s, u)
                         /\ TaskOK(n, u)
  BY <1>3, SameTaskFacts DEF ListsOK
<1>5. ListsOK(n)
  BY <1>2, <1>4, BoundsAssumption DEF ListsOK, Priorities
<1>6. TimesOK(n) /\ LeftOK(n, l, lag)
  BY <1>1, <1>2 DEF TimesOK, LeftOK
<1>7. Highest(s) => Highest(n)
  BY <1>2, <1>4 DEF Highest
<1> QED BY <1>1, <1>2, <1>4, <1>5, <1>6, <1>7 DEF Alike, n

\* t has nothing left to wait for

\* t is in no list of n, but for the suspended list if S = {t}; the others stay
Removed(n, s, t, S) ==
    /\ \A q \in Priorities : RdyAt(n, q) = RdyAt(s, q) \ {t}
    /\ DItems(n) = {d \in DItems(s) : d.owner # t}
    /\ OItems(n) = {d \in OItems(s) : d.owner # t}
    /\ n.xSuspendedTaskList = (s.xSuspendedTaskList \ {t}) \cup S
    /\ \A e \in Events : Wts(n, e) = Wts(s, e) \ {t}
    /\ Pnd(n) = Pnd(s) \ {t}
    /\ n.uxTopReadyPriority = s.uxTopReadyPriority
    /\ n.xNextTaskUnblockTime = s.xNextTaskUnblockTime
    /\ n.xYieldPending = s.xYieldPending
    /\ SameRest(n, s)

\* A task has left every list, but for the suspended list.
LEMMA TaskLeft ==
  ASSUME NEW s \in Kernel, ListsOK(s), TimesOK(s), NEW l, NEW h, NEW lag, LeftOK(s, l, lag),
         NEW t \in Tasks, Cleared(h, l, t),
         NEW S, S = {} \/ S = {t}, NEW n \in Kernel,
         Removed(n, s, t, S)
  PROVE  /\ ListsOK(n) /\ TimesOK(n) /\ LeftOK(n, h, lag)
         /\ ~ IsReady(n, t) /\ (Linked(n, t) <=> S = {t})
         /\ \A u \in Threads : u # t => /\ IsReady(n, u) <=> IsReady(s, u)
                                        /\ Linked(n, u) <=> Linked(s, u)
         /\ Highest(s) => Highest(n)
<1> USE DEF Removed, Cleared
<1>1. /\ n.uxPriority = s.uxPriority /\ n.xTickCount = s.xTickCount
      /\ n.pxCurrentTCB = s.pxCurrentTCB
  BY DEF SameRest
<1>2. TimesOK(n) /\ LeftOK(n, h, lag) /\ DOwn(n) = DOwn(s) \ {t} /\ OOwn(n) = OOwn(s) \ {t}
  <2> DEFINE X == {t}
  <2>1. /\ DItems(n) = {d \in DItems(s) : d.owner \notin X}
        /\ OItems(n) = {d \in OItems(s) : d.owner \notin X}
        /\ Pnd(n) = Pnd(s) \ X
        /\ \A u \in Threads : h[u] = IF u \in X THEN 0 ELSE l[u]
        /\ n.xTickCount = s.xTickCount /\ n.xNextTaskUnblockTime = s.xNextTaskUnblockTime
    BY <1>1 DEF Removed, Cleared
  <2>2. \A d \in DItems(s) \cup OItems(s) : d.owner \in Threads
    BY ItemsTyped
  <2> HIDE DEF X, Removed, Cleared
  <2>3. DOwn(n) = DOwn(s) \ X /\ OOwn(n) = OOwn(s) \ X
    BY <2>1, <2>2 DEF DOwn, OOwn
  <2>4. TimesOK(n) /\ LeftOK(n, h, lag)
    <3>1. TimesOK(n)
      BY <2>1 DEF TimesOK
    <3>2. \A d \in DItems(s) \cup OItems(s) : d.owner \notin X /\ d.owner \notin Pnd(n) =>
             d.owner \notin Pnd(s) /\ h[d.owner] = l[d.owner]
      BY <2>1, <2>2
    <3>3. \A u \in Threads : h[u] > 0 => (u \in DOwn(n) \/ u \in OOwn(n)) /\ u \notin Pnd(n)
      BY <2>1, <2>3 DEF LeftOK
    <3> QED BY <2>1, <3>1, <3>2, <3>3 DEF LeftOK
  <2> QED BY <2>3, <2>4 DEF X
<1>3. /\ ~ IsReady(n, t) /\ ~ Waits(n, t) /\ t \notin Pnd(n)
      /\ Asleep(n, t) <=> S = {t}
  BY <1>2 DEF IsReady, Waits, Asleep
<1>4. TaskOK(n, t)
  BY <1>2, <1>3 DEF TaskOK, Waits
<1>5. ASSUME NEW u \in Threads, u # t PROVE SameTask(n, s, u)
  BY <1>1, <1>2, <1>5 DEF SameTask
<1>6. /\ ListsOK(n)
       /\ \A u \in Threads : u # t => /\ IsReady(n, u) <=> IsReady(s, u)
                                      /\ Linked(n, u) <=> Linked(s, u)
  <2>1. s.uxTopReadyPriority <= n.uxTopReadyPriority
    BY ItemsTyped
  <2>2. \A q \in Priorities : t \in RdyAt(n, q) => q <= n.uxTopReadyPriority
    OBVIOUS
  <2> QED BY <1>4, <1>5, <2>1, <2>2, OneMoved
<1>7. Highest(s) => Highest(n)
  <2>1. s.uxPriority[s.pxCurrentTCB] <= n.uxPriority[n.pxCurrentTCB]
    BY <1>1, ItemsTyped DEF Kernel
  <2> QED BY <1>1, <1>3, <1>5, <2>1, OneMovedHighest
<1> QED BY <1>2, <1>3, <1>6, <1>7 DEF Linked

\* t has left every list, but for the suspended list if S = {t}
Unlinked(s, t, S) == [Unlink(s, t) EXCEPT !.xSuspendedTaskList = @ \cup S]

\* vTaskSuspend and vTaskDelete take the task out of every list it is in.
LEMMA UnlinkOutcome ==
  ASSUME NEW s \in Kernel, ListsOK(s), TimesOK(s), NEW l, NEW h, NEW lag, LeftOK(s, l, lag),
         NEW t \in Tasks, Cleared(h, l, t),
         NEW S, S = {} \/ S = {t}
  PROVE  LET n == Unlinked(s, t, S)
         IN  /\ n \in Kernel /\ ListsOK(n) /\ TimesOK(n) /\ LeftOK(n, h, lag)
             /\ ~ IsReady(n, t) /\ (Linked(n, t) <=> S = {t})
             /\ \A u \in Threads : u # t => /\ IsReady(n, u) <=> IsReady(s, u)
                                            /\ Linked(n, u) <=> Linked(s, u)
             /\ Pnd(n) = Pnd(s) \ {t} /\ SameRest(n, s)
             /\ n.xYieldPending = s.xYieldPending
             /\ Highest(s) => Highest(n)
<1> DEFINE a == Unlink(s, t)
           n == [a EXCEPT !.xSuspendedTaskList = @ \cup S]
<1>1. t \in Threads
  BY DEF Threads
<1>2. /\ a \in Kernel
      /\ \A q \in Priorities : RdyAt(a, q) = RdyAt(s, q) \ {t}
      /\ DItems(a) = {d \in DItems(s) : d.owner # t}
      /\ OItems(a) = {d \in OItems(s) : d.owner # t}
      /\ a.xSuspendedTaskList = s.xSuspendedTaskList \ {t}
      /\ \A e \in Events : Wts(a, e) = Wts(s, e) \ {t}
      /\ Pnd(a) = Pnd(s) \ {t}
      /\ a.uxTopReadyPriority = s.uxTopReadyPriority
      /\ a.xNextTaskUnblockTime = s.xNextTaskUnblockTime
      /\ a.xYieldPending = s.xYieldPending
      /\ SameRest(a, s)
  BY UnlinkFacts
<1> HIDE DEF a
<1>3. /\ n \in Kernel
      /\ n.xSuspendedTaskList = a.xSuspendedTaskList \cup S
      /\ n.pxReadyTasksLists = a.pxReadyTasksLists
      /\ n.pxDelayedTaskList = a.pxDelayedTaskList
      /\ n.pxOverflowDelayedTaskList = a.pxOverflowDelayedTaskList
      /\ n.xTasksWaiting = a.xTasksWaiting
      /\ n.xPendingReadyList = a.xPendingReadyList
      /\ n.uxTopReadyPriority = a.uxTopReadyPriority
      /\ n.xNextTaskUnblockTime = a.xNextTaskUnblockTime
      /\ n.xYieldPending = a.xYieldPending
      /\ SameRest(n, a)
  BY <1>2 DEF Kernel, SameRest
<1> HIDE DEF n
<1>4. /\ \A q \in Priorities : RdyAt(n, q) = RdyAt(s, q) \ {t}
      /\ DItems(n) = {d \in DItems(s) : d.owner # t}
      /\ OItems(n) = {d \in OItems(s) : d.owner # t}
      /\ n.xSuspendedTaskList = (s.xSuspendedTaskList \ {t}) \cup S
      /\ \A e \in Events : Wts(n, e) = Wts(s, e) \ {t}
      /\ Pnd(n) = Pnd(s) \ {t}
      /\ n.uxTopReadyPriority = s.uxTopReadyPriority
      /\ n.xNextTaskUnblockTime = s.xNextTaskUnblockTime
      /\ n.xYieldPending = s.xYieldPending
      /\ SameRest(n, s)
  BY <1>2, <1>3 DEF RdyAt, DItems, OItems, Wts, Pnd, SameRest
<1>5. /\ ListsOK(n) /\ TimesOK(n) /\ LeftOK(n, h, lag)
      /\ ~ IsReady(n, t) /\ (Linked(n, t) <=> S = {t})
      /\ \A u \in Threads : u # t => /\ IsReady(n, u) <=> IsReady(s, u)
                                     /\ Linked(n, u) <=> Linked(s, u)
      /\ Highest(s) => Highest(n)
  <2>1. n \in Kernel
    BY <1>3
  <2>2. Removed(n, s, t, S)
    BY <1>4 DEF Removed
  <2>3. S = {} \/ S = {t}
    OBVIOUS
  <2> QED BY <2>1, <2>2, <2>3, TaskLeft
<1>6. Unlinked(s, t, S) = n
  BY DEF n, a, Unlinked
<1> QED BY <1>3, <1>4, <1>5, <1>6

\* xTasksWaitingTermination is no list of the state items of live tasks.
LEMMA TerminationFacts ==
  ASSUME NEW s \in Kernel, ListsOK(s), NEW q \in Distinct(Tasks)
  PROVE  LET n == [s EXCEPT !.xTasksWaitingTermination = q]
         IN  /\ Alike(n, s)
             /\ TimesOK(s) => TimesOK(n)
             /\ \A l, lag : LeftOK(s, l, lag) => LeftOK(n, l, lag)
             /\ Highest(s) => Highest(n)
             /\ n.xTasksWaitingTermination = q
             /\ n.uxPriority = s.uxPriority /\ n.xYieldPending = s.xYieldPending
             /\ n.xPendedTicks = s.xPendedTicks
             /\ n.uxSchedulerSuspended = s.uxSchedulerSuspended
<1> DEFINE n == [s EXCEPT !.xTasksWaitingTermination = q]
<1>1. /\ n \in Kernel /\ n.xTasksWaitingTermination = q
      /\ n.uxPriority = s.uxPriority /\ n.xYieldPending = s.xYieldPending
      /\ n.xPendedTicks = s.xPendedTicks
      /\ n.uxSchedulerSuspended = s.uxSchedulerSuspended
      /\ n.pxCurrentTCB = s.pxCurrentTCB /\ n.uxTopReadyPriority = s.uxTopReadyPriority
  BY DEF Kernel
<1>2. SamePlaces(n, s)
  BY DEF Kernel, SamePlaces, RdyAt, DItems, OItems, Wts, Pnd
<1> HIDE DEF n
<1> QED BY <1>1, <1>2, SamePlacesAlike DEF n

-----------------------------------------------------------------------------
(***************************************************************************)
(* Priorities and new tasks.                                               *)
(***************************************************************************)
SetPriority(s, t, p) == [s EXCEPT !.uxPriority[t] = p]

\* Nothing but the priority of t changes.
LEMMA SetPriorityFacts ==
  ASSUME NEW s \in Kernel, NEW t \in Tasks, NEW p \in Priorities
  PROVE  LET a == SetPriority(s, t, p)
         IN  /\ a \in Kernel
             /\ \A u \in Threads : a.uxPriority[u] = IF u = t THEN p ELSE s.uxPriority[u]
             /\ SameReady(a, s) /\ SameDelayed(a, s) /\ SameEvents(a, s)
             /\ a.xSuspendedTaskList = s.xSuspendedTaskList
             /\ a.xYieldPending = s.xYieldPending
             /\ a.xTasksWaitingTermination = s.xTasksWaitingTermination
             /\ a.xTickCount = s.xTickCount /\ a.xPendedTicks = s.xPendedTicks
             /\ a.uxSchedulerSuspended = s.uxSchedulerSuspended
             /\ a.pxCurrentTCB = s.pxCurrentTCB
<1> DEFINE a == SetPriority(s, t, p)
           pr == [s.uxPriority EXCEPT ![t] = p]
<1>1. t \in Threads
  BY DEF Threads
<1>2. pr \in [Threads -> Priorities] /\ \A u \in Threads : pr[u] = IF u = t THEN p ELSE s.uxPriority[u]
  BY <1>1 DEF Kernel
<1> HIDE DEF pr
<1>3. a = [s EXCEPT !.uxPriority = pr]
  BY DEF Kernel, SetPriority, pr
<1> HIDE DEF a
<1>4. a \in Kernel /\ a.uxPriority = pr
  BY <1>2, <1>3 DEF Kernel
<1>5. /\ SameReady(a, s) /\ SameDelayed(a, s) /\ SameEvents(a, s)
      /\ a.xSuspendedTaskList = s.xSuspendedTaskList
      /\ a.xYieldPending = s.xYieldPending
      /\ a.xTasksWaitingTermination = s.xTasksWaitingTermination
      /\ a.xTickCount = s.xTickCount /\ a.xPendedTicks = s.xPendedTicks
      /\ a.uxSchedulerSuspended = s.uxSchedulerSuspended
      /\ a.pxCurrentTCB = s.pxCurrentTCB
  BY <1>3 DEF Kernel, SameReady, SameDelayed, SameEvents
<1> QED BY <1>2, <1>4, <1>5 DEF a

\* what vTaskPrioritySet and xTaskCreate leave alone: all but t's ready list
Retained(n, s, t, p) ==
    /\ n \in Kernel
    /\ \A u \in Threads : n.uxPriority[u] = IF u = t THEN p ELSE s.uxPriority[u]
    /\ \A q \in Priorities : RdyAt(n, q) \ {t} = RdyAt(s, q) \ {t}
    /\ s.uxTopReadyPriority <= n.uxTopReadyPriority
    /\ DItems(n) = DItems(s) /\ OItems(n) = OItems(s)
    /\ n.xNextTaskUnblockTime = s.xNextTaskUnblockTime /\ SameEvents(n, s)
    /\ n.xSuspendedTaskList = s.xSuspendedTaskList
    /\ n.xYieldPending = s.xYieldPending
    /\ n.xTasksWaitingTermination = s.xTasksWaitingTermination
    /\ n.xTickCount = s.xTickCount /\ n.xPendedTicks = s.xPendedTicks
    /\ n.uxSchedulerSuspended = s.uxSchedulerSuspended
    /\ n.pxCurrentTCB = s.pxCurrentTCB

\* The lists are consistent after the priority of t has changed, if t is
\* ready in the list of its new priority or not ready at all.
LEMMA RetainedFacts ==
  ASSUME NEW s \in Kernel, ListsOK(s), NEW t \in Tasks, NEW p \in Priorities,
         NEW n, Retained(n, s, t, p),
         \A q \in Priorities : t \in RdyAt(n, q) => q = p,
         \A q \in Priorities : t \in RdyAt(n, q) => q <= n.uxTopReadyPriority,
         IsReady(n, t) => IsReady(s, t) \/ ~ Linked(s, t)
  PROVE  /\ ListsOK(n)
         /\ \A u \in Threads : u # t => /\ IsReady(n, u) <=> IsReady(s, u)
                                        /\ Linked(n, u) <=> Linked(s, u)
         /\ Asleep(n, t) <=> Asleep(s, t)
         /\ Pnd(n) = Pnd(s)
         /\ TimesOK(s) => TimesOK(n)
         /\ \A l, lag : LeftOK(s, l, lag) => LeftOK(n, l, lag)
<1>1. /\ DItems(n) = DItems(s) /\ OItems(n) = OItems(s)
      /\ DOwn(n) = DOwn(s) /\ OOwn(n) = OOwn(s)
      /\ Pnd(n) = Pnd(s) /\ \A e \in Events : Wts(n, e) = Wts(s, e)
      /\ n.xTickCount = s.xTickCount /\ n.xNextTaskUnblockTime = s.xNextTaskUnblockTime
      /\ n.xSuspendedTaskList = s.xSuspendedTaskList
  BY DEF Retained, SameEvents, DOwn, OOwn, Pnd, Wts
<1>2. /\ Asleep(n, t) <=> Asleep(s, t)
      /\ Waits(n, t) <=> Waits(s, t)
  BY <1>1 DEF Asleep, Waits
<1>3. t \in Threads /\ n.uxPriority[t] = p /\ TaskOK(s, t)
  BY DEF Threads, Retained, ListsOK
<1>4. TaskOK(n, t)
  <2>1. IsReady(n, t) => ~ Asleep(s, t) /\ ~ Waits(s, t) /\ t \notin Pnd(s)
    BY <1>3 DEF TaskOK, Linked
  <2> QED BY <1>1, <1>2, <1>3, <2>1 DEF TaskOK
<1>5. \A u \in Threads : u # t => SameTask(n, s, u)
  <2> SUFFICES ASSUME NEW u \in Threads, u # t PROVE SameTask(n, s, u)
    OBVIOUS
  <2>1. \A q \in Priorities : u \in RdyAt(n, q) <=> u \in RdyAt(s, q)
    <3> TAKE q \in Priorities
    <3>1. RdyAt(n, q) \ {t} = RdyAt(s, q) \ {t}
      BY DEF Retained
    <3> QED BY <3>1
  <2>2. n.uxPriority[u] = s.uxPriority[u]
    BY DEF Retained
  <2> QED BY <1>1, <2>1, <2>2 DEF SameTask
<1>6. n \in Kernel /\ s.uxTopReadyPriority <= n.uxTopReadyPriority
  BY DEF Retained
<1>7. /\ ListsOK(n)
      /\ \A u \in Threads : u # t => /\ IsReady(n, u) <=> IsReady(s, u)
                                     /\ Linked(n, u) <=> Linked(s, u)
  BY <1>4, <1>5, <1>6, OneMoved
<1>8. /\ TimesOK(s) => TimesOK(n)
      /\ \A l, lag : LeftOK(s, l, lag) => LeftOK(n, l, lag)
  BY <1>1 DEF TimesOK, LeftOK
<1> QED BY <1>1, <1>2, <1>7, <1>8

\* vTaskPrioritySet: a ready task is moved to the ready list of its new
\* priority, a task that is not ready stays where it is.
LEMMA RelistOutcome ==
  ASSUME NEW s \in Kernel, ListsOK(s), NEW t \in Tasks, NEW p \in Priorities
  PROVE  LET n == Relist(SetPriority(s, t, p), t, s.uxPriority[t])
         IN  /\ Retained(n, s, t, p) /\ ListsOK(n)
             /\ \A u \in Threads : /\ IsReady(n, u) <=> IsReady(s, u)
                                   /\ Linked(n, u) <=> Linked(s, u)
             /\ Pnd(n) = Pnd(s)
             /\ TimesOK(s) => TimesOK(n)
             /\ \A l, lag : LeftOK(s, l, lag) => LeftOK(n, l, lag)
<1> DEFINE old == s.uxPriority[t]
           a == SetPriority(s, t, p)
           b == RemoveState(a, t)
           n == Relist(a, t, old)
<1>1. t \in Threads /\ old \in Priorities /\ TaskOK(s, t)
  BY DEF Threads, Kernel, ListsOK
<1>2. /\ a \in Kernel
      /\ \A u \in Threads : a.uxPriority[u] = IF u = t THEN p ELSE s.uxPriority[u]
      /\ SameReady(a, s) /\ SameDelayed(a, s) /\ SameEvents(a, s)
      /\ a.xSuspendedTaskList = s.xSuspendedTaskList
      /\ a.xYieldPending = s.xYieldPending
      /\ a.xTasksWaitingTermination = s.xTasksWaitingTermination
      /\ a.xTickCount = s.xTickCount /\ a.xPendedTicks = s.xPendedTicks
      /\ a.uxSchedulerSuspended = s.uxSchedulerSuspended
      /\ a.pxCurrentTCB = s.pxCurrentTCB
  BY SetPriorityFacts
<1> HIDE DEF a
<1>3. /\ \A q \in Priorities : RdyAt(a, q) = RdyAt(s, q)
      /\ DItems(a) = DItems(s) /\ OItems(a) = OItems(s)
      /\ a.uxTopReadyPriority = s.uxTopReadyPriority
  BY <1>2 DEF SameReady, SameDelayed, RdyAt, DItems, OItems
<1>4. IsReady(s, t) <=> t \in RdyAt(s, old)
  BY <1>1 DEF TaskOK, IsReady, Linked
<1>5. n = IF t \in RdyAt(s, old) THEN prvAddTaskToReadyList(b, t) ELSE a
  BY <1>1, <1>3 DEF Relist, RdyAt
<1>6. CASE t \notin RdyAt(s, old)
  <2>1. n = a
    BY <1>5, <1>6
  <2>2. s.uxTopReadyPriority <= a.uxTopReadyPriority
    BY <1>3, ItemsTyped
  <2>3. Retained(a, s, t, p)
    BY <1>2, <1>3, <2>2 DEF Retained, SameDelayed
  <2>4. ~ IsReady(a, t) /\ ~ IsReady(s, t)
    BY <1>3, <1>4, <1>6 DEF IsReady, Linked
  <2>5. \A q \in Priorities : t \notin RdyAt(a, q)
    BY <2>4 DEF IsReady
  <2>6. /\ ListsOK(a)
        /\ \A u \in Threads : u # t => /\ IsReady(a, u) <=> IsReady(s, u)
                                       /\ Linked(a, u) <=> Linked(s, u)
        /\ Asleep(a, t) <=> Asleep(s, t)
        /\ Pnd(a) = Pnd(s)
        /\ TimesOK(s) => TimesOK(a)
        /\ \A l, lag : LeftOK(s, l, lag) => LeftOK(a, l, lag)
    BY <2>3, <2>4, <2>5, RetainedFacts
  <2> HIDE DEF n
  <2> QED BY <2>1, <2>3, <2>4, <2>6 DEF Linked, n, a
<1>7. CASE t \in RdyAt(s, old)
  <2> DEFINE m == prvAddTaskToReadyList(b, t)
  <2>1. /\ b \in Kernel
        /\ \A q \in Priorities : RdyAt(b, q) = RdyAt(a, q) \ {t}
        /\ DItems(b) = {d \in DItems(a) : d.owner # t}
        /\ OItems(b) = {d \in OItems(a) : d.owner # t}
        /\ b.xSuspendedTaskList = a.xSuspendedTaskList \ {t}
        /\ b.uxTopReadyPriority = a.uxTopReadyPriority
        /\ b.xNextTaskUnblockTime = a.xNextTaskUnblockTime
        /\ b.xYieldPending = a.xYieldPending
        /\ SameEvents(b, a) /\ SameRest(b, a)
    BY <1>2, RemoveStateFacts
  <2> HIDE DEF b
  <2>2. b.uxPriority[t] = p /\ t \notin RdyAt(b, p)
    BY <1>1, <1>2, <2>1 DEF SameRest
  <2>3. /\ m \in Kernel
        /\ \A q \in Priorities : RdyAt(m, q) = IF q = p THEN RdyAt(b, q) \cup {t} ELSE RdyAt(b, q)
        /\ m.uxTopReadyPriority = IF p > b.uxTopReadyPriority THEN p ELSE b.uxTopReadyPriority
        /\ m.xSuspendedTaskList = b.xSuspendedTaskList
        /\ m.xYieldPending = b.xYieldPending
        /\ SameDelayed(m, b) /\ SameEvents(m, b) /\ SameRest(m, b)
    BY <1>1, <2>1, <2>2, AddReadyFacts
  <2> HIDE DEF m
  <2>4. IsReady(s, t) /\ ~ Asleep(s, t)
    BY <1>1, <1>7 DEF IsReady, TaskOK
  <2>5. /\ DItems(b) = DItems(s) /\ OItems(b) = OItems(s)
        /\ b.xSuspendedTaskList = s.xSuspendedTaskList
    BY <1>2, <1>3, <2>1, <2>4 DEF Asleep, DOwn, OOwn
  <2>6. s.uxTopReadyPriority <= m.uxTopReadyPriority /\ p <= m.uxTopReadyPriority
    <3>1. s.uxTopReadyPriority \in Nat /\ p \in Nat
      BY ItemsTyped, PriorityFacts
    <3> QED BY <1>3, <2>1, <2>3, <3>1
  <2>7. Retained(m, s, t, p)
    <3>1. /\ DItems(m) = DItems(s) /\ OItems(m) = OItems(s)
          /\ m.xNextTaskUnblockTime = s.xNextTaskUnblockTime /\ SameEvents(m, s)
          /\ m.xSuspendedTaskList = s.xSuspendedTaskList
          /\ m.xYieldPending = s.xYieldPending
      BY <1>2, <2>1, <2>3, <2>5 DEF SameDelayed, SameEvents, DItems, OItems
    <3>2. /\ \A u \in Threads : m.uxPriority[u] = IF u = t THEN p ELSE s.uxPriority[u]
          /\ m.xTasksWaitingTermination = s.xTasksWaitingTermination
          /\ m.xTickCount = s.xTickCount /\ m.xPendedTicks = s.xPendedTicks
          /\ m.uxSchedulerSuspended = s.uxSchedulerSuspended
          /\ m.pxCurrentTCB = s.pxCurrentTCB
      BY <1>2, <2>1, <2>3 DEF SameRest
    <3>3. \A q \in Priorities : RdyAt(m, q) \ {t} = RdyAt(s, q) \ {t}
      <4> TAKE q \in Priorities
      <4>1. RdyAt(b, q) = RdyAt(s, q) \ {t}
        BY <1>3, <2>1
      <4>2. RdyAt(m, q) = RdyAt(b, q) \cup {t} \/ RdyAt(m, q) = RdyAt(b, q)
        BY <2>3
      <4> QED BY <4>1, <4>2
    <3> QED BY <2>3, <2>6, <3>1, <3>2, <3>3 DEF Retained
  <2>8. \A q \in Priorities : t \in RdyAt(m, q) <=> q = p
    <3> TAKE q \in Priorities
    <3>1. t \notin RdyAt(b, q)
      BY <2>1
    <3> QED BY <2>3, <3>1
  <2>9. \A q \in Priorities : t \in RdyAt(m, q) => q <= m.uxTopReadyPriority
    BY <2>6, <2>8
  <2>10. /\ ListsOK(m)
         /\ \A u \in Threads : u # t => /\ IsReady(m, u) <=> IsReady(s, u)
                                        /\ Linked(m, u) <=> Linked(s, u)
         /\ Asleep(m, t) <=> Asleep(s, t)
         /\ Pnd(m) = Pnd(s)
         /\ TimesOK(s) => TimesOK(m)
         /\ \A l, lag : LeftOK(s, l, lag) => LeftOK(m, l, lag)
    BY <2>4, <2>7, <2>8, <2>9, RetainedFacts
  <2>11. IsReady(m, t)
    BY <2>8 DEF IsReady
  <2>12. n = m
    BY <1>5, <1>7 DEF m
  <2> HIDE DEF n
  <2> QED BY <2>4, <2>7, <2>10, <2>11, <2>12 DEF Linked, n, a
<1> QED BY <1>6, <1>7

\* vTaskPrioritySet asks for no switch: then the running task still has the
\* highest priority.
LEMMA RelistHighest ==
  ASSUME NEW s \in Kernel, ListsOK(s), NEW t \in Tasks, NEW p \in Priorities,
         IsReady(s, s.pxCurrentTCB), Highest(s),
         NEW n, Retained(n, s, t, p), \A u \in Threads : IsReady(n, u) <=> IsReady(s, u),
         IF t = s.pxCurrentTCB THEN ~ (p < s.uxPriority[t])
         ELSE ~ (p > s.uxPriority[t] /\ p >= s.uxPriority[s.pxCurrentTCB])
  PROVE  Highest(n)
<1> DEFINE c == s.pxCurrentTCB
<1>1. c \in Threads /\ \A u \in Threads : s.uxPriority[u] \in Nat
  BY ItemsTyped DEF Kernel
<1>2. /\ n.pxCurrentTCB = c /\ p \in Nat
      /\ \A u \in Threads : n.uxPriority[u] = IF u = t THEN p ELSE s.uxPriority[u]
  BY PriorityFacts DEF Retained
<1>3. \A u \in Threads : IsReady(n, u) => s.uxPriority[u] <= s.uxPriority[c]
  BY DEF Highest
<1>4. t \in Threads
  BY DEF Threads
<1> SUFFICES ASSUME NEW u \in Threads, IsReady(n, u)
             PROVE  n.uxPriority[u] <= n.uxPriority[c]
  BY <1>2 DEF Highest
<1> HIDE DEF c
<1>5. s.uxPriority[u] <= s.uxPriority[c] /\ s.uxPriority[u] \in Nat /\ s.uxPriority[c] \in Nat
  BY <1>1, <1>3
<1>6. CASE t = c
  <2>1. ~ (p < s.uxPriority[c]) /\ n.uxPriority[c] = p
    BY <1>1, <1>2, <1>6 DEF c
  <2>2. n.uxPriority[u] = p \/ n.uxPriority[u] = s.uxPriority[u]
    BY <1>2
  <2> QED BY <1>2, <1>5, <2>1, <2>2
<1>7. CASE t # c
  <2>1. ~ (p > s.uxPriority[t] /\ p >= s.uxPriority[c]) /\ n.uxPriority[c] = s.uxPriority[c]
    BY <1>1, <1>2, <1>7 DEF c
  <2>2. (u = t /\ n.uxPriority[u] = p) \/ n.uxPriority[u] = s.uxPriority[u]
    BY <1>2
  <2> QED BY <1>2, <1>5, <2>1, <2>2
<1> QED BY <1>6, <1>7

\* xTaskCreate: the new task is ready, the others are where they were.
LEMMA CreateOutcome ==
  ASSUME NEW s \in Kernel, ListsOK(s), NEW t \in Tasks, NEW p \in Priorities, ~ Linked(s, t)
  PROVE  LET n == prvAddTaskToReadyList(SetPriority(s, t, p), t)
         IN  /\ Retained(n, s, t, p) /\ ListsOK(n)
             /\ \A u \in Threads : /\ IsReady(n, u) <=> IsReady(s, u) \/ u = t
                                   /\ Linked(n, u) <=> Linked(s, u) \/ u = t
             /\ Pnd(n) = Pnd(s)
             /\ TimesOK(s) => TimesOK(n)
             /\ \A l, lag : LeftOK(s, l, lag) => LeftOK(n, l, lag)
<1> DEFINE a == SetPriority(s, t, p)
           m == prvAddTaskToReadyList(a, t)
<1>1. t \in Threads /\ ~ IsReady(s, t) /\ ~ Asleep(s, t)
  BY DEF Threads, Linked
<1>2. /\ a \in Kernel
      /\ \A u \in Threads : a.uxPriority[u] = IF u = t THEN p ELSE s.uxPriority[u]
      /\ SameReady(a, s) /\ SameDelayed(a, s) /\ SameEvents(a, s)
      /\ a.xSuspendedTaskList = s.xSuspendedTaskList
      /\ a.xYieldPending = s.xYieldPending
      /\ a.xTasksWaitingTermination = s.xTasksWaitingTermination
      /\ a.xTickCount = s.xTickCount /\ a.xPendedTicks = s.xPendedTicks
      /\ a.uxSchedulerSuspended = s.uxSchedulerSuspended
      /\ a.pxCurrentTCB = s.pxCurrentTCB
  BY SetPriorityFacts
<1> HIDE DEF a
<1>3. /\ \A q \in Priorities : RdyAt(a, q) = RdyAt(s, q)
      /\ DItems(a) = DItems(s) /\ OItems(a) = OItems(s)
      /\ a.uxTopReadyPriority = s.uxTopReadyPriority
  BY <1>2 DEF SameReady, SameDelayed, RdyAt, DItems, OItems
<1>4. a.uxPriority[t] = p /\ t \notin RdyAt(a, p)
  BY <1>1, <1>2, <1>3 DEF IsReady
<1>5. /\ m \in Kernel
      /\ \A q \in Priorities : RdyAt(m, q) = IF q = p THEN RdyAt(a, q) \cup {t} ELSE RdyAt(a, q)
      /\ m.uxTopReadyPriority = IF p > a.uxTopReadyPriority THEN p ELSE a.uxTopReadyPriority
      /\ m.xSuspendedTaskList = a.xSuspendedTaskList
      /\ m.xYieldPending = a.xYieldPending
      /\ SameDelayed(m, a) /\ SameEvents(m, a) /\ SameRest(m, a)
  BY <1>1, <1>2, <1>4, AddReadyFacts
<1> HIDE DEF m
<1>6. s.uxTopReadyPriority <= m.uxTopReadyPriority /\ p <= m.uxTopReadyPriority
  <2>1. s.uxTopReadyPriority \in Nat /\ p \in Nat
    BY ItemsTyped, PriorityFacts
  <2> QED BY <1>3, <1>5, <2>1
<1>7. Retained(m, s, t, p)
  <2>1. /\ DItems(m) = DItems(s) /\ OItems(m) = OItems(s)
        /\ m.xNextTaskUnblockTime = s.xNextTaskUnblockTime /\ SameEvents(m, s)
        /\ m.xSuspendedTaskList = s.xSuspendedTaskList
        /\ m.xYieldPending = s.xYieldPending
    BY <1>2, <1>5 DEF SameDelayed, SameEvents, DItems, OItems
  <2>2. /\ \A u \in Threads : m.uxPriority[u] = IF u = t THEN p ELSE s.uxPriority[u]
        /\ m.xTasksWaitingTermination = s.xTasksWaitingTermination
        /\ m.xTickCount = s.xTickCount /\ m.xPendedTicks = s.xPendedTicks
        /\ m.uxSchedulerSuspended = s.uxSchedulerSuspended
        /\ m.pxCurrentTCB = s.pxCurrentTCB
    BY <1>2, <1>5 DEF SameRest
  <2>3. \A q \in Priorities : RdyAt(m, q) \ {t} = RdyAt(s, q) \ {t}
    <3> TAKE q \in Priorities
    <3>1. RdyAt(m, q) = RdyAt(s, q) \cup {t} \/ RdyAt(m, q) = RdyAt(s, q)
      BY <1>3, <1>5
    <3> QED BY <3>1
  <2> QED BY <1>5, <1>6, <2>1, <2>2, <2>3 DEF Retained
<1>8. \A q \in Priorities : t \in RdyAt(m, q) <=> q = p
  <2> TAKE q \in Priorities
  <2>1. t \notin RdyAt(a, q)
    BY <1>1, <1>3 DEF IsReady
  <2> QED BY <1>5, <2>1
<1>9. \A q \in Priorities : t \in RdyAt(m, q) => q <= m.uxTopReadyPriority
  BY <1>6, <1>8
<1>10. /\ ListsOK(m)
       /\ \A u \in Threads : u # t => /\ IsReady(m, u) <=> IsReady(s, u)
                                      /\ Linked(m, u) <=> Linked(s, u)
       /\ Asleep(m, t) <=> Asleep(s, t)
       /\ Pnd(m) = Pnd(s)
       /\ TimesOK(s) => TimesOK(m)
       /\ \A l, lag : LeftOK(s, l, lag) => LeftOK(m, l, lag)
  BY <1>7, <1>8, <1>9, RetainedFacts
<1>11. IsReady(m, t)
  BY <1>8 DEF IsReady
<1> QED BY <1>7, <1>10, <1>11 DEF Linked, m, a

-----------------------------------------------------------------------------
(***************************************************************************)
(* The tick.                                                               *)
(***************************************************************************)
\* Nothing above the running task has become ready.
LEMMA StillHighest ==
  ASSUME NEW s, NEW n, NoneAbove(n, s), Highest(s),
         n.uxPriority = s.uxPriority, n.pxCurrentTCB = s.pxCurrentTCB
  PROVE  Highest(n)
BY DEF NoneAbove, Highest

\* one timer interrupt less to wait for
OneLess(l) == [t \in Threads |-> IF l[t] > 0 THEN l[t] - 1 ELSE 0]

\* A timer interrupt passes for every delay; the kernel is one tick further
\* behind.
LEMMA OneLessFacts ==
  ASSUME NEW s \in Kernel, NEW l \in [Threads -> Nat], NEW lag \in Nat, LeftOK(s, l, lag)
  PROVE  OneLess(l) \in [Threads -> Nat] /\ LeftOK(s, OneLess(l), lag + 1)
<1> DEFINE h == OneLess(l)
<1>1. \A t \in Threads : l[t] \in Nat /\ h[t] = IF l[t] > 0 THEN l[t] - 1 ELSE 0
  BY DEF OneLess
<1>2. h \in [Threads -> Nat]
  BY DEF OneLess
<1> HIDE DEF h
<1>3. \A x \in Int : LeftOf(x, lag + 1) = IF LeftOf(x, lag) > 0 THEN LeftOf(x, lag) - 1 ELSE 0
  BY DEF LeftOf
<1>4. \A d \in DItems(s) \cup OItems(s) : d.owner \in Threads /\ d.value \in Nat
  BY ItemsTyped
<1>5. s.xTickCount \in Nat /\ Wrap \in Nat
  BY ItemsTyped, BoundsAssumption
<1>6. \A t \in Threads : h[t] > 0 => (t \in DOwn(s) \/ t \in OOwn(s)) /\ t \notin Pnd(s)
  <2> SUFFICES ASSUME NEW t \in Threads, h[t] > 0
               PROVE  (t \in DOwn(s) \/ t \in OOwn(s)) /\ t \notin Pnd(s)
    OBVIOUS
  <2>1. l[t] > 0
    BY <1>1
  <2> QED BY <2>1 DEF LeftOK
<1>7. ASSUME NEW d \in DItems(s), d.owner \notin Pnd(s)
      PROVE  h[d.owner] = LeftOf(d.value - s.xTickCount, lag + 1)
  <2>1. l[d.owner] = LeftOf(d.value - s.xTickCount, lag)
    BY <1>7 DEF LeftOK
  <2>2. d.value - s.xTickCount \in Int
    BY <1>4, <1>5
  <2> QED BY <1>1, <1>3, <1>4, <2>1, <2>2
<1>8. ASSUME NEW d \in OItems(s), d.owner \notin Pnd(s)
      PROVE  h[d.owner] = LeftOf(d.value + Wrap - s.xTickCount, lag + 1)
  <2>1. l[d.owner] = LeftOf(d.value + Wrap - s.xTickCount, lag)
    BY <1>8 DEF LeftOK
  <2>2. d.value + Wrap - s.xTickCount \in Int
    BY <1>4, <1>5
  <2> QED BY <1>1, <1>3, <1>4, <2>1, <2>2
<1> QED BY <1>2, <1>6, <1>7, <1>8 DEF LeftOK, h

\* what the tick leaves alone
Ticked(n, s) ==
    /\ n \in Kernel
    /\ \A u \in Threads : /\ Linked(n, u) <=> Linked(s, u)
                          /\ IsReady(s, u) => IsReady(n, u)
    /\ n.uxPriority = s.uxPriority /\ n.pxCurrentTCB = s.pxCurrentTCB
    /\ n.xTasksWaitingTermination = s.xTasksWaitingTermination
    /\ n.xYieldPending = s.xYieldPending
    /\ n.uxSchedulerSuspended = s.uxSchedulerSuspended
    /\ n.xPendedTicks = IF s.uxSchedulerSuspended = 0 THEN 0 ELSE s.xPendedTicks + 1
    /\ s.uxSchedulerSuspended = 0 => Pnd(n) = {}

\* xTaskIncrementTick, suspended scheduler or not: the delays agree with
\* the lists after it, and unless it asks for a switch nothing above the
\* running task has become ready.
LEMMA TickOutcome ==
  ASSUME NEW s \in Kernel, ListsOK(s), TimesOK(s), NEW l \in [Threads -> Nat],
         LeftOK(s, l, s.xPendedTicks),
         s.uxSchedulerSuspended = 0 => s.xPendedTicks = 0 /\ Pnd(s) = {}
  PROVE  LET r == xTaskIncrementTick(s)
             n == r.s
         IN  /\ Ticked(n, s) /\ ListsOK(n) /\ TimesOK(n)
             /\ LeftOK(n, OneLess(l), n.xPendedTicks)
             /\ r.switch \in BOOLEAN
             /\ r.switch => s.uxSchedulerSuspended = 0
             /\ ~ r.switch => NoneAbove(n, s)
<1> DEFINE r == xTaskIncrementTick(s)
           n == r.s
           h == OneLess(l)
<1>1. s.xPendedTicks \in Nat /\ s.uxSchedulerSuspended \in Nat /\ s.pxCurrentTCB \in Threads
  BY DEF Kernel
<1>2. h \in [Threads -> Nat] /\ LeftOK(s, h, s.xPendedTicks + 1)
  BY <1>1, OneLessFacts
<1> HIDE DEF h
<1>3. CASE s.uxSchedulerSuspended > 0
  <2> DEFINE c == s.uxSchedulerSuspended
             b == s.xPendedTicks + 1
             m == SetCounts(s, c, b)
  <2>0. c \in Nat /\ b \in Nat
    BY <1>1
  <2> HIDE DEF r, n, c, b
  <2>1. /\ m \in Kernel /\ m.uxSchedulerSuspended = c /\ m.xPendedTicks = b
        /\ SamePlaces(m, s) /\ m.uxTopReadyPriority = s.uxTopReadyPriority
        /\ m.xYieldPending = s.xYieldPending /\ m.pxCurrentTCB = s.pxCurrentTCB
        /\ m.xTasksWaitingTermination = s.xTasksWaitingTermination
    BY <2>0, SetCountsFacts
  <2>2. r = [s |-> m, switch |-> FALSE]
    <3>1. [s EXCEPT !.xPendedTicks = @ + 1] = m
      BY DEF SetCounts, Kernel, c, b
    <3> HIDE DEF m
    <3> QED BY <1>3, <3>1 DEF xTaskIncrementTick, r
  <2> HIDE DEF m, r
  <2>3. ListsOK(m) /\ TimesOK(m) /\ LeftOK(m, h, m.xPendedTicks)
    <3>1. LeftOK(s, h, b)
      BY <1>2 DEF b
    <3> QED BY <3>1, <2>1, SameListsOK, SamePlacesFacts
  <2>4. NoneAbove(m, s)
    BY <2>1, SamePlacesFacts DEF NoneAbove
  <2>5. Ticked(m, s)
    <3>1. m.uxPriority = s.uxPriority
      BY <2>1 DEF SamePlaces
    <3>2. \A u \in Threads : /\ Linked(m, u) <=> Linked(s, u)
                             /\ IsReady(s, u) => IsReady(m, u)
      BY <2>1, SamePlacesFacts
    <3> QED BY <1>3, <2>1, <3>1, <3>2 DEF Ticked, c, b
  <2>6. r.s = m /\ r.switch = FALSE
    BY <2>2
  <2>7. ~ (s.uxSchedulerSuspended = 0)
    BY <1>1, <1>3
  <2> QED BY <2>7, <2>3, <2>4, <2>5, <2>6 DEF r, h
<1>4. CASE s.uxSchedulerSuspended = 0
  <2>1. s.xPendedTicks = 0 /\ Pnd(s) = {} /\ LeftOK(s, h, 1)
    BY <1>2, <1>4
  <2> HIDE DEF r
  <2>2. PICK X \in SUBSET Threads :
                /\ Readied(n, s, X) /\ TimesOK(n) /\ LeftOK(n, h, 1 - 1)
                /\ Pnd(n) = {} /\ n.xYieldPending = s.xYieldPending
                /\ \A t \in X : Asleep(s, t)
                /\ n.xTasksWaitingTermination = s.xTasksWaitingTermination
                /\ n.xPendedTicks = s.xPendedTicks /\ n.uxSchedulerSuspended = 0
                /\ r.switch \in BOOLEAN
                /\ \A t \in X : s.uxPriority[t] > s.uxPriority[s.pxCurrentTCB] => r.switch
                /\ s.xYieldPending => r.switch
    <3>1. 1 \in Nat /\ 1 > 0 /\ \A t \in Threads : TaskOK(s, t)
      BY DEF ListsOK
    <3> QED BY <1>2, <1>4, <2>1, <3>1, TickStep DEF r
  <2> HIDE DEF n
  <2>3. /\ ListsOK(n)
        /\ \A t \in Threads : /\ IsReady(n, t) <=> IsReady(s, t) \/ t \in X
                              /\ Linked(n, t) <=> Linked(s, t) \/ t \in X
    BY <2>2, ReadiedLists
  <2>4. \A t \in Threads : /\ Linked(n, t) <=> Linked(s, t)
                           /\ IsReady(s, t) => IsReady(n, t)
    BY <2>2, <2>3 DEF Linked
  <2>5. Ticked(n, s)
    BY <1>4, <2>1, <2>2, <2>4 DEF Ticked, Readied
  <2>6. ~ r.switch => NoneAbove(n, s)
    <3>1. \A t \in Threads : s.uxPriority[t] \in Nat
      BY ItemsTyped
    <3> QED BY <1>1, <2>2, <2>3, <3>1 DEF NoneAbove
  <2>7. LeftOK(n, h, n.xPendedTicks)
    <3>1. n.xPendedTicks = 1 - 1
      BY <2>1, <2>2
    <3> QED BY <2>2, <3>1
  <2> QED BY <1>4, <2>2, <2>3, <2>5, <2>6, <2>7 DEF n, r, h
<1> QED BY <1>1, <1>3, <1>4

(***************************************************************************)
(* The inductive invariant, of a kernel state s, the calls pc and a that   *)
(* the tasks are in, the pending yield y, the memory m of the TCBs and the *)
(* delays l.                                                               *)
(***************************************************************************)
Args == [task : Threads \cup {NoTask}, event : Events \cup {NoEvent}, ticks : 0..portMAX_DELAY]

Typed(s, pc, a, y, m, l) ==
    /\ s \in Kernel /\ y \in BOOLEAN
    /\ pc \in [Threads -> Kpcs] /\ a \in [Threads -> Args]
    /\ m \in [Threads -> {"live", "dead", "free"}]
    /\ l \in [Threads -> 0..portMAX_DELAY]

\* the tasks that exist are in the lists, and no others
Placed(s, m) == ListsOK(s) /\ \A t \in Threads : Linked(s, t) <=> m[t] = "live"

Timed(s, l) ==
    /\ TimesOK(s) /\ LeftOK(s, l, s.xPendedTicks)
    /\ s.uxSchedulerSuspended = 0 => s.xPendedTicks = 0 /\ Pnd(s) = {}

\* where the tasks are inside their kernel calls
Called(s, pc, a, y) ==
    /\ pc[Idle] \in {"run", "free"}
    /\ \A t \in Threads :
          /\ pc[t] \in {"add", "unlock", "resume"} =>
                t = s.pxCurrentTCB /\ s.uxSchedulerSuspended = 1
          /\ pc[t] \in {"reset", "free", "created"} => a[t].task \in Tasks
          /\ pc[t] = "add" => a[t].ticks > 0
    /\ LET c == s.pxCurrentTCB IN
          /\ pc[c] \in {"yield", "created"} => s.uxSchedulerSuspended = 0
          /\ pc[c] \in {"reset", "free"} /\ a[c].task = c => s.uxSchedulerSuspended = 0
          /\ y => pc[c] = "run"

\* the running task is at p in a call with the argument t, and a switch is
\* asked for whenever another task should run
Runs(s, p, t, y) ==
    LET c == s.pxCurrentTCB
        self == p \in {"reset", "free"} /\ t = c
    IN  /\ \/ IsReady(s, c)
           \/ y /\ s.uxSchedulerSuspended = 0
           \/ p \in {"unlock", "resume", "yield"}
           \/ self
        /\ s.uxSchedulerSuspended = 0 /\ ~ y /\ p \in {"run", "reset", "free"} =>
              self \/ Highest(s)
        /\ s.uxSchedulerSuspended > 0 => y \/ s.xYieldPending \/ Highest(s)
        /\ p = "created" => \A u \in Threads : IsReady(s, u) =>
                                s.uxPriority[u] <= s.uxPriority[c] \/ u = t
Running(s, pc, a, y) == Runs(s, pc[s.pxCurrentTCB], a[s.pxCurrentTCB].task, y)

\* u is about to free the memory of t
Frees(pc, a, u, t) == pc[u] = "free" /\ a[u].task = t /\ u # t

\* the memory of a deleted task is freed once, by one task
Owned(s, pc, a, m) ==
    /\ m[s.pxCurrentTCB] # "free"
    /\ \A t \in ToSet(s.xTasksWaitingTermination) : m[t] = "dead"
    /\ \A u, t \in Threads : Frees(pc, a, u, t) =>
          /\ m[t] = "dead" /\ t \notin ToSet(s.xTasksWaitingTermination)
          /\ \A v \in Threads : Frees(pc, a, v, t) => v = u

Good(s, pc, a, y, m, l) ==
    /\ Typed(s, pc, a, y, m, l) /\ Placed(s, m) /\ Timed(s, l)
    /\ Called(s, pc, a, y) /\ Running(s, pc, a, y) /\ Owned(s, pc, a, m)

(***************************************************************************)
(* A step of the running task.                                             *)
(***************************************************************************)
Put(f, c, v) == [f EXCEPT ![c] = v]

(***************************************************************************)
(* The invariant of the model.                                             *)
(***************************************************************************)
IInv ==
    /\ Good(k, kpc, arg, yieldReq, tcb, left)
    /\ load \in DOMAIN Workloads
    /\ k.xPendedTicks <= MaxPended /\ k.uxSchedulerSuspended <= MaxSuspended

(***************************************************************************)
(* The initial state.                                                      *)
(***************************************************************************)
\* states whose ready lists have not been walked yet
Loose ==
    [pxReadyTasksLists : [Priorities -> [items : Seq(Threads), index : {0}]],
     uxTopReadyPriority : Priorities,
     pxDelayedTaskList : DList, pxOverflowDelayedTaskList : DList,
     xSuspendedTaskList : SUBSET Tasks, xPendingReadyList : Distinct(Tasks),
     xTasksWaitingTermination : Distinct(Tasks), xTasksWaiting : [Events -> Distinct(Tasks)],
     uxPriority : [Threads -> Priorities], xTickCount : 0..portMAX_DELAY,
     xPendedTicks : Nat, xNextTaskUnblockTime : 0..portMAX_DELAY, xYieldPending : BOOLEAN,
     uxSchedulerSuspended : Nat, pxCurrentTCB : Threads]
AddFold == INSTANCE Folding WITH Op <- prvAddTaskToReadyList, K <- Loose, D <- Threads

\* prvAddTaskToReadyList before a list has been walked (pxIndex at
\* xListEnd).
LEMMA AddLoose == \A u \in Loose, t \in Threads : prvAddTaskToReadyList(u, t) \in Loose
<1> TAKE u \in Loose, t \in Threads
<1> DEFINE p == u.uxPriority[t]
           old == u.pxReadyTasksLists[p]
           l == listINSERT_END(old, t)
           top == IF p > u.uxTopReadyPriority THEN p ELSE u.uxTopReadyPriority
           f == [u.pxReadyTasksLists EXCEPT ![p] = l]
<1>1. p \in Priorities /\ top \in Priorities /\ old \in [items : Seq(Threads), index : {0}]
  BY DEF Loose
<1>2. l \in [items : Seq(Threads), index : {0}]
  <2> HIDE DEF old
  <2> DEFINE q == Append(old.items, t)
  <2>1. q \in Seq(Threads) /\ old.index = 0
    BY <1>1
  <2>2. l = [old EXCEPT !.items = q]
    BY <2>1 DEF listINSERT_END
  <2> HIDE DEF q, l
  <2>3. l = [items |-> q, index |-> 0]
    BY <1>1, <2>1, <2>2
  <2> QED BY <2>1, <2>3
<1>3. f \in [Priorities -> [items : Seq(Threads), index : {0}]]
  <2> HIDE DEF l, p
  <2> QED BY <1>1, <1>2 DEF Loose
<1>4. prvAddTaskToReadyList(u, t) = [u EXCEPT !.uxTopReadyPriority = top,
                                              !.pxReadyTasksLists = f]
  BY <1>1 DEF prvAddTaskToReadyList, Loose
<1> HIDE DEF f, top
<1> QED BY <1>1, <1>3, <1>4 DEF Loose

\* the tasks in X have been made ready
Added(n, s, X) ==
    /\ n \in Kernel
    /\ \A q \in Priorities : RdyAt(n, q) = {t \in X : s.uxPriority[t] = q}
    /\ \A t \in X : s.uxPriority[t] <= n.uxTopReadyPriority
    /\ n.xSuspendedTaskList = s.xSuspendedTaskList
    /\ n.xYieldPending = s.xYieldPending
    /\ SameDelayed(n, s) /\ SameEvents(n, s) /\ SameRest(n, s)

\* One more task is created.
LEMMA AddedOneMore ==
  ASSUME NEW s \in Kernel, NEW m, NEW X \in SUBSET Threads, Added(m, s, X), NEW t \in Threads \ X
  PROVE  Added(prvAddTaskToReadyList(m, t), s, X \cup {t})
<1> DEFINE n == prvAddTaskToReadyList(m, t)
           p == m.uxPriority[t]
<1>1. m \in Kernel /\ p = s.uxPriority[t] /\ p \in Priorities
  BY DEF Added, SameRest, Kernel
<1>2. t \notin RdyAt(m, p)
  BY <1>1 DEF Added
<1>3. /\ n \in Kernel
      /\ \A q \in Priorities : RdyAt(n, q) = IF q = p THEN RdyAt(m, q) \cup {t} ELSE RdyAt(m, q)
      /\ n.uxTopReadyPriority = IF p > m.uxTopReadyPriority THEN p ELSE m.uxTopReadyPriority
      /\ n.xSuspendedTaskList = m.xSuspendedTaskList
      /\ n.xYieldPending = m.xYieldPending
      /\ SameDelayed(n, m) /\ SameEvents(n, m) /\ SameRest(n, m)
  BY <1>1, <1>2, AddReadyFacts
<1> HIDE DEF n, p
<1>4. ASSUME NEW q \in Priorities
      PROVE  RdyAt(n, q) = {u \in X \cup {t} : s.uxPriority[u] = q}
  <2>1. RdyAt(m, q) = {u \in X : s.uxPriority[u] = q}
    BY DEF Added
  <2>2. CASE q = p
    BY <1>1, <1>3, <2>1, <2>2
  <2>3. CASE q # p
    BY <1>1, <1>3, <2>1, <2>3
  <2> QED BY <2>2, <2>3
<1>5. \A u \in X \cup {t} : s.uxPriority[u] <= n.uxTopReadyPriority
  <2> TAKE u \in X \cup {t}
  <2>1. u \in Threads /\ p \in Nat /\ m.uxTopReadyPriority \in Nat /\ s.uxPriority[u] \in Nat
    BY <1>1, ItemsTyped, PriorityFacts
  <2>2. CASE u = t
    BY <1>1, <1>3, <2>1, <2>2
  <2>3. CASE u \in X
    <3>1. s.uxPriority[u] <= m.uxTopReadyPriority
      BY <2>3 DEF Added
    <3> QED BY <1>3, <2>1, <3>1
  <2> QED BY <2>2, <2>3
<1>6. /\ n.xSuspendedTaskList = s.xSuspendedTaskList
      /\ n.xYieldPending = s.xYieldPending
      /\ SameDelayed(n, s) /\ SameEvents(n, s) /\ SameRest(n, s)
  BY <1>3 DEF Added, SameDelayed, SameEvents, SameRest
<1>7. Added(n, s, X \cup {t})
  BY <1>3, <1>4, <1>5, <1>6 DEF Added
<1> QED BY <1>7 DEF n

\* The tasks that main() and vTaskStartScheduler create are ready, each in
\* the list of its priority.
LEMMA AddAll ==
  ASSUME NEW s \in Kernel, s \in Loose, \A q \in Priorities : RdyAt(s, q) = {},
         NEW seq \in Distinct(Threads)
  PROVE  Added(FoldLeft(prvAddTaskToReadyList, s, seq), s, ToSet(seq))
<1> DEFINE n == FoldLeft(prvAddTaskToReadyList, s, seq)
<1>0. seq \in Seq(Threads) /\ \A i, j \in 1..Len(seq) : seq[i] = seq[j] => i = j
  BY DEF Distinct
<1>1. \E g \in [0..Len(seq) -> Loose] :
            /\ g[0] = s
            /\ \A i \in 1..Len(seq) : g[i] = prvAddTaskToReadyList(g[i - 1], seq[i])
            /\ AddFold!FoldLeft(prvAddTaskToReadyList, s, seq) = g[Len(seq)]
  BY <1>0, AddLoose, Induct, AddFold!FoldSteps
<1>2. n = AddFold!FoldLeft(prvAddTaskToReadyList, s, seq)
  BY DEF FoldLeft, MapThenFoldSet, AddFold!FoldLeft, AddFold!MapThenFoldSet, Max, AddFold!Max
<1> HIDE DEF n
<1>3. PICK g \in [0..Len(seq) -> Loose] :
            /\ g[0] = s
            /\ \A i \in 1..Len(seq) : g[i] = prvAddTaskToReadyList(g[i - 1], seq[i])
            /\ n = g[Len(seq)]
  BY <1>1, <1>2
<1> DEFINE X(i) == {seq[j] : j \in 1..i}
           P(i) == i <= Len(seq) => Added(g[i], s, X(i))
           Q == {i \in Nat : P(i)}
<1>4. 0 \in Q
  <2>1. X(0) = {}
    OBVIOUS
  <2> HIDE DEF X
  <2>2. Added(s, s, {})
    BY DEF Added, SameDelayed, SameEvents, SameRest
  <2>3. P(0)
    BY <1>3, <2>1, <2>2
  <2> HIDE DEF P
  <2> QED BY <2>3
<1>5. ASSUME NEW i \in Nat, i \in Q PROVE i + 1 \in Q
  <2>1. P(i)
    BY <1>5
  <2> SUFFICES ASSUME i + 1 <= Len(seq) PROVE Added(g[i + 1], s, X(i + 1))
    OBVIOUS
  <2>2. Len(seq) \in Nat /\ i <= Len(seq) /\ i + 1 \in 1..Len(seq)
    BY <1>0
  <2>3. X(i) \in SUBSET Threads
    <3>1. \A j \in 1..i : seq[j] \in Threads
      BY <1>0, <2>2
    <3> QED BY <3>1
  <2>4. seq[i + 1] \in Threads \ X(i)
    <3>1. seq[i + 1] \in Threads
      BY <1>0, <2>2
    <3>2. \A j \in 1..i : seq[j] # seq[i + 1]
      BY <1>0, <2>2
    <3> QED BY <3>1, <3>2
  <2>5. X(i + 1) = X(i) \cup {seq[i + 1]}
    <3>1. 1..(i + 1) = (1..i) \cup {i + 1}
      OBVIOUS
    <3> QED BY <3>1
  <2>6. g[i + 1] = prvAddTaskToReadyList(g[i], seq[i + 1])
    <3>1. g[i + 1] = prvAddTaskToReadyList(g[i + 1 - 1], seq[i + 1])
      BY <1>3, <2>2
    <3>2. i + 1 - 1 = i
      OBVIOUS
    <3> QED BY <3>1, <3>2
  <2> HIDE DEF X
  <2>7. Added(g[i], s, X(i))
    BY <2>1, <2>2
  <2>8. Added(prvAddTaskToReadyList(g[i], seq[i + 1]), s, X(i) \cup {seq[i + 1]})
    BY <2>3, <2>4, <2>7, AddedOneMore
  <2> QED BY <2>5, <2>6, <2>8
<1>6. Nat \subseteq Q
  <2> HIDE DEF Q
  <2> QED BY <1>4, <1>5, Induct
<1>7. Len(seq) \in Nat /\ P(Len(seq))
  <2> HIDE DEF P
  <2> QED BY <1>0, <1>6
<1>8. Added(n, s, X(Len(seq)))
  <2> HIDE DEF X
  <2>1. Len(seq) <= Len(seq)
    BY <1>7
  <2> QED BY <1>3, <1>7, <2>1
<1>9. X(Len(seq)) = ToSet(seq)
  BY <1>0, ElementsOf
<1> QED BY <1>8, <1>9 DEF n

\* the task that runs first is the last created of the highest priority
Later(t, u) == IF InitialPriority[t] <= InitialPriority[u] THEN u ELSE t
LaterFold == INSTANCE Folding WITH Op <- Later, K <- Threads, D <- Threads

\* The task that runs first has the highest priority.
LEMMA FirstTask ==
  ASSUME NEW b \in Threads, NEW seq \in Seq(Threads), InitialPriority \in [Threads -> Priorities]
  PROVE  LET n == FoldLeft(LAMBDA t, u : IF InitialPriority[t] <= InitialPriority[u]
                                         THEN u ELSE t, b, seq)
             X == {b} \cup ToSet(seq)
         IN  n \in X /\ \A t \in X : InitialPriority[t] <= InitialPriority[n]
<1> DEFINE n == FoldLeft(LAMBDA t, u : IF InitialPriority[t] <= InitialPriority[u]
                                       THEN u ELSE t, b, seq)
<1>0. \A t, u \in Threads : Later(t, u) \in Threads
  BY DEF Later
<1>1. \E g \in [0..Len(seq) -> Threads] :
            /\ g[0] = b
            /\ \A i \in 1..Len(seq) : g[i] = Later(g[i - 1], seq[i])
            /\ LaterFold!FoldLeft(Later, b, seq) = g[Len(seq)]
  BY <1>0, Induct, LaterFold!FoldSteps
<1>2. n = LaterFold!FoldLeft(Later, b, seq)
  BY DEF Later, FoldLeft, MapThenFoldSet, LaterFold!FoldLeft, LaterFold!MapThenFoldSet,
         Max, LaterFold!Max
<1> HIDE DEF n
<1>3. PICK g \in [0..Len(seq) -> Threads] :
            /\ g[0] = b
            /\ \A i \in 1..Len(seq) : g[i] = Later(g[i - 1], seq[i])
            /\ n = g[Len(seq)]
  BY <1>1, <1>2
<1> DEFINE X(i) == {b} \cup {seq[j] : j \in 1..i}
           F(i) == g[i] \in X(i) /\ \A t \in X(i) : InitialPriority[t] <= InitialPriority[g[i]]
           P(i) == i <= Len(seq) => F(i)
           Q == {i \in Nat : P(i)}
<1>a. \A t \in Threads : InitialPriority[t] \in Nat
  BY PriorityFacts
<1>4. 0 \in Q
  <2>1. X(0) = {b}
    OBVIOUS
  <2> HIDE DEF X
  <2>2. InitialPriority[b] \in Nat
    BY <1>a
  <2>3. F(0)
    BY <1>3, <2>1, <2>2
  <2> HIDE DEF F
  <2> QED BY <2>3
<1>5. ASSUME NEW i \in Nat, i \in Q PROVE i + 1 \in Q
  <2>1. P(i)
    <3> HIDE DEF P
    <3> QED BY <1>5
  <2> SUFFICES ASSUME i + 1 <= Len(seq) PROVE F(i + 1)
    <3> HIDE DEF F
    <3> QED OBVIOUS
  <2>2. Len(seq) \in Nat /\ i <= Len(seq) /\ i + 1 \in 1..Len(seq) /\ i \in 0..Len(seq)
    OBVIOUS
  <2>3. seq[i + 1] \in Threads /\ g[i] \in Threads
    BY <2>2
  <2>4. X(i) \subseteq Threads
    <3>1. \A j \in 1..i : seq[j] \in Threads
      BY <2>2
    <3> QED BY <3>1
  <2>5. X(i + 1) = X(i) \cup {seq[i + 1]}
    <3>1. 1..(i + 1) = (1..i) \cup {i + 1}
      OBVIOUS
    <3> QED BY <3>1
  <2>6. g[i + 1] = Later(g[i], seq[i + 1])
    <3>1. g[i + 1] = Later(g[i + 1 - 1], seq[i + 1])
      BY <1>3, <2>2
    <3>2. i + 1 - 1 = i
      OBVIOUS
    <3> QED BY <3>1, <3>2
  <2>7. F(i)
    <3> HIDE DEF F
    <3> QED BY <2>1, <2>2
  <2> HIDE DEF X
  <2> DEFINE x == g[i]
             z == seq[i + 1]
             v == g[i + 1]
  <2>8. /\ x \in X(i) /\ \A t \in X(i) : InitialPriority[t] <= InitialPriority[x]
        /\ v = (IF InitialPriority[x] <= InitialPriority[z] THEN z ELSE x)
        /\ x \in Threads /\ z \in Threads /\ X(i + 1) = X(i) \cup {z}
    BY <2>3, <2>5, <2>6, <2>7 DEF Later
  <2> HIDE DEF x, z, v
  <2>9. v \in X(i + 1)
    BY <2>8
  <2>10. ASSUME NEW t \in X(i + 1) PROVE InitialPriority[t] <= InitialPriority[v]
    <3>1. t \in Threads /\ InitialPriority[t] \in Nat /\ InitialPriority[x] \in Nat
          /\ InitialPriority[z] \in Nat
      BY <1>a, <2>4, <2>8
    <3>2. CASE t = z
      BY <2>8, <3>1, <3>2
    <3>3. CASE t \in X(i)
      <4>1. InitialPriority[t] <= InitialPriority[x]
        BY <2>8, <3>3
      <4> QED BY <2>8, <3>1, <4>1
    <3> QED BY <2>8, <3>2, <3>3
  <2> QED BY <2>9, <2>10 DEF v
<1>6. Nat \subseteq Q
  <2> HIDE DEF Q
  <2> QED BY <1>4, <1>5, Induct
<1>7. Len(seq) \in Nat /\ P(Len(seq))
  <2> HIDE DEF P
  <2> QED BY <1>6
<1>8. F(Len(seq))
  <2> HIDE DEF F
  <2>1. Len(seq) <= Len(seq)
    BY <1>7
  <2> QED BY <1>7, <2>1
<1>9. X(Len(seq)) = {b} \cup ToSet(seq)
  <2>1. ToSet(seq) = {seq[j] : j \in 1..Len(seq)}
    BY ElementsOf
  <2> QED BY <2>1
<1> HIDE DEF X
<1> QED BY <1>3, <1>8, <1>9 DEF n

\* the kernel before the first task is created
Bare ==
    [pxReadyTasksLists |-> [p \in Priorities |-> EmptyList],
     uxTopReadyPriority |-> 0,
     pxDelayedTaskList |-> <<>>, pxOverflowDelayedTaskList |-> <<>>,
     xSuspendedTaskList |-> {}, xPendingReadyList |-> <<>>,
     xTasksWaitingTermination |-> <<>>,
     xTasksWaiting |-> [e \in Events |-> <<>>],
     uxPriority |-> InitialPriority,
     xTickCount |-> 0, xPendedTicks |-> 0,
     xNextTaskUnblockTime |-> portMAX_DELAY,
     xYieldPending |-> FALSE, uxSchedulerSuspended |-> 0,
     pxCurrentTCB |-> Idle]

\* The kernel before the first task is created is a kernel state with empty
\* lists.
LEMMA BareFacts ==
  ASSUME load \in DOMAIN Workloads
  PROVE  /\ Bare \in Kernel /\ Bare \in Loose
         /\ \A q \in Priorities : RdyAt(Bare, q) = {}
         /\ DItems(Bare) = {} /\ OItems(Bare) = {} /\ Pnd(Bare) = {}
         /\ \A e \in Events : Wts(Bare, e) = {}
<1>1. InitialPriority \in [Threads -> Priorities]
  BY WorkloadAssumption DEF InitialPriority
<1>2. 0 \in Priorities /\ 0 \in 0..portMAX_DELAY /\ portMAX_DELAY \in 0..portMAX_DELAY
      /\ Idle \in Threads
  BY BoundsAssumption DEF Priorities, portMAX_DELAY, Threads
<1>3. <<>> \in Distinct(Tasks) /\ <<>> \in Distinct(Threads) /\ <<>> \in DList
  BY DEF Distinct, DList
<1>4. EmptyList \in RList /\ EmptyList \in [items : Seq(Threads), index : {0}]
      /\ EmptyList.items = <<>>
  BY <1>3 DEF RList, EmptyList
<1>5. ToSet(<<>>) = {}
  BY DEF ToSet
<1>6. Bare \in Kernel
  BY <1>1, <1>2, <1>3, <1>4 DEF Bare, Kernel
<1>7. Bare \in Loose
  BY <1>1, <1>2, <1>3, <1>4 DEF Bare, Loose
<1>8. \A q \in Priorities : RdyAt(Bare, q) = {}
  BY <1>4, <1>5 DEF Bare, RdyAt
<1>9. DItems(Bare) = {} /\ OItems(Bare) = {} /\ Pnd(Bare) = {}
      /\ \A e \in Events : Wts(Bare, e) = {}
  BY <1>5 DEF Bare, DItems, OItems, Pnd, Wts
<1> QED BY <1>6, <1>7, <1>8, <1>9

\* the tasks main() and vTaskStartScheduler create, in that order
Order == Created \o <<Idle>>

\* The tasks that are created, in their order, are distinct.
LEMMA OrderFacts ==
  ASSUME load \in DOMAIN Workloads
  PROVE  /\ Order \in Distinct(Threads) /\ Idle \in ToSet(Order)
         /\ Head(Order) \in Threads /\ Tail(Order) \in Seq(Threads)
         /\ ToSet(Order) = {Head(Order)} \cup ToSet(Tail(Order))
<1> DEFINE s == Created
           n == Len(s)
<1>1. s \in Seq(Tasks) /\ \A i, j \in 1..n : s[i] = s[j] => i = j
  BY WorkloadAssumption DEF Created
<1>2. n \in Nat /\ \A i \in 1..n : s[i] \in Tasks
  BY <1>1
<1>3. /\ Order \in Seq(Threads) /\ Len(Order) = n + 1 /\ Order[n + 1] = Idle
      /\ \A i \in 1..n : Order[i] = s[i]
  <2>1. s \in Seq(Threads) /\ <<Idle>> \in Seq(Threads)
    BY <1>1 DEF Threads
  <2> HIDE DEF s
  <2>2. Order = s \o <<Idle>>
    BY DEF Order, s
  <2> QED BY <2>1, <2>2
<1> HIDE DEF s, n
<1>4. ASSUME NEW i \in 1..(n + 1), NEW j \in 1..(n + 1), Order[i] = Order[j] PROVE i = j
  <2>1. Idle \notin Tasks
    BY ThreadsAssumption
  <2>2. CASE i = n + 1 /\ j = n + 1
    BY <2>2
  <2>3. CASE i \in 1..n /\ j \in 1..n
    BY <1>1, <1>3, <1>4, <2>3
  <2>4. CASE i \in 1..n /\ j = n + 1
    BY <1>2, <1>3, <1>4, <2>1, <2>4
  <2>5. CASE i = n + 1 /\ j \in 1..n
    BY <1>2, <1>3, <1>4, <2>1, <2>5
  <2> QED BY <1>2, <2>2, <2>3, <2>4, <2>5
<1>5. Order \in Distinct(Threads)
  BY <1>3, <1>4 DEF Distinct
<1>6. ToSet(Order) = {Order[i] : i \in 1..(n + 1)}
  BY <1>3, ElementsOf
<1>7. Idle \in ToSet(Order)
  BY <1>2, <1>3, <1>6
<1>8. Order # <<>> /\ Head(Order) = Order[1] /\ Head(Order) \in Threads
  BY <1>2, <1>3
<1>9. /\ Tail(Order) \in Seq(Threads) /\ Len(Tail(Order)) = n
      /\ \A i \in 1..n : Tail(Order)[i] = Order[i + 1]
  BY <1>2, <1>3, <1>8
<1>10. ToSet(Tail(Order)) = {Order[i + 1] : i \in 1..n}
  <2>1. ToSet(Tail(Order)) = {Tail(Order)[i] : i \in 1..n}
    BY <1>9, ElementsOf
  <2> QED BY <1>9, <2>1
<1>11. ASSUME NEW i \in 1..(n + 1) PROVE i = 1 \/ i - 1 \in 1..n
  BY <1>2
<1>12. {Order[i] : i \in 1..(n + 1)} = {Order[1]} \cup {Order[i + 1] : i \in 1..n}
  <2>1. \A i \in 1..(n + 1) : i # 1 => Order[i] = Order[(i - 1) + 1] /\ i - 1 \in 1..n
    BY <1>2, <1>11
  <2>2. 1 \in 1..(n + 1) /\ \A i \in 1..n : i + 1 \in 1..(n + 1)
    BY <1>2
  <2>3. \A i \in 1..(n + 1) : Order[i] \in {Order[1]} \cup {Order[j + 1] : j \in 1..n}
    BY <2>1
  <2>4. \A j \in 1..n : Order[j + 1] \in {Order[i] : i \in 1..(n + 1)}
    BY <2>2
  <2>5. Order[1] \in {Order[i] : i \in 1..(n + 1)}
    BY <2>2
  <2> QED BY <2>3, <2>4, <2>5
<1> QED BY <1>5, <1>6, <1>7, <1>8, <1>9, <1>10, <1>12

Started(n, f) == [n EXCEPT !.pxCurrentTCB = f]

\* The invariant holds when the first task starts.
LEMMA StartedFacts ==
  ASSUME load \in DOMAIN Workloads, NEW X \in SUBSET Threads, NEW n, Added(n, Bare, X),
         NEW f \in X, \A t \in X : InitialPriority[t] <= InitialPriority[f], Idle \in X
  PROVE  Good(Started(n, f), [t \in Threads |-> "run"], [t \in Threads |-> NoArg], FALSE,
              [t \in Threads |-> IF t \in X THEN "live" ELSE "free"], [t \in Threads |-> 0])
<1> DEFINE s == Started(n, f)
           pc == [t \in Threads |-> "run"]
           a == [t \in Threads |-> NoArg]
           m == [t \in Threads |-> IF t \in X THEN "live" ELSE "free"]
           l == [t \in Threads |-> 0]
<1>1. /\ n \in Kernel /\ SameRest(n, Bare) /\ SameDelayed(n, Bare) /\ SameEvents(n, Bare)
      /\ n.xSuspendedTaskList = {} /\ f \in Threads
  BY DEF Added, Bare
<1>2. s \in Kernel /\ s.pxCurrentTCB = f
  BY <1>1 DEF Kernel, Started
<1>3. /\ \A q \in Priorities : RdyAt(s, q) = RdyAt(n, q)
      /\ DItems(s) = DItems(n) /\ OItems(s) = OItems(n) /\ Pnd(s) = Pnd(n)
      /\ \A e \in Events : Wts(s, e) = Wts(n, e)
      /\ s.xSuspendedTaskList = n.xSuspendedTaskList
      /\ s.xTasksWaitingTermination = n.xTasksWaitingTermination
      /\ s.uxPriority = n.uxPriority /\ s.uxTopReadyPriority = n.uxTopReadyPriority
      /\ s.xPendedTicks = n.xPendedTicks
      /\ s.uxSchedulerSuspended = n.uxSchedulerSuspended
  BY <1>1 DEF Kernel, Started, RdyAt, DItems, OItems, Pnd, Wts
<1> HIDE DEF s
<1>4. /\ \A q \in Priorities : RdyAt(s, q) = {t \in X : InitialPriority[t] = q}
      /\ \A t \in X : InitialPriority[t] <= s.uxTopReadyPriority
      /\ s.uxPriority = InitialPriority
      /\ DItems(s) = {} /\ OItems(s) = {} /\ Pnd(s) = {}
      /\ \A e \in Events : Wts(s, e) = {}
      /\ s.xSuspendedTaskList = {} /\ s.xTasksWaitingTermination = <<>>
      /\ s.xPendedTicks = 0 /\ s.uxSchedulerSuspended = 0
  <2>1. Bare.uxPriority = InitialPriority /\ Bare.xTasksWaitingTermination = <<>>
        /\ Bare.xPendedTicks = 0 /\ Bare.uxSchedulerSuspended = 0
    BY DEF Bare
  <2>2. DItems(n) = {} /\ OItems(n) = {} /\ Pnd(n) = {} /\ \A e \in Events : Wts(n, e) = {}
    BY <1>1, BareFacts DEF SameDelayed, SameEvents, DItems, OItems, Pnd, Wts
  <2> QED BY <1>1, <1>3, <2>1, <2>2 DEF Added, SameRest
<1>5. \A t \in Threads : InitialPriority[t] \in Priorities
  BY WorkloadAssumption DEF InitialPriority
<1>6. ASSUME NEW t \in Threads
      PROVE  /\ ~ Asleep(s, t) /\ ~ Waits(s, t) /\ t \notin Pnd(s)
             /\ t \notin DOwn(s) /\ t \notin OOwn(s)
             /\ IsReady(s, t) <=> t \in X
             /\ Linked(s, t) <=> t \in X
  BY <1>4, <1>5 DEF Asleep, Waits, DOwn, OOwn, IsReady, Linked
<1>7. ListsOK(s)
  <2>1. ASSUME NEW t \in Threads PROVE TaskOK(s, t)
    <3>1. \A q \in Priorities : t \in RdyAt(s, q) => s.uxPriority[t] = q
      BY <1>4
    <3> QED BY <1>6, <3>1 DEF TaskOK, Waits
  <2>2. Idle \in RdyAt(s, 0)
    <3>1. InitialPriority[Idle] = 0 /\ 0 \in Priorities
      BY WorkloadAssumption, BoundsAssumption DEF InitialPriority, Priorities
    <3> QED BY <1>4, <3>1
  <2>3. \A q \in Priorities : RdyAt(s, q) # {} => q <= s.uxTopReadyPriority
    BY <1>4
  <2> QED BY <2>1, <2>2, <2>3 DEF ListsOK
<1>8. Placed(s, m)
  <2>1. \A t \in Threads : m[t] = "live" <=> t \in X
    OBVIOUS
  <2> HIDE DEF m
  <2> QED BY <1>6, <1>7, <2>1 DEF Placed
<1>9. Timed(s, l)
  <2>1. \A t \in Threads : ~ (l[t] > 0)
    OBVIOUS
  <2> HIDE DEF l
  <2> QED BY <1>4, <2>1 DEF Timed, TimesOK, LeftOK
<1>10. /\ pc \in [Threads -> Kpcs] /\ a \in [Threads -> Args]
       /\ m \in [Threads -> {"live", "dead", "free"}] /\ l \in [Threads -> 0..portMAX_DELAY]
  <2>1. 0 \in 0..portMAX_DELAY
    BY BoundsAssumption DEF portMAX_DELAY
  <2>2. NoArg \in Args
    BY <2>1 DEF NoArg, Args
  <2>3. "run" \in Kpcs
    BY DEF Kpcs
  <2> QED BY <2>1, <2>2, <2>3
<1>11. \A t \in Threads : pc[t] = "run"
  OBVIOUS
<1>12. m[f] = "live"
  OBVIOUS
<1> HIDE DEF pc, a, m, l
<1>13. Called(s, pc, a, FALSE)
  <2>1. Idle \in Threads
    BY DEF Threads
  <2> QED BY <1>1, <1>2, <1>11, <2>1 DEF Called
<1>14. Running(s, pc, a, FALSE)
  <2>1. IsReady(s, f)
    BY <1>1, <1>6
  <2>2. Highest(s)
    BY <1>2, <1>4, <1>6 DEF Highest
  <2>3. pc[s.pxCurrentTCB] = "run"
    BY <1>1, <1>2, <1>11
  <2>4. Runs(s, "run", a[s.pxCurrentTCB].task, FALSE)
    BY <1>2, <1>4, <2>1, <2>2 DEF Runs
  <2> QED BY <2>3, <2>4 DEF Running
<1>15. Owned(s, pc, a, m)
  <2>1. ToSet(s.xTasksWaitingTermination) = {}
    BY <1>4 DEF ToSet
  <2>2. \A u, t \in Threads : ~ Frees(pc, a, u, t)
    BY <1>11 DEF Frees
  <2> QED BY <1>2, <1>12, <2>1, <2>2 DEF Owned
<1>16. Typed(s, pc, a, FALSE, m, l)
  BY <1>2, <1>10 DEF Typed
<1>17. Good(s, pc, a, FALSE, m, l)
  BY <1>8, <1>9, <1>13, <1>14, <1>15, <1>16 DEF Good
<1> QED BY <1>17 DEF s, pc, a, m, l

\* The initial states satisfy the inductive invariant, the scheduler not suspended.
LEMMA InitLemma == Init => IInv /\ k.uxSchedulerSuspended = 0
<1> SUFFICES ASSUME Init PROVE IInv /\ k.uxSchedulerSuspended = 0
  OBVIOUS
<1> DEFINE n == FoldLeft(prvAddTaskToReadyList, Bare, Order)
           f == FoldLeft(LAMBDA t, u : IF InitialPriority[t] <= InitialPriority[u]
                                       THEN u ELSE t, Head(Order), Tail(Order))
           X == ToSet(Order)
<1>1. /\ load \in DOMAIN Workloads
      /\ k = Started(n, f)
      /\ yieldReq = FALSE
      /\ kpc = [t \in Threads |-> "run"]
      /\ arg = [t \in Threads |-> NoArg]
      /\ tcb = [t \in Threads |-> IF t \in X THEN "live" ELSE "free"]
      /\ left = [t \in Threads |-> 0]
  BY DEF Init, Bare, Order, Started
<1>2. /\ Order \in Distinct(Threads) /\ Idle \in X
      /\ Head(Order) \in Threads /\ Tail(Order) \in Seq(Threads)
      /\ X = {Head(Order)} \cup ToSet(Tail(Order)) /\ X \in SUBSET Threads
  <2>1. Order \in Seq(Threads) => X \in SUBSET Threads
    BY ElementsOf
  <2> QED BY <1>1, <2>1, OrderFacts DEF Distinct
<1>3. Added(n, Bare, X)
  <2>1. Bare \in Kernel /\ Bare \in Loose /\ \A q \in Priorities : RdyAt(Bare, q) = {}
    BY <1>1, BareFacts
  <2> QED BY <1>2, <2>1, AddAll
<1>4. f \in X /\ \A t \in X : InitialPriority[t] <= InitialPriority[f]
  <2>1. InitialPriority \in [Threads -> Priorities]
    BY <1>1, WorkloadAssumption DEF InitialPriority
  <2>2. f \in {Head(Order)} \cup ToSet(Tail(Order))
        /\ \A t \in {Head(Order)} \cup ToSet(Tail(Order)) :
              InitialPriority[t] <= InitialPriority[f]
    BY <1>2, <2>1, FirstTask
  <2> QED BY <1>2, <2>2
<1> HIDE DEF n, f, X
<1>5. Good(k, kpc, arg, yieldReq, tcb, left)
  BY <1>1, <1>2, <1>3, <1>4, StartedFacts
<1>6. /\ k.xPendedTicks <= MaxPended /\ k.uxSchedulerSuspended <= MaxSuspended
      /\ k.uxSchedulerSuspended = 0
  <2>1. n \in Kernel /\ n.xPendedTicks = 0 /\ n.uxSchedulerSuspended = 0
    BY <1>3 DEF Added, SameRest, Bare
  <2>2. k.xPendedTicks = 0 /\ k.uxSchedulerSuspended = 0
    BY <1>1, <2>1 DEF Started, Kernel
  <2>3. MaxPended \in Nat /\ MaxSuspended \in Nat
    BY <1>1, WorkloadAssumption, BoundsAssumption DEF MaxPended
  <2> QED BY <2>2, <2>3
<1> QED BY <1>1, <1>5, <1>6 DEF IInv

-----------------------------------------------------------------------------
(***************************************************************************)
(* The kernel under the calls of queue.c.                                  *)
(***************************************************************************)
\* lists, wake times and some delays that agree with them
KernelOK(s) ==
    /\ s \in Kernel /\ ListsOK(s) /\ TimesOK(s)
    /\ \E l \in [Threads -> Nat] : LeftOK(s, l, s.xPendedTicks)
    /\ s.uxSchedulerSuspended = 0 => s.xPendedTicks = 0 /\ Pnd(s) = {}

\* the running task goes on, and what was ready still is
Keeps(n, s) ==
    /\ n.pxCurrentTCB = s.pxCurrentTCB
    /\ n.uxSchedulerSuspended = s.uxSchedulerSuspended
    /\ \A u \in Threads : IsReady(s, u) => IsReady(n, u)

\* a is s with the running task t in an event list, if E is not empty, about to block
MayBlock(s, t, n, forever, E, a) ==
    /\ KernelOK(s) /\ t = s.pxCurrentTCB /\ t \in Tasks /\ IsReady(s, t)
    /\ n \in 1..portMAX_DELAY /\ forever \in BOOLEAN
    /\ a \in Kernel /\ SameReady(a, s) /\ SameDelayed(a, s) /\ SameRest(a, s)
    /\ a.xSuspendedTaskList = s.xSuspendedTaskList /\ a.xYieldPending = s.xYieldPending
    /\ Pnd(a) = Pnd(s) /\ WaitsToo(a, s, t, E)

\* the running task goes on for now
GoesOn(r, s) ==
    /\ KernelOK(r) /\ r.pxCurrentTCB = s.pxCurrentTCB
    /\ r.uxSchedulerSuspended = s.uxSchedulerSuspended

\* The running task blocks for n ticks, in the event list e or in none.
LEMMA BlockKeeps ==
    ASSUME NEW s, NEW t, NEW n, NEW forever, NEW E, NEW a, MayBlock(s, t, n, forever, E, a)
    PROVE  GoesOn(prvAddCurrentTaskToDelayedList(a, n, forever), s)
  <1>. DEFINE r == prvAddCurrentTaskToDelayedList(a, n, forever)
  <1>0. /\ KernelOK(s) /\ t = s.pxCurrentTCB /\ t \in Tasks /\ IsReady(s, t)
        /\ n \in 1..portMAX_DELAY /\ forever \in BOOLEAN
        /\ a \in Kernel /\ SameReady(a, s) /\ SameDelayed(a, s) /\ SameRest(a, s)
        /\ a.xSuspendedTaskList = s.xSuspendedTaskList /\ a.xYieldPending = s.xYieldPending
        /\ Pnd(a) = Pnd(s) /\ WaitsToo(a, s, t, E)
    BY DEF MayBlock
  <1>. USE <1>0
  <1>1. s \in Kernel /\ ListsOK(s) /\ TimesOK(s)
        /\ (s.uxSchedulerSuspended = 0 => s.xPendedTicks = 0 /\ Pnd(s) = {})
    BY DEF KernelOK
  <1>2. PICK l \in [Threads -> Nat] : LeftOK(s, l, s.xPendedTicks)
    BY DEF KernelOK
  <1>. DEFINE lag == s.xPendedTicks
              h == [u \in Threads |-> IF u # t THEN l[u]
                        ELSE IF n = portMAX_DELAY /\ forever THEN 0 ELSE LeftOf(n, lag)]
  <1>3. lag \in Nat
    BY <1>1 DEF Kernel
  <1>4. portMAX_DELAY \in Nat
    BY BoundsAssumption DEF portMAX_DELAY
  <1>5. LeftOf(n, lag) \in Nat
    BY <1>3, <1>4 DEF LeftOf
  <1>6. h \in [Threads -> Nat] /\ Blocked(h, l, t, n, forever, lag)
    <2>. HIDE DEF lag
    <2>1. h \in [Threads -> Nat]
      BY <1>5
    <2>2. Blocked(h, l, t, n, forever, lag)
      BY DEF Blocked
    <2>. QED BY <2>1, <2>2
  <1>. HIDE DEF h
  <1>7. Blocks(s, l, h, lag, t, n, forever, E, a)
    BY <1>1, <1>2, <1>3, <1>6 DEF Blocks
  <1>8. /\ r \in Kernel /\ ListsOK(r) /\ TimesOK(r) /\ LeftOK(r, h, lag)
        /\ Pnd(r) = Pnd(s) /\ SameRest(r, s)
    <2>. HIDE DEF r
    <2>. QED BY <1>7, BlockFacts DEF r
  <1>. HIDE DEF r
  <1>9. /\ r.xPendedTicks = s.xPendedTicks /\ r.pxCurrentTCB = t
        /\ r.uxSchedulerSuspended = s.uxSchedulerSuspended
    BY <1>8 DEF SameRest
  <1>10. KernelOK(r)
    BY <1>1, <1>6, <1>8, <1>9 DEF KernelOK
  <1>. QED BY <1>9, <1>10 DEF r, GoesOn

\* vTaskPlaceOnEventList puts the running task in its event list, and blocks it.
LEMMA PlaceBlocks ==
    ASSUME NEW s, KernelOK(s), s.pxCurrentTCB \in Tasks, IsReady(s, s.pxCurrentTCB),
           NEW e \in Events, NEW n \in 1..portMAX_DELAY
    PROVE  \E a : /\ vTaskPlaceOnEventList(s, e, n) = prvAddCurrentTaskToDelayedList(a, n, TRUE)
                  /\ MayBlock(s, s.pxCurrentTCB, n, TRUE, {e}, a)
  <1>. DEFINE c == s.pxCurrentTCB
              w == s.xTasksWaiting[e]
              i == FirstBehind(s, w, c)
              p == Insert(w, c, i)
              f == [s.xTasksWaiting EXCEPT ![e] = p]
              a == [s EXCEPT !.xTasksWaiting = f]
  <1>1. vTaskPlaceOnEventList(s, e, n) = prvAddCurrentTaskToDelayedList(a, n, TRUE)
    BY DEF vTaskPlaceOnEventList
  <1>2. s \in Kernel /\ ListsOK(s)
    BY DEF KernelOK
  <1>3. w \in Distinct(Tasks) /\ c \notin ToSet(w) /\ c \in Tasks
    <2>1. w \in Distinct(Tasks)
      BY <1>2 DEF Kernel
    <2>2. ~ Waits(s, c)
      BY <1>2 DEF ListsOK, TaskOK, Threads
    <2>. QED BY <2>1, <2>2 DEF Waits, Wts
  <1>4. Len(w) \in Nat
    BY <1>3 DEF Distinct
  <1>5. p \in Distinct(Tasks) /\ ToSet(p) = ToSet(w) \cup {c}
    <2>1. i \in 0..Len(w)
      BY <1>4, FirstBehindRange
    <2>. HIDE DEF i, w, c
    <2>. QED BY <1>3, <2>1, InsertWaiter
  <1>. HIDE DEF p
  <1>6. f \in [Events -> Distinct(Tasks)]
        /\ \A g \in Events : f[g] = IF g = e THEN p ELSE s.xTasksWaiting[g]
    BY <1>2, <1>5 DEF Kernel
  <1>. HIDE DEF f
  <1>7. /\ a \in Kernel /\ a.xTasksWaiting = f
        /\ SameReady(a, s) /\ SameDelayed(a, s) /\ SameRest(a, s)
        /\ a.xSuspendedTaskList = s.xSuspendedTaskList /\ a.xYieldPending = s.xYieldPending
        /\ Pnd(a) = Pnd(s)
    <2>1. a \in Kernel /\ a.xTasksWaiting = f
      BY <1>2, <1>6 DEF Kernel
    <2>2. /\ SameReady(a, s) /\ SameDelayed(a, s) /\ SameRest(a, s)
          /\ a.xSuspendedTaskList = s.xSuspendedTaskList /\ a.xYieldPending = s.xYieldPending
          /\ Pnd(a) = Pnd(s)
      BY <1>2 DEF Kernel, SameReady, SameDelayed, SameRest, Pnd
    <2>. QED BY <2>1, <2>2
  <1>. HIDE DEF a
  <1>8. WaitsToo(a, s, c, {e})
    <2>1. \A g \in Events : Wts(a, g) = IF g \in {e} THEN Wts(s, g) \cup {c} ELSE Wts(s, g)
      <3>. HIDE DEF c
      <3>. QED BY <1>5, <1>6, <1>7 DEF Wts
    <2>. QED BY <2>1 DEF WaitsToo
  <1>9. MayBlock(s, c, n, TRUE, {e}, a)
    BY <1>3, <1>7, <1>8 DEF MayBlock
  <1>. QED BY <1>1, <1>9

\* vTaskPlaceOnEventList.
LEMMA PlaceKeeps ==
    ASSUME NEW s, KernelOK(s), s.pxCurrentTCB \in Tasks, IsReady(s, s.pxCurrentTCB),
           NEW e \in Events, NEW n \in 1..portMAX_DELAY
    PROVE  GoesOn(vTaskPlaceOnEventList(s, e, n), s)
  <1>. DEFINE c == s.pxCurrentTCB
  <1>1. PICK a : /\ vTaskPlaceOnEventList(s, e, n) = prvAddCurrentTaskToDelayedList(a, n, TRUE)
                 /\ MayBlock(s, c, n, TRUE, {e}, a)
    BY PlaceBlocks
  <1>. HIDE DEF c
  <1>2. GoesOn(prvAddCurrentTaskToDelayedList(a, n, TRUE), s)
    BY <1>1, BlockKeeps
  <1>. QED BY <1>1, <1>2

\* prvAddCurrentTaskToDelayedList from vTaskDelay.
LEMMA DelayKeeps ==
    ASSUME NEW s, KernelOK(s), s.pxCurrentTCB \in Tasks, IsReady(s, s.pxCurrentTCB),
           NEW n \in 1..portMAX_DELAY
    PROVE  GoesOn(prvAddCurrentTaskToDelayedList(s, n, FALSE), s)
  <1>1. s \in Kernel
    BY DEF KernelOK
  <1>2. SameReady(s, s) /\ SameDelayed(s, s) /\ SameRest(s, s)
        /\ WaitsToo(s, s, s.pxCurrentTCB, {})
    BY DEF SameReady, SameDelayed, SameRest, WaitsToo
  <1>. DEFINE c == s.pxCurrentTCB
  <1>3. MayBlock(s, c, n, FALSE, {}, s)
    BY <1>1, <1>2 DEF MayBlock
  <1>. HIDE DEF c
  <1>. QED BY <1>3, BlockKeeps

\* vTaskSuspendAll before a task waits.
LEMMA SuspendKeeps ==
    ASSUME NEW s, KernelOK(s), s.uxSchedulerSuspended = 0
    PROVE  LET n == [s EXCEPT !.uxSchedulerSuspended = @ + 1]
           IN  /\ KernelOK(n) /\ n.uxSchedulerSuspended = 1
               /\ n.pxCurrentTCB = s.pxCurrentTCB
               /\ \A u \in Threads : IsReady(s, u) => IsReady(n, u)
  <1>. DEFINE b == s.xPendedTicks
              n == SetCounts(s, 1, b)
  <1>1. s \in Kernel /\ ListsOK(s) /\ TimesOK(s) /\ b \in Nat
    BY DEF KernelOK, Kernel
  <1>2. PICK l \in [Threads -> Nat] : LeftOK(s, l, b)
    BY DEF KernelOK
  <1>3. [s EXCEPT !.uxSchedulerSuspended = @ + 1] = n
    <2>1. s.uxSchedulerSuspended + 1 = 1
      OBVIOUS
    <2>2. \A c : [s EXCEPT !.uxSchedulerSuspended = c] = SetCounts(s, c, b)
      BY <1>1 DEF SetCounts, Kernel
    <2>. QED BY <2>1, <2>2, Zenon
  <1>4. 1 \in Nat
    OBVIOUS
  <1>5. /\ n \in Kernel /\ n.uxSchedulerSuspended = 1 /\ n.xPendedTicks = b
        /\ SamePlaces(n, s) /\ n.uxTopReadyPriority = s.uxTopReadyPriority
        /\ n.pxCurrentTCB = s.pxCurrentTCB
    <2>. DEFINE c == 1
                m == SetCounts(s, c, b)
    <2>1. m = n /\ c = 1 /\ c \in Nat
      OBVIOUS
    <2>2. /\ m \in Kernel /\ m.uxSchedulerSuspended = c /\ m.xPendedTicks = b
          /\ SamePlaces(m, s) /\ m.uxTopReadyPriority = s.uxTopReadyPriority
          /\ m.pxCurrentTCB = s.pxCurrentTCB
      <3>. HIDE DEF b, c
      <3>. QED BY <1>1, <2>1, SetCountsFacts
    <2>. HIDE DEF m, n, c, b
    <2>. QED BY <2>1, <2>2
  <1>. HIDE DEF n, b
  <1>6. ListsOK(n) /\ TimesOK(n) /\ LeftOK(n, l, b)
    BY <1>1, <1>2, <1>5, SameListsOK, SamePlacesFacts
  <1>7. KernelOK(n)
    BY <1>2, <1>5, <1>6 DEF KernelOK
  <1>8. \A u \in Threads : IsReady(s, u) => IsReady(n, u)
    BY <1>5, SamePlacesFacts
  <1>. QED BY <1>3, <1>5, <1>7, <1>8

\* The outermost xTaskResumeAll.
ResumedAll(r, s) ==
    /\ KernelOK(r.s) /\ r.s.uxSchedulerSuspended = 0
    /\ r.s.pxCurrentTCB = s.pxCurrentTCB
    /\ \A u \in Threads : IsReady(s, u) => IsReady(r.s, u)
    /\ r.yielded \in BOOLEAN

\* xTaskResumeAll by the task that has suspended the scheduler.
LEMMA ResumeKeeps ==
    ASSUME NEW s, KernelOK(s), s.uxSchedulerSuspended = 1
    PROVE  ResumedAll(xTaskResumeAll(s), s)
  <1>. DEFINE r == xTaskResumeAll(s)
  <1>1. s \in Kernel /\ ListsOK(s) /\ TimesOK(s)
    BY DEF KernelOK
  <1>2. PICK l \in [Threads -> Nat] : LeftOK(s, l, s.xPendedTicks)
    BY DEF KernelOK
  <1>3. Resumed(r.s, s, l) /\ r.yielded = r.s.xYieldPending
    BY <1>1, <1>2, ResumeLast
  <1>. HIDE DEF r
  <1>4. /\ r.s \in Kernel /\ ListsOK(r.s) /\ TimesOK(r.s) /\ LeftOK(r.s, l, r.s.xPendedTicks)
        /\ r.s.xPendedTicks = 0 /\ Pnd(r.s) = {} /\ r.s.uxSchedulerSuspended = 0
        /\ r.s.pxCurrentTCB = s.pxCurrentTCB
        /\ \A u \in Threads : IsReady(s, u) => IsReady(r.s, u)
    BY <1>3 DEF Resumed
  <1>5. KernelOK(r.s)
    BY <1>2, <1>4 DEF KernelOK
  <1>6. r.yielded \in BOOLEAN
    BY <1>3, <1>4 DEF Kernel
  <1>7. ResumedAll(r, s)
    BY <1>4, <1>5, <1>6 DEF ResumedAll
  <1>. QED BY <1>7 DEF r

\* The tick, counted or put off.
LEMMA TickKeeps ==
    ASSUME NEW s, KernelOK(s)
    PROVE  LET r == xTaskIncrementTick(s)
           IN  KernelOK(r.s) /\ Keeps(r.s, s) /\ r.switch \in BOOLEAN
  <1>. DEFINE r == xTaskIncrementTick(s)
              n == r.s
  <1>1. /\ s \in Kernel /\ ListsOK(s) /\ TimesOK(s) /\ s.xPendedTicks \in Nat
        /\ s.uxSchedulerSuspended = 0 => s.xPendedTicks = 0 /\ Pnd(s) = {}
    BY DEF KernelOK, Kernel
  <1>2. PICK l \in [Threads -> Nat] : LeftOK(s, l, s.xPendedTicks)
    BY DEF KernelOK
  <1>. DEFINE h == OneLess(l)
  <1>3. /\ Ticked(n, s) /\ ListsOK(n) /\ TimesOK(n) /\ LeftOK(n, h, n.xPendedTicks)
        /\ r.switch \in BOOLEAN
    <2>. HIDE DEF h
    <2>. QED BY <1>1, <1>2, TickOutcome DEF h
  <1>4. h \in [Threads -> Nat]
    BY DEF OneLess
  <1>. HIDE DEF h, n, r
  <1>5. KernelOK(n)
    BY <1>3, <1>4 DEF KernelOK, Ticked
  <1>6. Keeps(n, s)
    BY <1>3 DEF Keeps, Ticked
  <1>. QED BY <1>3, <1>5, <1>6 DEF n, r

\* vTaskSwitchContext chooses a ready task, or leaves the choice for later.
SwitchedTo(n, s) ==
    /\ KernelOK(n) /\ n.uxSchedulerSuspended = s.uxSchedulerSuspended
    /\ \/ s.uxSchedulerSuspended = 0 /\ IsReady(n, n.pxCurrentTCB)
       \/ s.uxSchedulerSuspended > 0 /\ Keeps(n, s)

\* vTaskSwitchContext between two calls.
LEMMA SwitchKeeps ==
    ASSUME NEW s, KernelOK(s)
    PROVE  SwitchedTo(vTaskSwitchContext(s), s)
  <1>. DEFINE n == vTaskSwitchContext(s)
  <1>1. /\ s \in Kernel /\ ListsOK(s) /\ TimesOK(s) /\ s.uxSchedulerSuspended \in Nat
        /\ s.uxSchedulerSuspended = 0 => s.xPendedTicks = 0 /\ Pnd(s) = {}
    BY DEF KernelOK, Kernel
  <1>2. PICK l \in [Threads -> Nat] : LeftOK(s, l, s.xPendedTicks)
    BY DEF KernelOK
  <1>3. CASE s.uxSchedulerSuspended = 0
    <2>1. /\ n \in Kernel /\ SamePlaces(n, s) /\ ListsOK(n)
          /\ IsReady(n, n.pxCurrentTCB)
          /\ n.xPendedTicks = s.xPendedTicks
          /\ n.uxSchedulerSuspended = s.uxSchedulerSuspended
      BY <1>1, <1>3, SwitchFacts
    <2>. HIDE DEF n
    <2>2. TimesOK(n) /\ LeftOK(n, l, n.xPendedTicks)
      BY <1>1, <1>2, <2>1, SamePlacesFacts
    <2>3. KernelOK(n)
      BY <1>1, <1>2, <1>3, <2>1, <2>2 DEF KernelOK, SamePlaces
    <2>4. SwitchedTo(n, s)
      BY <1>3, <2>1, <2>3 DEF SwitchedTo
    <2>. QED BY <2>4 DEF n
  <1>4. CASE s.uxSchedulerSuspended # 0
    <2>0. s.uxSchedulerSuspended > 0
      BY <1>1, <1>4
    <2>1. n = [s EXCEPT !.xYieldPending = TRUE]
      BY <2>0 DEF vTaskSwitchContext
    <2>. HIDE DEF n
    <2>7. /\ n \in Kernel /\ n.xSuspendedTaskList = s.xSuspendedTaskList
          /\ SameReady(n, s) /\ SameDelayed(n, s) /\ SameEvents(n, s) /\ SameRest(n, s)
      BY <1>1, <2>1, SetYieldFacts
    <2>2. /\ n \in Kernel /\ SamePlaces(n, s) /\ n.uxTopReadyPriority = s.uxTopReadyPriority
          /\ n.xPendedTicks = s.xPendedTicks /\ n.pxCurrentTCB = s.pxCurrentTCB
          /\ n.uxSchedulerSuspended = s.uxSchedulerSuspended
      BY <2>7 DEF SamePlaces, SameReady, SameDelayed, SameEvents, SameRest, RdyAt, DItems,
                  OItems, Wts, Pnd
    <2>3. ListsOK(n) /\ TimesOK(n) /\ LeftOK(n, l, n.xPendedTicks)
      BY <1>1, <1>2, <2>2, SamePlacesFacts, SameListsOK
    <2>4. KernelOK(n)
      BY <1>2, <1>4, <2>2, <2>3 DEF KernelOK
    <2>5. Keeps(n, s)
      BY <2>2, SamePlacesFacts DEF Keeps
    <2>6. SwitchedTo(n, s)
      BY <2>0, <2>2, <2>4, <2>5 DEF SwitchedTo
    <2>. QED BY <2>6 DEF n
  <1>. QED BY <1>3, <1>4

\* The end of an interrupt handler: the running task goes on, with a yield pending as
\* before, or a ready task has the processor.
AfterIsr(n, m, y, z) ==
    /\ KernelOK(n) /\ z \in BOOLEAN
    /\ n.uxSchedulerSuspended = m.uxSchedulerSuspended
    /\ \/ Keeps(n, m) /\ z = y
       \/ m.uxSchedulerSuspended = 0 /\ IsReady(n, n.pxCurrentTCB) /\ z = FALSE

\* An interrupt service routine that wakes a task, and the switch it asks for.
LEMMA HandlerKeeps ==
    ASSUME KernelOK(k), yieldReq \in BOOLEAN, k.uxSchedulerSuspended > 0 => ~ yieldReq,
           NEW n, KernelOK(n), Keeps(n, k), NEW sw \in BOOLEAN, HandlerEnd(n, sw)
    PROVE  AfterIsr(k', k, yieldReq, yieldReq')
  <1>1. CASE sw \/ yieldReq
    <2>. DEFINE m == vTaskSwitchContext(n)
    <2>1. k' = m /\ yieldReq' = FALSE
      BY <1>1 DEF HandlerEnd
    <2>2. SwitchedTo(m, n)
      BY SwitchKeeps
    <2>. HIDE DEF m
    <2>3. /\ KernelOK(m) /\ m.uxSchedulerSuspended = k.uxSchedulerSuspended
          /\ \/ k.uxSchedulerSuspended = 0 /\ IsReady(m, m.pxCurrentTCB)
             \/ k.uxSchedulerSuspended > 0 /\ Keeps(m, k)
      BY <2>2 DEF SwitchedTo, Keeps
    <2>. DEFINE y == yieldReq
    <2>4. y \in BOOLEAN /\ (k.uxSchedulerSuspended > 0 => ~ y)
      OBVIOUS
    <2>. HIDE DEF y
    <2>5. AfterIsr(m, k, y, FALSE)
      BY <2>3, <2>4 DEF AfterIsr
    <2>. QED BY <2>1, <2>5 DEF y
  <1>2. CASE ~(sw \/ yieldReq)
    <2>. DEFINE y == yieldReq
    <2>1. k' = n /\ yieldReq' = y /\ y \in BOOLEAN
      BY <1>2 DEF HandlerEnd
    <2>. HIDE DEF y
    <2>2. AfterIsr(n, k, y, y)
      BY <2>1 DEF AfterIsr, Keeps
    <2>. QED BY <2>1, <2>2 DEF y
  <1>. QED BY <1>1, <1>2

(***************************************************************************)
(* What the functions of tasks.c do to those who wait and to the delays.   *)
(***************************************************************************)
\* nobody has begun to wait
Fewer(n, s) == \A e \in Events : Wts(n, e) \subseteq Wts(s, e)
SameClock(n, s) == n.xTickCount = s.xTickCount /\ n.xPendedTicks = s.xPendedTicks
\* every delay is what it was, or over
NoLonger(h, l) == \A t \in Threads : h[t] = l[t] \/ h[t] = 0
Delays0(s) == {l \in [Threads -> Nat] : LeftOK(s, l, s.xPendedTicks)}
Shortens(n, s) == \A l \in Delays0(s) : \E h \in Delays0(n) : NoLonger(h, l)

Gentle(n, s) ==
    /\ n.uxPriority = s.uxPriority /\ SameClock(n, s) /\ Fewer(n, s) /\ Shortens(n, s)

\* Nothing happened.
LEMMA GentleSame == \A s : Gentle(s, s)
  BY DEF Gentle, SameClock, Fewer, Shortens, NoLonger

\* One gentle step and another.
LEMMA GentleTwice ==
    ASSUME NEW s, NEW m, NEW n, Gentle(m, s), Gentle(n, m)
    PROVE  Gentle(n, s)
  <1>1. n.uxPriority = s.uxPriority /\ SameClock(n, s) /\ Fewer(n, s)
    BY DEF Gentle, SameClock, Fewer
  <1>2. ASSUME NEW l \in Delays0(s) PROVE \E h \in Delays0(n) : NoLonger(h, l)
    <2>1. PICK g \in Delays0(m) : NoLonger(g, l)
      BY DEF Gentle, Shortens
    <2>2. PICK h \in Delays0(n) : NoLonger(h, g)
      BY DEF Gentle, Shortens
    <2>3. NoLonger(h, l)
      BY <2>1, <2>2 DEF NoLonger
    <2>. QED BY <2>2, <2>3
  <1>. QED BY <1>1, <1>2 DEF Gentle, Shortens

\* the first task that waits for e, if any, waits no longer
FirstWoken(n, s, e) ==
    \/ Wts(s, e) = {} /\ n = s
    \/ \E t \in Wts(s, e) : \A f \in Events : Wts(n, f) = Wts(s, f) \ {t}

\* An event list is empty when nobody is in it.
LEMMA EmptyWaits ==
    ASSUME NEW s \in Kernel, NEW e \in Events
    PROVE  (s.xTasksWaiting[e] = <<>>) <=> Wts(s, e) = {}
  <1>. DEFINE w == s.xTasksWaiting[e]
  <1>1. w \in Distinct(Tasks)
    BY DEF Kernel
  <1>2. w \in Seq(Tasks)
    BY <1>1 DEF Distinct
  <1>3. w # <<>> => Head(w) \in ToSet(w)
    BY <1>1, DistinctTail
  <1>4. w = <<>> => ToSet(w) = {}
    BY DEF ToSet
  <1>. QED BY <1>3, <1>4 DEF Wts

\* t no longer waits for e
Released(n, s, t, e) ==
    /\ \A f \in Events : Wts(n, f) = Wts(s, f) \ {t}
    /\ n.uxPriority = s.uxPriority /\ SameClock(n, s) /\ t \in Wts(s, e)

\* xTaskRemoveFromEventList takes the first task out of the list.
LEMMA FirstReleased ==
    ASSUME NEW s \in Kernel, NEW e \in Events, s.xTasksWaiting[e] # <<>>
    PROVE  Released(xTaskRemoveFromEventList(s, e).s, s, Head(s.xTasksWaiting[e]), e)
  <1>. DEFINE r == xTaskRemoveFromEventList(s, e)
              t == Head(s.xTasksWaiting[e])
              a == RemoveEvent(s, t)
              higher == Preempts(s, t)
              b0 == RemoveState(a, t)
              b == prvAddTaskToReadyList(b0, t)
              c == [a EXCEPT !.xPendingReadyList = Append(@, t)]
              m == IF a.uxSchedulerSuspended = 0 THEN b ELSE c
  <1>1. t \in Tasks /\ t \in Wts(s, e)
    <2>1. s.xTasksWaiting[e] \in Distinct(Tasks)
      BY DEF Kernel
    <2>. QED BY <2>1, DistinctTail DEF Wts
  <1>2. t \in Threads
    BY <1>1 DEF Threads
  <1>3. r.s = [m EXCEPT !.xYieldPending = @ \/ higher]
    <2>1. a.uxSchedulerSuspended = s.uxSchedulerSuspended
      BY RemoveEventFacts DEF SameRest
    <2>. QED BY <2>1 DEF xTaskRemoveFromEventList
  <1>. HIDE DEF t, higher, r
  <1>4. /\ a \in Kernel
        /\ \A f \in Events : Wts(a, f) = Wts(s, f) \ {t}
        /\ SameRest(a, s)
    BY RemoveEventFacts
  <1>. HIDE DEF a
  <1>5. /\ b \in Kernel /\ SameEvents(b, a) /\ SameRest(b, a)
    <2>1. /\ b0 \in Kernel /\ \A q1 \in Priorities : RdyAt(b0, q1) = RdyAt(a, q1) \ {t}
          /\ SameEvents(b0, a) /\ SameRest(b0, a)
      BY <1>4, RemoveStateFacts
    <2>. HIDE DEF b0
    <2>2. b0.uxPriority[t] \in Priorities
      BY <1>2, <2>1 DEF Kernel
    <2>3. t \notin RdyAt(b0, b0.uxPriority[t])
      BY <2>1, <2>2
    <2>4. b \in Kernel /\ SameEvents(b, b0) /\ SameRest(b, b0)
      BY <1>2, <2>1, <2>3, AddReadyFacts
    <2>. QED BY <2>1, <2>4 DEF SameEvents, SameRest
  <1>6. c.xTasksWaiting = a.xTasksWaiting /\ SameRest(c, a)
    BY <1>4 DEF Kernel, SameRest
  <1>. HIDE DEF b, c
  <1>7. m.xTasksWaiting = a.xTasksWaiting /\ SameRest(m, a)
    BY <1>5, <1>6 DEF SameEvents
  <1>8. r.s.xTasksWaiting = m.xTasksWaiting /\ r.s.uxPriority = m.uxPriority
        /\ r.s.xTickCount = m.xTickCount /\ r.s.xPendedTicks = m.xPendedTicks
    <2>1. \A y : LET n == [m EXCEPT !.xYieldPending = y]
                 IN  /\ n.xTasksWaiting = m.xTasksWaiting /\ n.uxPriority = m.uxPriority
                     /\ n.xTickCount = m.xTickCount /\ n.xPendedTicks = m.xPendedTicks
      OBVIOUS
    <2>. HIDE DEF m
    <2>. QED BY <1>3, <2>1
  <1>. HIDE DEF m
  <1>9. \A f \in Events : Wts(r.s, f) = Wts(s, f) \ {t}
    BY <1>4, <1>7, <1>8 DEF Wts
  <1>10. r.s.uxPriority = s.uxPriority /\ SameClock(r.s, s)
    BY <1>4, <1>7, <1>8 DEF SameRest, SameClock
  <1>11. Released(r.s, s, t, e)
    BY <1>1, <1>9, <1>10 DEF Released
  <1>. QED BY <1>11 DEF r, t

\* only the priority of t is another
Reprioritised(n, s, t, p) ==
    /\ \A u \in Threads : n.uxPriority[u] = IF u = t THEN p ELSE s.uxPriority[u]
    /\ SameClock(n, s) /\ (\A e \in Events : Wts(n, e) = Wts(s, e)) /\ Shortens(n, s)

\* Nothing changed but the processor and what is asked of it.
LEMMA SwitchGentle ==
    ASSUME NEW s, KernelOK(s)
    PROVE  Gentle(vTaskSwitchContext(s), s)
  <1>. DEFINE n == vTaskSwitchContext(s)
  <1>1. /\ s \in Kernel /\ ListsOK(s) /\ s.uxSchedulerSuspended \in Nat
    BY DEF KernelOK, Kernel
  <1>2. SamePlaces(n, s) /\ n.xPendedTicks = s.xPendedTicks
    <2>1. CASE s.uxSchedulerSuspended = 0
      BY <1>1, <2>1, SwitchFacts
    <2>2. CASE s.uxSchedulerSuspended # 0
      <3>0. s.uxSchedulerSuspended > 0
        BY <1>1, <2>2
      <3>1. n = [s EXCEPT !.xYieldPending = TRUE]
        BY <3>0 DEF vTaskSwitchContext
      <3>. HIDE DEF n
      <3>2. /\ n.xSuspendedTaskList = s.xSuspendedTaskList
            /\ SameReady(n, s) /\ SameDelayed(n, s) /\ SameEvents(n, s) /\ SameRest(n, s)
        BY <1>1, <3>1, SetYieldFacts
      <3>. QED BY <3>2, SameEverything DEF SameRest
    <2>. QED BY <2>1, <2>2
  <1>. HIDE DEF n
  <1>3. n.uxPriority = s.uxPriority /\ SameClock(n, s) /\ Fewer(n, s)
    BY <1>2 DEF SamePlaces, SameClock, Fewer
  <1>4. Shortens(n, s)
    BY <1>2, SamePlacesFacts DEF Shortens, Delays0, NoLonger
  <1>. QED BY <1>3, <1>4 DEF Gentle, n

\* the count i ticks later, wrapped once at most
Advanced(count, i) == IF count + i < Wrap THEN count + i ELSE count + i - Wrap
\* i of the pended ticks of s have been caught up with
CaughtTo(n, s, i) ==
    /\ Fewer(n, s) /\ n.uxPriority = s.uxPriority
    /\ i < Wrap => n.xTickCount = Advanced(s.xTickCount, i)

\* The next count.
LEMMA NextCount ==
    ASSUME NEW x \in 0..portMAX_DELAY
    PROVE  (x + 1) % Wrap = IF x + 1 < Wrap THEN x + 1 ELSE 0
  <1>1. Wrap \in Nat /\ Wrap > 1 /\ x \in Nat /\ x < Wrap
    BY BoundsAssumption DEF portMAX_DELAY
  <1>2. x + 1 \in Nat /\ x + 1 < 2 * Wrap
    BY <1>1
  <1>3. PICK y \in Nat : y = x + 1
    BY <1>2
  <1>4. y % Wrap = IF y < Wrap THEN y ELSE y - Wrap
    BY <1>2, <1>3, WrapOnce
  <1>. QED BY <1>1, <1>3, <1>4

\* The count after one more tick.
LEMMA AdvancedOnce ==
    ASSUME NEW x \in 0..portMAX_DELAY, NEW i \in Nat, i + 1 < Wrap
    PROVE  (Advanced(x, i) + 1) % Wrap = Advanced(x, i + 1)
  <1>1. Wrap \in Nat /\ portMAX_DELAY = Wrap - 1 /\ x \in Nat /\ x < Wrap
    BY BoundsAssumption DEF portMAX_DELAY
  <1>. DEFINE z == IF x + i < Wrap THEN x + i ELSE x + i - Wrap
  <1>2. z \in 0..portMAX_DELAY
    <2>1. CASE x + i < Wrap
      BY <1>1, <2>1
    <2>2. CASE x + i >= Wrap
      BY <1>1, <2>2
    <2>. QED BY <1>1, <2>1, <2>2
  <1>5. PICK y \in 0..portMAX_DELAY : y = z
    BY <1>2
  <1>3. (y + 1) % Wrap = IF y + 1 < Wrap THEN y + 1 ELSE 0
    BY NextCount
  <1>4. (IF y + 1 < Wrap THEN y + 1 ELSE 0) = Advanced(x, i + 1)
    BY <1>1, <1>5 DEF Advanced
  <1>6. y = Advanced(x, i)
    BY <1>5 DEF Advanced
  <1>. QED BY <1>3, <1>4, <1>6

\* One pended tick.
LEMMA PendedTickFacts ==
    ASSUME NEW u \in Steady, NEW i
    PROVE  LET n == PendedTick(u, i)
           IN  Fewer(n, u) /\ n.uxPriority = u.uxPriority /\ n.xTickCount = (u.xTickCount + 1) % Wrap
  <1>. DEFINE r == xTaskIncrementTick(u)
              m == r.s
              y == m.xYieldPending \/ r.switch
              n == PendedTick(u, i)
  <1>1. u \in Kernel /\ u.uxSchedulerSuspended = 0
        /\ \A d \in DItems(u) : u.xNextTaskUnblockTime <= d.value
    BY DEF Steady
  <1>2. /\ m \in Kernel /\ r.switch \in BOOLEAN /\ m.xTickCount = (u.xTickCount + 1) % Wrap
        /\ m.uxPriority = u.uxPriority
        /\ \E X \in SUBSET Threads : \A e \in Events : Wts(m, e) = Wts(u, e) \ X
    BY <1>1, TickFacts
  <1>3. y \in BOOLEAN
    BY <1>2 DEF Kernel
  <1>4. n = [m EXCEPT !.xYieldPending = y]
    BY <1>2 DEF PendedTick, Kernel
  <1>. HIDE DEF n, m, r, y
  <1>5. n \in Kernel /\ SameEvents(n, m) /\ SameRest(n, m)
    BY <1>2, <1>3, <1>4, SetYieldFacts
  <1>6. Fewer(n, u)
    BY <1>2, <1>5 DEF Fewer, SameEvents, Wts
  <1>. QED BY <1>2, <1>5, <1>6 DEF n, SameRest

\* The loop of xTaskResumeAll over the pended ticks.
LEMMA CatchUpCount ==
    ASSUME NEW s \in Steady, NEW lag \in Nat
    PROVE  CaughtTo(FoldLeft(PendedTick, s, [i \in 1..lag |-> i]), s, lag)
  <1>. DEFINE seq == [i \in 1..lag |-> i]
              n == FoldLeft(PendedTick, s, seq)
  <1>1. seq \in Seq(Nat) /\ Len(seq) = lag
    OBVIOUS
  <1>. HIDE DEF seq
  <1>3. \E g \in [0..Len(seq) -> Steady] :
            /\ g[0] = s
            /\ \A i \in 1..Len(seq) : g[i] = PendedTick(g[i - 1], seq[i])
            /\ TickFold!FoldLeft(PendedTick, s, seq) = g[Len(seq)]
    BY <1>1, PendedTickType, Induct, TickFold!FoldSteps
  <1>4. n = TickFold!FoldLeft(PendedTick, s, seq)
    BY DEF FoldLeft, MapThenFoldSet, TickFold!FoldLeft, TickFold!MapThenFoldSet,
           Max, TickFold!Max
  <1>. HIDE DEF n
  <1>5. PICK g \in [0..lag -> Steady] :
            /\ g[0] = s
            /\ \A i \in 1..lag : g[i] = PendedTick(g[i - 1], seq[i])
            /\ n = g[lag]
    BY <1>1, <1>3, <1>4
  <1>. DEFINE Q == {i \in Nat : i <= lag => CaughtTo(g[i], s, i)}
  <1>t. \A u \in Steady : u.xTickCount \in 0..portMAX_DELAY
    BY DEF Steady, Kernel
  <1>w. Wrap \in Nat /\ Wrap > 1 /\ portMAX_DELAY = Wrap - 1
    BY BoundsAssumption DEF portMAX_DELAY
  <1>6. 0 \in Q
    <2>1. s.xTickCount = Advanced(s.xTickCount, 0)
      BY <1>t, <1>w DEF Advanced
    <2>. QED BY <1>5, <2>1 DEF CaughtTo, Fewer
  <1>7. ASSUME NEW i \in Nat, i \in Q PROVE i + 1 \in Q
    <2>. SUFFICES ASSUME i + 1 <= lag PROVE CaughtTo(g[i + 1], s, i + 1)
      OBVIOUS
    <2>2. /\ i + 1 \in 1..lag /\ i <= lag /\ i + 1 - 1 = i /\ i \in 0..lag
      OBVIOUS
    <2>3. g[i + 1] = PendedTick(g[i], seq[i + 1]) /\ g[i] \in Steady
      BY <1>5, <2>2
    <2>4. CaughtTo(g[i], s, i)
      BY <1>7, <2>2
    <2>5. Fewer(g[i + 1], g[i]) /\ g[i + 1].uxPriority = g[i].uxPriority
          /\ g[i + 1].xTickCount = (g[i].xTickCount + 1) % Wrap
      BY <2>3, PendedTickFacts
    <2>6. ASSUME i + 1 < Wrap PROVE g[i + 1].xTickCount = Advanced(s.xTickCount, i + 1)
      <3>1. i < Wrap
        BY <1>w, <2>6
      <3>2. g[i].xTickCount = Advanced(s.xTickCount, i)
        BY <2>4, <3>1 DEF CaughtTo
      <3>. QED BY <1>t, <2>5, <2>6, <3>2, AdvancedOnce
    <2>. QED BY <2>4, <2>5, <2>6 DEF CaughtTo, Fewer
  <1>8. Nat \subseteq Q
    <2>. HIDE DEF Q
    <2>. QED BY <1>6, <1>7, Induct
  <1>9. CaughtTo(g[lag], s, lag)
    BY <1>8
  <1>. QED BY <1>5, <1>9 DEF n, seq

\* n is s after the outermost xTaskResumeAll
Continued(n, s) ==
    /\ Fewer(n, s) /\ n.uxPriority = s.uxPriority /\ n.xPendedTicks = 0
    /\ s.xPendedTicks < Wrap => n.xTickCount = Advanced(s.xTickCount, s.xPendedTicks)
    /\ Shortens(n, s)

\* xTaskResumeAll wakes those whose time is up, and catches up with the clock.
LEMMA ResumeContinues ==
    ASSUME NEW s, KernelOK(s), s.uxSchedulerSuspended = 1
    PROVE  Continued(xTaskResumeAll(s).s, s)
  <1>. DEFINE r == xTaskResumeAll(s)
              a == SetCounts(s, 0, s.xPendedTicks)
              m == MovePendingReady(a)
              u == FoldLeft(PendedTick, m, [i \in 1..m.xPendedTicks |-> i])
              n == SetCounts(u, 0, 0)
  <1>0. s \in Kernel /\ ListsOK(s) /\ TimesOK(s)
    BY DEF KernelOK
  <1>1. s.xPendedTicks \in Nat /\ s.uxSchedulerSuspended - 1 = 0
    BY <1>0 DEF Kernel
  <1>2. a = [s EXCEPT !.uxSchedulerSuspended = @ - 1]
    BY <1>0, <1>1 DEF Kernel, SetCounts
  <1>3. /\ a \in Kernel /\ a.uxSchedulerSuspended = 0 /\ a.xPendedTicks = s.xPendedTicks
        /\ SamePlaces(a, s)
    <2>1. 0 \in Nat /\ s.xPendedTicks \in Nat
      BY <1>1
    <2>. HIDE DEF r, m, u, n
    <2>. QED BY <1>0, <2>1, SetCountsFacts
  <1>4. ProcessPendedTicks(m) = [u EXCEPT !.xPendedTicks = 0]
    BY DEF ProcessPendedTicks, PendedTick, FoldLeft, MapThenFoldSet
  <1>5. r = [s |-> ProcessPendedTicks(m), yielded |-> ProcessPendedTicks(m).xYieldPending]
    BY <1>1, <1>2, <1>3 DEF xTaskResumeAll, YieldsNow
  <1>. HIDE DEF r, a
  <1>6. /\ m \in Kernel /\ SameRest(m, a)
        /\ \A d \in DItems(m) : m.xNextTaskUnblockTime <= d.value
        /\ \A e \in Events : Wts(m, e) = Wts(a, e) \ Pnd(a)
    <2>1. \A d \in DItems(a) : a.xNextTaskUnblockTime <= d.value
      BY <1>0, <1>3 DEF TimesOK, SamePlaces
    <2>. QED BY <1>3, <2>1, MovePendingFacts
  <1>. HIDE DEF m
  <1>7. m \in Steady /\ m.xPendedTicks = s.xPendedTicks /\ m.xTickCount = s.xTickCount
        /\ m.uxPriority = s.uxPriority /\ Fewer(m, s)
    BY <1>3, <1>6 DEF Steady, SameRest, SamePlaces, Fewer
  <1>8. CaughtTo(u, m, s.xPendedTicks)
    BY <1>1, <1>7, CatchUpCount
  <1>9. u \in Kernel
    <2>. DEFINE lag == s.xPendedTicks
                seq == [i \in 1..lag |-> i]
    <2>1. seq \in Seq(Nat) /\ Len(seq) = lag /\ lag \in Nat
      BY <1>1
    <2>2. u = FoldLeft(PendedTick, m, seq)
      BY <1>7
    <2>. HIDE DEF seq, u, lag
    <2>3. \E g \in [0..Len(seq) -> Steady] : TickFold!FoldLeft(PendedTick, m, seq) = g[Len(seq)]
      BY <1>7, <2>1, PendedTickType, Induct, TickFold!FoldSteps
    <2>4. u = TickFold!FoldLeft(PendedTick, m, seq)
      BY <2>2 DEF FoldLeft, MapThenFoldSet, TickFold!FoldLeft, TickFold!MapThenFoldSet,
             Max, TickFold!Max
    <2>. QED BY <2>1, <2>3, <2>4 DEF Steady
  <1>. HIDE DEF u
  <1>10. [u EXCEPT !.xPendedTicks = 0].xTasksWaiting = u.xTasksWaiting
         /\ [u EXCEPT !.xPendedTicks = 0].uxPriority = u.uxPriority
         /\ [u EXCEPT !.xPendedTicks = 0].xPendedTicks = 0
         /\ [u EXCEPT !.xPendedTicks = 0].xTickCount = u.xTickCount
    BY <1>9 DEF Kernel
  <1>11. r.s.xTasksWaiting = u.xTasksWaiting /\ r.s.uxPriority = u.uxPriority
         /\ r.s.xPendedTicks = 0 /\ r.s.xTickCount = u.xTickCount
    BY <1>4, <1>5, <1>10
  <1>12. Fewer(r.s, s)
    BY <1>7, <1>8, <1>11 DEF CaughtTo, Fewer, Wts
  <1>13. Shortens(r.s, s)
    <2>1. ASSUME NEW l \in Delays0(s) PROVE l \in Delays0(r.s)
      <3>1. l \in [Threads -> Nat] /\ LeftOK(s, l, s.xPendedTicks)
        BY DEF Delays0
      <3>2. Resumed(xTaskResumeAll(s).s, s, l)
        BY <1>0, <3>1, ResumeLast
      <3>3. LeftOK(r.s, l, 0)
        BY <3>2 DEF r, Resumed
      <3>. QED BY <1>11, <3>1, <3>3 DEF Delays0
    <2>. QED BY <2>1 DEF Shortens, NoLonger
  <1>14. Continued(r.s, s)
    BY <1>7, <1>8, <1>11, <1>12, <1>13 DEF Continued, CaughtTo
  <1>. QED BY <1>14 DEF r

\* n is s after a timer interrupt
Aged(n, s) ==
    /\ Fewer(n, s) /\ n.uxPriority = s.uxPriority
    /\ \/ s.uxSchedulerSuspended = 0 /\ n.xPendedTicks = s.xPendedTicks
          /\ n.xTickCount = Advanced(s.xTickCount, 1)
       \/ n.xPendedTicks = s.xPendedTicks + 1 /\ n.xTickCount = s.xTickCount
    /\ \A l \in Delays0(s) : OneLess(l) \in Delays0(n)

\* xTaskIncrementTick, counted or put off.
LEMMA TickAges ==
    ASSUME NEW s, KernelOK(s)
    PROVE  Aged(xTaskIncrementTick(s).s, s)
  <1>. DEFINE n == xTaskIncrementTick(s).s
  <1>1. /\ s \in Kernel /\ ListsOK(s) /\ TimesOK(s) /\ s.xPendedTicks \in Nat
        /\ s.uxSchedulerSuspended \in Nat /\ s.xTickCount \in 0..portMAX_DELAY
        /\ s.uxSchedulerSuspended = 0 => s.xPendedTicks = 0 /\ Pnd(s) = {}
    BY DEF KernelOK, Kernel
  <1>2. ASSUME NEW l \in Delays0(s) PROVE OneLess(l) \in Delays0(n)
    <2>1. l \in [Threads -> Nat] /\ LeftOK(s, l, s.xPendedTicks)
      BY DEF Delays0
    <2>2. LeftOK(n, OneLess(l), n.xPendedTicks)
      BY <1>1, <2>1, TickOutcome
    <2>3. OneLess(l) \in [Threads -> Nat]
      BY <2>1 DEF OneLess
    <2>. HIDE DEF n
    <2>. QED BY <2>2, <2>3 DEF Delays0
  <1>3. \E l \in [Threads -> Nat] : Ticked(n, s)
    BY <1>1, TickOutcome DEF KernelOK
  <1>4. n.uxPriority = s.uxPriority
        /\ n.xPendedTicks = IF s.uxSchedulerSuspended = 0 THEN 0 ELSE s.xPendedTicks + 1
    BY <1>3 DEF Ticked
  <1>5. CASE s.uxSchedulerSuspended = 0
    <2>1. \A d \in DItems(s) : s.xNextTaskUnblockTime <= d.value
      BY <1>1 DEF TimesOK
    <2>2. /\ n.xTickCount = (s.xTickCount + 1) % Wrap
          /\ \E X \in SUBSET Threads : \A e \in Events : Wts(n, e) = Wts(s, e) \ X
      BY <1>1, <1>5, <2>1, TickFacts
    <2>3. n.xTickCount = Advanced(s.xTickCount, 1)
      <3>1. Wrap \in Nat /\ portMAX_DELAY = Wrap - 1
        BY BoundsAssumption DEF portMAX_DELAY
      <3>2. (s.xTickCount + 1) % Wrap = IF s.xTickCount + 1 < Wrap THEN s.xTickCount + 1 ELSE 0
        BY <1>1, NextCount
      <3>. QED BY <1>1, <2>2, <3>1, <3>2 DEF Advanced
    <2>4. Fewer(n, s)
      BY <2>2 DEF Fewer
    <2>5. n.xPendedTicks = s.xPendedTicks
      BY <1>1, <1>4, <1>5
    <2>. HIDE DEF n
    <2>6. Aged(n, s)
      BY <1>2, <1>4, <1>5, <2>3, <2>4, <2>5 DEF Aged
    <2>. QED BY <2>6 DEF n
  <1>6. CASE s.uxSchedulerSuspended # 0
    <2>1. s.uxSchedulerSuspended > 0
      BY <1>1, <1>6
    <2>2. n = [s EXCEPT !.xPendedTicks = @ + 1]
      BY <2>1 DEF xTaskIncrementTick
    <2>3. n.xTickCount = s.xTickCount /\ n.xTasksWaiting = s.xTasksWaiting
      <3>. HIDE DEF n
      <3>. QED BY <1>1, <2>2 DEF Kernel
    <2>. HIDE DEF n
    <2>4. Aged(n, s)
      BY <1>2, <1>4, <1>6, <2>3 DEF Aged, Fewer, Wts
    <2>. QED BY <2>4 DEF n
  <1>. QED BY <1>5, <1>6

\* t waits in the event lists of E, and its delay is n
Joins(r, s, t, E, n, forever) ==
    /\ r.uxPriority = s.uxPriority /\ SameClock(r, s)
    /\ \A e \in Events : Wts(r, e) = IF e \in E THEN Wts(s, e) \cup {t} ELSE Wts(s, e)
    /\ \A l \in Delays0(s) : \E h \in Delays0(r) : Blocked(h, l, t, n, forever, s.xPendedTicks)

\* prvAddCurrentTaskToDelayedList gives the running task its delay.
LEMMA BlockJoins ==
    ASSUME NEW s, NEW t, NEW n, NEW forever, NEW E, NEW a, MayBlock(s, t, n, forever, E, a)
    PROVE  Joins(prvAddCurrentTaskToDelayedList(a, n, forever), s, t, E, n, forever)
  <1>. DEFINE r == prvAddCurrentTaskToDelayedList(a, n, forever)
              lag == s.xPendedTicks
  <1>0. /\ KernelOK(s) /\ t = s.pxCurrentTCB /\ t \in Tasks /\ IsReady(s, t)
        /\ n \in 1..portMAX_DELAY /\ forever \in BOOLEAN
        /\ a \in Kernel /\ SameReady(a, s) /\ SameDelayed(a, s) /\ SameRest(a, s)
        /\ a.xSuspendedTaskList = s.xSuspendedTaskList /\ a.xYieldPending = s.xYieldPending
        /\ Pnd(a) = Pnd(s) /\ WaitsToo(a, s, t, E)
    BY DEF MayBlock
  <1>1. s \in Kernel /\ ListsOK(s) /\ TimesOK(s) /\ lag \in Nat
    BY <1>0 DEF KernelOK, Kernel
  <1>2. SameEvents(r, a)
    <2>1. a.pxCurrentTCB \in Tasks /\ n \in 0..portMAX_DELAY
      BY <1>0 DEF SameRest
    <2>. QED BY <1>0, <2>1, AddCurrentFacts
  <1>. HIDE DEF r
  <1>3. \A e \in Events : Wts(r, e) = IF e \in E THEN Wts(s, e) \cup {t} ELSE Wts(s, e)
    BY <1>0, <1>2 DEF SameEvents, Wts, WaitsToo
  <1>4. \A h, l : Blocks(s, l, h, lag, t, n, forever, E, a) => LeftOK(r, h, lag) /\ SameRest(r, s)
    BY BlockFacts DEF r
  <1>5. ASSUME NEW l \in Delays0(s)
        PROVE  SameRest(r, s) /\ \E h \in Delays0(r) : Blocked(h, l, t, n, forever, lag)
    <2>. DEFINE h == [u \in Threads |-> IF u # t THEN l[u]
                          ELSE IF n = portMAX_DELAY /\ forever THEN 0 ELSE LeftOf(n, lag)]
    <2>1. l \in [Threads -> Nat] /\ LeftOK(s, l, lag)
      BY DEF Delays0
    <2>2. LeftOf(n, lag) \in Nat
      <3>1. portMAX_DELAY \in Nat
        BY BoundsAssumption DEF portMAX_DELAY
      <3>. QED BY <1>0, <1>1, <3>1 DEF LeftOf
    <2>3. h \in [Threads -> Nat] /\ Blocked(h, l, t, n, forever, lag)
      <3>. HIDE DEF lag
      <3>1. h \in [Threads -> Nat]
        BY <2>1, <2>2
      <3>2. Blocked(h, l, t, n, forever, lag)
        BY DEF Blocked
      <3>. QED BY <3>1, <3>2
    <2>. HIDE DEF h
    <2>4. Blocks(s, l, h, lag, t, n, forever, E, a)
      BY <1>0, <1>1, <2>1, <2>3 DEF Blocks
    <2>5. LeftOK(r, h, lag) /\ SameRest(r, s)
      BY <1>4, <2>4
    <2>6. h \in Delays0(r)
      BY <2>3, <2>5 DEF Delays0, SameRest
    <2>. QED BY <2>3, <2>5, <2>6
  <1>6. SameRest(r, s)
    <2>1. PICK l \in Delays0(s) : TRUE
      BY <1>0 DEF KernelOK, Delays0
    <2>. QED BY <1>5, <2>1
  <1>7. Joins(r, s, t, E, n, forever)
    BY <1>3, <1>5, <1>6 DEF Joins, SameRest, SameClock
  <1>. QED BY <1>7 DEF r

\* vTaskPlaceOnEventList gives the running task its place and its delay.
LEMMA PlaceJoins ==
    ASSUME NEW s, KernelOK(s), s.pxCurrentTCB \in Tasks, IsReady(s, s.pxCurrentTCB),
           NEW e \in Events, NEW n \in 1..portMAX_DELAY
    PROVE  Joins(vTaskPlaceOnEventList(s, e, n), s, s.pxCurrentTCB, {e}, n, TRUE)
  <1>. DEFINE c == s.pxCurrentTCB
  <1>1. PICK a : /\ vTaskPlaceOnEventList(s, e, n) = prvAddCurrentTaskToDelayedList(a, n, TRUE)
                 /\ MayBlock(s, c, n, TRUE, {e}, a)
    BY PlaceBlocks
  <1>. HIDE DEF c
  <1>2. Joins(prvAddCurrentTaskToDelayedList(a, n, TRUE), s, c, {e}, n, TRUE)
    BY <1>1, BlockJoins
  <1>. QED BY <1>1, <1>2 DEF c

\* vTaskDelay gives the running task its delay.
LEMMA DelayJoins ==
    ASSUME NEW s, KernelOK(s), s.pxCurrentTCB \in Tasks, IsReady(s, s.pxCurrentTCB),
           NEW n \in 1..portMAX_DELAY
    PROVE  Joins(prvAddCurrentTaskToDelayedList(s, n, FALSE), s, s.pxCurrentTCB, {}, n, FALSE)
  <1>1. s \in Kernel
    BY DEF KernelOK
  <1>2. SameReady(s, s) /\ SameDelayed(s, s) /\ SameRest(s, s)
        /\ WaitsToo(s, s, s.pxCurrentTCB, {})
    BY DEF SameReady, SameDelayed, SameRest, WaitsToo
  <1>. DEFINE c == s.pxCurrentTCB
  <1>3. MayBlock(s, c, n, FALSE, {}, s)
    BY <1>1, <1>2 DEF MayBlock
  <1>. HIDE DEF c
  <1>4. Joins(prvAddCurrentTaskToDelayedList(s, n, FALSE), s, c, {}, n, FALSE)
    BY <1>3, BlockJoins
  <1>. QED BY <1>4 DEF c

\* vTaskSuspendAll only counts.
LEMMA SuspendGentle ==
    ASSUME NEW s, KernelOK(s), s.uxSchedulerSuspended = 0
    PROVE  Gentle([s EXCEPT !.uxSchedulerSuspended = @ + 1], s)
  <1>. DEFINE b == s.xPendedTicks
              c == s.uxSchedulerSuspended + 1
              n == SetCounts(s, c, b)
  <1>1. s \in Kernel /\ b \in Nat /\ c \in Nat
    BY DEF KernelOK, Kernel
  <1>2. [s EXCEPT !.uxSchedulerSuspended = @ + 1] = n
    <2>1. \A i : [s EXCEPT !.uxSchedulerSuspended = i] = SetCounts(s, i, b)
      BY <1>1 DEF SetCounts, Kernel
    <2>. QED BY <2>1, Zenon
  <1>. HIDE DEF c
  <1>3. n.xPendedTicks = b /\ SamePlaces(n, s)
    <2>. HIDE DEF b
    <2>. QED BY <1>1, SetCountsFacts
  <1>. HIDE DEF n
  <1>4. n.uxPriority = s.uxPriority /\ SameClock(n, s) /\ Fewer(n, s)
    BY <1>3 DEF SamePlaces, SameClock, Fewer
  <1>5. Shortens(n, s)
    BY <1>3, SamePlacesFacts DEF Shortens, Delays0, NoLonger
  <1>6. Gentle(n, s)
    BY <1>4, <1>5 DEF Gentle
  <1>. QED BY <1>2, <1>6

\* The end of a handler only chooses who runs.
LEMMA HandlerGentle ==
    ASSUME NEW m, KernelOK(m), NEW sw, HandlerEnd(m, sw)
    PROVE  Gentle(k', m)
  <1>1. k' = m \/ k' = vTaskSwitchContext(m)
    BY DEF HandlerEnd
  <1>. QED BY <1>1, GentleSame, SwitchGentle
==============================================================================
