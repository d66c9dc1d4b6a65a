------------------------------- MODULE Folding -------------------------------
(***************************************************************************)
(* FoldLeft of the community modules, one item at a time. It is defined by *)
(* MapThenFoldSet, which chooses a function on sets of positions;          *)
(* FoldSteps gives the proofs about a loop the states it goes through. Op, *)
(* K and D are the body of the loop, its states and the items it goes      *)
(* over; a module that has a loop makes an instance of this one. Every     *)
(* instance holds a copy of all that this module extends: FoldLeft and Max *)
(* are therefore written out as SequencesExt and FiniteSetsExt have them,  *)
(* and induction over the natural numbers (Induct of Scheduler_lemmas) is  *)
(* a hypothesis here, so that no library of theorems comes along.          *)
(***************************************************************************)
EXTENDS Integers, Sequences, Folds

CONSTANTS Op(_, _), K, D

Max(S) == CHOOSE x \in S : \A y \in S : x >= y

FoldLeft(op(_, _), base, seq) ==
  MapThenFoldSet(LAMBDA x, y : op(y, x), base, LAMBDA i : seq[i], LAMBDA S : Max(S), DOMAIN seq)

\* Max of a non-empty finite set of numbers is its greatest element: the
\* order in which MapThenFoldSet of the community modules takes the
\* positions of a sequence.
LEMMA GreatestNumber ==
  ASSUME \A S : 0 \in S /\ (\A m \in Nat : m \in S => m + 1 \in S) => Nat \subseteq S,
         NEW n \in Nat, NEW S \in SUBSET (0..n), S # {}
  PROVE  Max(S) \in S /\ \A i \in S : i <= Max(S)
<1> DEFINE Q == {m \in Nat : \A T \in SUBSET (0..m) :
                   T # {} => \E x \in T : \A i \in T : x >= i}
<1>1. 0 \in Q
  <2>1. 0..0 = {0}
    OBVIOUS
  <2>2. ASSUME NEW T \in SUBSET {0}, T # {} PROVE \E x \in T : \A i \in T : x >= i
    <3>1. T = {0}
      BY <2>2
    <3> QED BY <3>1
  <2> QED BY <2>1, <2>2
<1>2. ASSUME NEW m \in Nat, m \in Q PROVE m + 1 \in Q
  <2> SUFFICES ASSUME NEW T \in SUBSET (0..(m + 1)), T # {}
               PROVE  \E x \in T : \A i \in T : x >= i
    OBVIOUS
  <2>1. CASE m + 1 \in T
    BY <2>1
  <2>2. CASE m + 1 \notin T
    <3>1. T \in SUBSET (0..m)
      BY <2>2
    <3> QED BY <3>1, <1>2
  <2> QED BY <2>1, <2>2
<1>3. Nat \subseteq Q
  <2> HIDE DEF Q
  <2> QED BY <1>1, <1>2
<1>4. \E x \in S : \A i \in S : x >= i
  BY <1>3
<1>5. Max(S) \in S /\ \A i \in S : Max(S) >= i
  BY <1>4 DEF Max
<1>6. \A i \in S : i \in 0..n
  OBVIOUS
<1> QED BY <1>5, <1>6

\* h is what a fold over the positions in every set s gives
IsFoldTable(h, f, b, seq) ==
  \A s \in SUBSET (1..Len(seq)) :
    h[s] = IF s = {} THEN b ELSE f[h[s \ {Max(s)}]][seq[Max(s)]]

\* The table that MapThenFoldSet chooses for f, b and seq exists.
LEMMA FoldExists ==
  ASSUME \A S : 0 \in S /\ (\A m \in Nat : m \in S => m + 1 \in S) => Nat \subseteq S,
         NEW f \in [K -> [D -> K]], NEW b \in K, NEW seq \in Seq(D)
  PROVE  \E h \in [SUBSET (1..Len(seq)) -> K] : IsFoldTable(h, f, b, seq)
<1> DEFINE F(h, n) == \A s \in SUBSET (1..n) :
                        h[s] = IF s = {} THEN b ELSE f[h[s \ {Max(s)}]][seq[Max(s)]]
           E(n) == \E h \in [SUBSET (1..n) -> K] : F(h, n)
           Q == {n \in Nat : n <= Len(seq) => E(n)}
<1>1. 0 \in Q
  <2> DEFINE h == [s \in SUBSET (1..0) |-> b]
  <2>1. \A s \in SUBSET (1..0) : s = {}
    OBVIOUS
  <2>2. h \in [SUBSET (1..0) -> K] /\ F(h, 0)
    BY <2>1
  <2> HIDE DEF h, F
  <2>3. E(0)
    BY <2>2
  <2> HIDE DEF E
  <2> QED BY <2>3
<1>2. ASSUME NEW n \in Nat, n \in Q PROVE n + 1 \in Q
  <2> SUFFICES ASSUME n + 1 <= Len(seq) PROVE E(n + 1)
    <3> HIDE DEF E
    <3> QED OBVIOUS
  <2>0. E(n)
    <3> HIDE DEF E
    <3> QED BY <1>2
  <2>1. PICK h \in [SUBSET (1..n) -> K] : F(h, n)
    BY <2>0
  <2> DEFINE g(s) == IF s \subseteq 1..n THEN h[s] ELSE f[h[s \ {n + 1}]][seq[n + 1]]
             H == [s \in SUBSET (1..(n + 1)) |-> g(s)]
  <2>2. ASSUME NEW s \in SUBSET (1..(n + 1))
        PROVE  g(s) \in K
    <3>1. s \ {n + 1} \in SUBSET (1..n) OBVIOUS
    <3>2. h[s \ {n + 1}] \in K BY <3>1
    <3>3. seq[n + 1] \in D OBVIOUS
    <3>4. f[h[s \ {n + 1}]] \in [D -> K] BY <3>2
    <3>5. f[h[s \ {n + 1}]][seq[n + 1]] \in K BY <3>4, <3>3
    <3> QED BY <3>5
  <2>3. H \in [SUBSET (1..(n + 1)) -> K]
    BY <2>2
  <2>4. ASSUME NEW s \in SUBSET (1..(n + 1))
        PROVE  H[s] = IF s = {} THEN b ELSE f[H[s \ {Max(s)}]][seq[Max(s)]]
    <3>1. CASE s \subseteq 1..n
      <4>1. H[s] = h[s] /\ H[s \ {Max(s)}] = h[s \ {Max(s)}]
        BY <3>1
      <4>2. h[s] = IF s = {} THEN b ELSE f[h[s \ {Max(s)}]][seq[Max(s)]]
        BY <2>1, <3>1
      <4> HIDE DEF H
      <4> QED BY <4>1, <4>2
    <3>2. CASE ~(s \subseteq 1..n)
      <4>1. n + 1 \in s /\ \A i \in s : i <= n + 1 /\ i \in Int
        BY <3>2
      <4>2. Max(s) = n + 1
        <5>1. \A x \in s : (\A y \in s : x >= y) => x = n + 1
          BY <4>1
        <5>2. \A y \in s : n + 1 >= y
          BY <4>1
        <5> QED BY <4>1, <5>1, <5>2 DEF Max
      <4>3. s \ {n + 1} \in SUBSET (1..n)
        OBVIOUS
      <4>4. H[s \ {n + 1}] = h[s \ {n + 1}] BY <4>3
      <4>5. H[s] = f[h[s \ {n + 1}]][seq[n + 1]] BY <3>2
      <4> HIDE DEF H
      <4> QED BY <4>1, <4>2, <4>4, <4>5
    <3> QED BY <3>1, <3>2
  <2> HIDE DEF H
  <2> QED BY <2>3, <2>4
<1>3. Nat \subseteq Q
  <2> HIDE DEF Q
  <2> QED BY <1>1, <1>2
<1>4. Len(seq) \in Q
  <2> HIDE DEF Q
  <2> QED BY <1>3
<1>5. E(Len(seq))
  <2> HIDE DEF E
  <2> QED BY <1>4
<1> QED BY <1>5 DEF IsFoldTable

\* FoldLeft(Op, b, seq) is the last of the states g[0], g[1], ... that Op
\* goes through over the items of seq: the loops of tasks.c that the model
\* writes as folds (prvAddTaskToReadyList over the tasks main() creates,
\* the items due in xTaskIncrementTick, xPendingReadyList and the pended
\* ticks in xTaskResumeAll).
THEOREM FoldSteps ==
  ASSUME \A S : 0 \in S /\ (\A m \in Nat : m \in S => m + 1 \in S) => Nat \subseteq S,
         NEW b \in K, NEW seq \in Seq(D), \A x \in K, d \in D : Op(x, d) \in K
  PROVE  \E g \in [0..Len(seq) -> K] :
            /\ g[0] = b
            /\ \A i \in 1..Len(seq) : g[i] = Op(g[i - 1], seq[i])
            /\ FoldLeft(Op, b, seq) = g[Len(seq)]
<1> DEFINE n == Len(seq)
           f == [x \in K |-> [d \in D |-> Op(x, d)]]
<1>1. f \in [K -> [D -> K]]
  OBVIOUS
<1>2. \A x \in K, d \in D : f[x][d] = Op(x, d)
  OBVIOUS
<1> HIDE DEF f
<1>3. PICK h \in [SUBSET (1..Len(seq)) -> K] : IsFoldTable(h, f, b, seq)
  <2> HIDE DEF n
  <2> QED BY <1>1, FoldExists
<1>4. ASSUME NEW s \in SUBSET (1..n), s # {}, Max(s) \in 1..n
      PROVE  f[h[s \ {Max(s)}]][seq[Max(s)]] = Op(h[s \ {Max(s)}], seq[Max(s)])
  <2>1. h[s \ {Max(s)}] \in K
    BY <1>3
  <2>2. seq[Max(s)] \in D
    BY <1>4
  <2> QED BY <2>1, <2>2, <1>2
<1>5. \A s \in SUBSET (1..n) : s # {} => Max(s) \in 1..n
  <2>1. n \in Nat
    OBVIOUS
  <2> HIDE DEF n
  <2> TAKE s \in SUBSET (1..n)
  <2>2. s \in SUBSET (0..n)
    BY <2>1
  <2>3. s # {} => Max(s) \in s
    BY <2>1, <2>2, GreatestNumber
  <2> QED BY <2>3
<1>6. \A s \in SUBSET (1..n) : h[s] = IF s = {} THEN b ELSE Op(h[s \ {Max(s)}], seq[Max(s)])
  BY <1>3, <1>4, <1>5 DEF IsFoldTable
<1> DEFINE G(it) == it = [s \in SUBSET (1..n) |-> IF s = {} THEN b ELSE Op(it[s \ {Max(s)}], seq[Max(s)])]
           it == CHOOSE it : G(it)
<1>7. G(h)
  BY <1>6
<1>8. G(it)
  <2> HIDE DEF G
  <2> QED BY <1>7
<1>9. FoldLeft(Op, b, seq) = it[1..n]
  <2>1. DOMAIN seq = 1..n OBVIOUS
  <2> QED BY <2>1 DEF FoldLeft, MapThenFoldSet
<1> DEFINE g == [i \in 0..n |-> it[1..i]]
<1> HIDE DEF it
<1>10. g[0] = b
  <2>1. 1..0 = {} OBVIOUS
  <2> QED BY <2>1, <1>8
<1>11. ASSUME NEW i \in 1..n PROVE g[i] = Op(g[i - 1], seq[i])
  <2>0. n \in Nat /\ i \in Nat /\ i <= n /\ i >= 1
    OBVIOUS
  <2> HIDE DEF n
  <2>1. 1..i \in SUBSET (1..n) /\ 1..i \in SUBSET (0..n) /\ i \in 1..i /\ \A j \in 1..i : j <= i
    BY <2>0
  <2>2. Max(1..i) = i
    <3>1. Max(1..i) \in 1..i /\ i <= Max(1..i)
      BY <2>0, <2>1, GreatestNumber
    <3> QED BY <3>1, <2>0
  <2>3. (1..i) \ {i} = 1..(i - 1)
    OBVIOUS
  <2>4. it[1..i] = Op(it[1..(i - 1)], seq[i])
    BY <1>8, <2>1, <2>2, <2>3
  <2>5. i \in 0..n /\ i - 1 \in 0..n
    BY <2>0
  <2>6. g[i] = it[1..i] /\ g[i - 1] = it[1..(i - 1)]
    BY <2>5
  <2> QED BY <2>4, <2>6
<1>12. g \in [0..n -> K]
  <2> DEFINE Q == {i \in Nat : i <= n => g[i] \in K}
  <2>1. 0 \in Q
    BY <1>10
  <2>2. ASSUME NEW i \in Nat, i \in Q PROVE i + 1 \in Q
    <3> HIDE DEF g
    <3> SUFFICES ASSUME i + 1 <= n PROVE g[i + 1] \in K
      OBVIOUS
    <3>1. g[i] \in K /\ seq[i + 1] \in D
      BY <2>2
    <3>2. g[i + 1] = Op(g[i], seq[i + 1])
      BY <1>11
    <3> QED BY <3>1, <3>2
  <2>3. Nat \subseteq Q
    <3> HIDE DEF Q
    <3> QED BY <2>1, <2>2
  <2>4. ASSUME NEW i \in 0..n PROVE g[i] \in K
    <3>1. i \in Nat /\ i <= n
      OBVIOUS
    <3>2. i \in Q
      <4> HIDE DEF Q
      <4> QED BY <2>3, <3>1
    <3> QED BY <3>1, <3>2
  <2> QED BY <2>4
<1>13. g[n] = it[1..n]
  OBVIOUS
<1> HIDE DEF g
<1> QED BY <1>9, <1>10, <1>11, <1>12, <1>13
=============================================================================
