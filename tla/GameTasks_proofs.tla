-------------------------- MODULE GameTasks_proofs --------------------------
(***************************************************************************)
(* Two properties of the game and its tasks, for every field, every order  *)
(* of the pieces, all buttons and every period of the tasks: the game is   *)
(* sound (GameSound) and the screen shows it (FrameShown).  Nothing is     *)
(* assumed of the kernel but what a mutex is: the proof does not look at   *)
(* who runs, so it holds whatever the priorities are.                      *)
(***************************************************************************)
EXTENDS GameTasks, TLAPS

-----------------------------------------------------------------------------
(***************************************************************************)
(* The pieces.  Why can a rotation not lift a piece over the wall, or out  *)
(* of the field, where xPieceFits does not look?  Because before and after *)
(* a rotation a piece fills a common row and a common column of its box,   *)
(* and because it leaves none out between two that it fills (Connected).   *)
(***************************************************************************)
\* the cells of a piece's box that it fills in a rotation
Box(kind, r) == {b \in (0..3) \X (0..3) : ucRotate(b[1], b[2], r) \in ucTetrominoes[kind]}

\* a piece that is rotated keeps a row and a column, and leaves no row and no column out
\* between two of its own
Connected(A, B) ==
    /\ \E b \in A, c \in B : b[2] = c[2]
    /\ \E b \in A, c \in B : b[1] = c[1]
    /\ \A b, c \in B, i \in 0..3 : b[2] < i /\ i < c[2] => \E e \in B : e[2] = i
    /\ \A b, c \in B, i \in 0..3 : b[1] < i /\ i < c[1] => \E e \in B : e[1] = i

Quarter(x, y, r) ==
    IF r = 0 THEN y * 4 + x ELSE IF r = 1 THEN 12 + y - x * 4
    ELSE IF r = 2 THEN 15 - y * 4 - x ELSE 3 - y + x * 4

LEMMA Rotate ==
    ASSUME NEW r \in 0..3
    PROVE  /\ \A x, y : ucRotate(x, y, r) = Quarter(x, y, r)
           /\ \A x, y : ucRotate(x, y, r + 1) = Quarter(x, y, IF r = 3 THEN 0 ELSE r + 1)
  BY DEF ucRotate, Quarter


LEMMA Kinds ==
    /\ ucTetrominoes[1] = {0, 1, 2, 3} /\ ucTetrominoes[2] = {2, 5, 6, 10}
    /\ ucTetrominoes[3] = {5, 6, 9, 10} /\ ucTetrominoes[4] = {2, 5, 6, 9}
    /\ ucTetrominoes[5] = {1, 5, 6, 10} /\ ucTetrominoes[6] = {1, 5, 9, 10}
    /\ ucTetrominoes[7] = {2, 6, 9, 10}
  BY DEF ucTetrominoes

LEMMA Bar ==
    ASSUME NEW r \in 0..3, NEW x \in 0..3, NEW y \in 0..3
    PROVE  Quarter(x, y, r) \in {0, 1, 2, 3} <=>
             IF r = 0 THEN y = 0 ELSE IF r = 1 THEN x = 3 ELSE IF r = 2 THEN y = 3 ELSE x = 0
  BY DEF Quarter

\* every other piece fills both middle rows and both middle columns, and three cells at most
\* in a line
LEMMA Others ==
    ASSUME NEW r \in 0..3, NEW kind \in 2..7
    PROVE  /\ \A i \in {1, 2} : \E x \in 0..3 : Quarter(x, i, r) \in ucTetrominoes[kind]
           /\ \A i \in {1, 2} : \E y \in 0..3 : Quarter(i, y, r) \in ucTetrominoes[kind]
  BY Kinds DEF Quarter

LEMMA BoxIs ==
    ASSUME NEW r \in 0..3, NEW kind
    PROVE  /\ Box(kind, r) = {b \in (0..3) \X (0..3) : Quarter(b[1], b[2], r) \in ucTetrominoes[kind]}
           /\ Box(kind, r + 1) = Box(kind, IF r = 3 THEN 0 ELSE r + 1)
  <1>1. \A x, y : ucRotate(x, y, r) = Quarter(x, y, r)
    BY Rotate
  <1>. DEFINE n == IF r = 3 THEN 0 ELSE r + 1
  <1>2. n \in 0..3
    OBVIOUS
  <1>3. \A x, y : ucRotate(x, y, r + 1) = Quarter(x, y, n)
    BY Rotate
  <1>. HIDE DEF n
  <1>4. \A x, y : ucRotate(x, y, n) = Quarter(x, y, n)
    BY <1>2, Rotate
  <1>5. Box(kind, r) = {b \in (0..3) \X (0..3) : Quarter(b[1], b[2], r) \in ucTetrominoes[kind]}
    BY <1>1 DEF Box
  <1>6. Box(kind, r + 1) = Box(kind, n)
    BY <1>3, <1>4 DEF Box
  <1>. QED BY <1>5, <1>6 DEF n

LEMMA BarRotates ==
    ASSUME NEW r \in 0..3
    PROVE  Connected(Box(1, r), Box(1, r + 1))
  <1>. DEFINE n == IF r = 3 THEN 0 ELSE r + 1
              In(p, x, y) == IF p = 0 THEN y = 0 ELSE IF p = 1 THEN x = 3
                             ELSE IF p = 2 THEN y = 3 ELSE x = 0
  <1>1. n \in 0..3
    OBVIOUS
  <1>2. ASSUME NEW p \in 0..3
        PROVE  Box(1, p) = {b \in (0..3) \X (0..3) : In(p, b[1], b[2])}
    BY <1>2, BoxIs, Bar, Kinds
  <1>3. Box(1, r + 1) = Box(1, n)
    BY BoxIs
  <1>4. Box(1, r) = {b \in (0..3) \X (0..3) : In(r, b[1], b[2])}
    BY <1>2
  <1>5. Box(1, n) = {b \in (0..3) \X (0..3) : In(n, b[1], b[2])}
    BY <1>1, <1>2
  <1>6. \A x, y \in 0..3 : /\ <<x, y>> \in Box(1, r) <=> In(r, x, y)
                          /\ <<x, y>> \in Box(1, n) <=> In(n, x, y)
    BY <1>4, <1>5
  <1>. DEFINE A == Box(1, r)  B == Box(1, n)
  <1>7. A \subseteq (0..3) \X (0..3) /\ B \subseteq (0..3) \X (0..3)
    BY <1>4, <1>5
  <1>8. \A x, y \in 0..3 : /\ <<x, y>> \in A <=> In(r, x, y)
                          /\ <<x, y>> \in B <=> In(n, x, y)
    BY <1>6
  <1>10. \A b \in B : b[1] \in 0..3 /\ b[2] \in 0..3 /\ In(n, b[1], b[2])
    BY <1>5
  <1>. HIDE DEF A, B
  <1>9. Connected(A, B)
    <2>1. (\E b \in A, c \in B : b[2] = c[2]) /\ (\E b \in A, c \in B : b[1] = c[1])
      <3>1. CASE r = 0
        <4>1. <<3, 0>> \in A /\ <<3, 0>> \in B
          BY <1>8, <3>1
        <4>. QED BY <4>1
      <3>2. CASE r = 1
        <4>1. <<3, 3>> \in A /\ <<3, 3>> \in B
          BY <1>8, <3>2
        <4>. QED BY <4>1
      <3>3. CASE r = 2
        <4>1. <<0, 3>> \in A /\ <<0, 3>> \in B
          BY <1>8, <3>3
        <4>. QED BY <4>1
      <3>4. CASE r = 3
        <4>1. <<0, 0>> \in A /\ <<0, 0>> \in B
          BY <1>8, <3>4
        <4>. QED BY <4>1
      <3>. QED BY <3>1, <3>2, <3>3, <3>4
    <2>2. ASSUME NEW b \in B, NEW c \in B, NEW i \in 0..3, b[2] < i /\ i < c[2]
          PROVE  \E e \in B : e[2] = i
      <3>1. <<b[1], i>> \in B
        <4>1. b[1] \in 0..3 /\ c[1] \in 0..3 /\ In(n, b[1], b[2]) /\ In(n, c[1], c[2])
              /\ b[2] \in 0..3 /\ c[2] \in 0..3
          BY <1>10
        <4>2. In(n, b[1], i)
          BY <1>1, <2>2, <4>1
        <4>. QED BY <1>8, <4>1, <4>2
      <3>. QED BY <3>1
    <2>3. ASSUME NEW b \in B, NEW c \in B, NEW i \in 0..3, b[1] < i /\ i < c[1]
          PROVE  \E e \in B : e[1] = i
      <3>1. <<i, b[2]>> \in B
        <4>1. b[2] \in 0..3 /\ c[2] \in 0..3 /\ In(n, b[1], b[2]) /\ In(n, c[1], c[2])
              /\ b[1] \in 0..3 /\ c[1] \in 0..3
          BY <1>10
        <4>2. In(n, i, b[2])
          BY <1>1, <2>3, <4>1
        <4>. QED BY <1>8, <4>1, <4>2
      <3>. QED BY <3>1
    <2>. QED BY <2>1, <2>2, <2>3 DEF Connected
  <1>. QED BY <1>3, <1>9 DEF A, B

LEMMA PiecesConnected ==
    ASSUME NEW kind \in 1..7, NEW r \in 0..3
    PROVE  Connected(Box(kind, r), Box(kind, r + 1))
  <1>1. CASE kind = 1
    BY <1>1, BarRotates
  <1>2. CASE kind \in 2..7
    <2>. DEFINE n == IF r = 3 THEN 0 ELSE r + 1
                A == Box(kind, r)
                B == Box(kind, n)
    <2>1. n \in 0..3
      OBVIOUS
    <2>2. ASSUME NEW p \in 0..3
          PROVE  /\ Box(kind, p) \subseteq (0..3) \X (0..3)
                 /\ \A i \in {1, 2} : (\E b \in Box(kind, p) : b[2] = i) /\ \E b \in Box(kind, p) : b[1] = i
      <3>1. Box(kind, p) = {b \in (0..3) \X (0..3) : Quarter(b[1], b[2], p) \in ucTetrominoes[kind]}
        BY BoxIs
      <3>2. ASSUME NEW i \in {1, 2}
            PROVE  (\E b \in Box(kind, p) : b[2] = i) /\ \E b \in Box(kind, p) : b[1] = i
        <4>1. PICK x \in 0..3 : Quarter(x, i, p) \in ucTetrominoes[kind]
          BY <1>2, Others
        <4>2. PICK y \in 0..3 : Quarter(i, y, p) \in ucTetrominoes[kind]
          BY <1>2, Others
        <4>3. <<x, i>> \in Box(kind, p) /\ <<i, y>> \in Box(kind, p)
          BY <3>1, <4>1, <4>2
        <4>. QED BY <4>3
      <3>. QED BY <3>1, <3>2
    <2>3. /\ A \subseteq (0..3) \X (0..3)
          /\ \A i \in {1, 2} : (\E b \in A : b[2] = i) /\ \E b \in A : b[1] = i
      BY <2>2
    <2>4. /\ B \subseteq (0..3) \X (0..3)
          /\ \A i \in {1, 2} : (\E b \in B : b[2] = i) /\ \E b \in B : b[1] = i
      BY <2>1, <2>2
    <2>. HIDE DEF A, B
    <2>5. Connected(A, B)
      <3>1. (\E b \in A, c \in B : b[2] = c[2]) /\ (\E b \in A, c \in B : b[1] = c[1])
        BY <2>3, <2>4
      <3>2. ASSUME NEW b \in B, NEW c \in B, NEW i \in 0..3
            PROVE  /\ b[2] < i /\ i < c[2] => i \in {1, 2}
                   /\ b[1] < i /\ i < c[1] => i \in {1, 2}
        BY <2>4
      <3>. QED BY <2>4, <3>1, <3>2 DEF Connected
    <2>6. Box(kind, r + 1) = B
      BY BoxIs DEF B
    <2>. QED BY <2>5, <2>6 DEF A
  <1>. QED BY <1>1, <1>2

-----------------------------------------------------------------------------
(***************************************************************************)
(* The field.  A piece that Lies in it is clear of the borders and on its  *)
(* side of the wall.                                                       *)
(***************************************************************************)
\* the wall is the columns Mid and Mid + 1
Mid == WIDTH \div 2 - 1
Cols == 0..(WIDTH - 1)
Border(x, y) == y = 0 \/ y >= HEIGHT - BottomRows \/ x = Mid \/ x = Mid + 1
OnSide(side, x) == IF side = 0 THEN x < Mid ELSE x > Mid + 1

\* the walls of a field, and no line in it
Standing(f) ==
    /\ DOMAIN f = Field
    /\ \A x \in Cols, y \in 0..(HEIGHT - 1) : f[<<x, y>>] = Wall <=> Border(x, y)
NoLine(f) == \A x \in Cols : \E y \in PlayRows : f[<<x, y>>] # Block

\* a piece that fills the cells A of its box lies in the field f
IsBox(A) == A \subseteq (0..3) \X (0..3) /\ A # {}
FitsIn(f, A, px, py) ==
    \A b \in A : <<px + b[1], py + b[2]>> \in Field => f[<<px + b[1], py + b[2]>>] = Empty
Lies(f, A, px, py, side) ==
    /\ px \in 0..(WIDTH - 4) /\ py \in Nat
    /\ \A b \in A : /\ py + b[2] \in PlayRows /\ OnSide(side, px + b[1])
                    /\ f[<<px + b[1], py + b[2]>>] = Empty

LEMMA Sizes ==
    /\ WIDTH \in Int /\ HEIGHT \in Int /\ BottomRows \in Int /\ Mid \in Int
    /\ WIDTH >= 10 /\ Mid >= 4 /\ Mid + 6 <= WIDTH
    /\ BottomRows >= 1 /\ HEIGHT - BottomRows >= 5 /\ Wall # Empty /\ Wall # Block
    /\ PlayRows = 1..(HEIGHT - BottomRows - 1)
  BY GameAssumption DEF GameAssumption, Mid, Wall, Empty, Block, PlayRows

LEMMA Middle == Mid + 1 = WIDTH \div 2
  BY GameAssumption DEF GameAssumption, Mid

LEMMA InField ==
    ASSUME NEW x, NEW y
    PROVE  <<x, y>> \in Field <=> x \in Cols /\ y \in 0..(HEIGHT - 1)
  BY DEF Field, Cols

\* A field at the start of a life: the walls, and nothing else.
LEMMA FieldAtFirst == Standing(prvFieldInit) /\ NoLine(prvFieldInit)
  <1>1. \A x \in Cols, y \in 0..(HEIGHT - 1) :
            prvFieldInit[<<x, y>>] = IF Border(x, y) THEN Wall ELSE Empty
    <2>. TAKE x \in Cols, y \in 0..(HEIGHT - 1)
    <2>1. <<x, y>> \in Field
      BY InField
    <2>2. prvFieldInit[<<x, y>>] = IF y = 0 \/ y >= HEIGHT - BottomRows
                                      \/ x + 1 = WIDTH \div 2 \/ x = WIDTH \div 2
                                   THEN Wall ELSE Empty
      BY <2>1 DEF prvFieldInit
    <2>3. x \in Int
      BY Sizes DEF Cols
    <2>4. (x + 1 = WIDTH \div 2 <=> x = Mid) /\ (x = WIDTH \div 2 <=> x = Mid + 1)
      BY <2>3, Sizes, Middle
    <2>. QED BY <2>2, <2>4 DEF Border
  <1>2. Standing(prvFieldInit)
    BY <1>1, Sizes DEF Standing, prvFieldInit
  <1>3. NoLine(prvFieldInit)
    <2>. SUFFICES ASSUME NEW x \in Cols PROVE \E y \in PlayRows : prvFieldInit[<<x, y>>] # Block
      BY DEF NoLine
    <2>1. 1 \in PlayRows /\ 1 \in 0..(HEIGHT - 1)
      BY Sizes
    <2>2. prvFieldInit[<<x, 1>>] \in {Wall, Empty}
      BY <1>1, <2>1
    <2>. QED BY <2>1, <2>2 DEF Wall, Empty, Block
  <1>. QED BY <1>2, <1>3

\* A cell a piece may take is not in a wall.
LEMMA FreeCell ==
    ASSUME NEW f, Standing(f), NEW x \in Cols, NEW y \in 0..(HEIGHT - 1), f[<<x, y>>] = Empty
    PROVE  y \in PlayRows /\ x # Mid /\ x # Mid + 1
  <1>1. ~ Border(x, y)
    BY Sizes DEF Standing
  <1>. QED BY <1>1, Sizes DEF Border

\* A piece that fits one place further is still between the walls: they are too thick
\* to be passed in one step.
LEMMA Shifted ==
    ASSUME NEW f, Standing(f), NEW A, IsBox(A), NEW px, NEW py, NEW side \in {0, 1},
           Lies(f, A, px, py, side),
           NEW dx, NEW dy,
           \/ dx = 0 /\ dy \in {-1, 1}
           \/ dx = (IF side = 0 THEN 1 ELSE -1) /\ dy = 0,
           px + dx >= 0, py + dy >= 0, FitsIn(f, A, px + dx, py + dy)
    PROVE  Lies(f, A, px + dx, py + dy, side)
  <1>1. px \in Int /\ py \in Int /\ dx \in Int /\ dy \in Int /\ px >= 0 /\ px + 4 <= WIDTH /\ py >= 0
    BY Sizes DEF Lies
  <1>0. /\ (dx = 0 /\ dy \in {-1, 1}) \/ (dx \in {-1, 1} /\ dy = 0)
        /\ dx = 1 => side = 0
        /\ dx = -1 => side = 1
    <2>1. CASE side = 0
      BY <2>1
    <2>2. CASE side = 1
      BY <2>2
    <2>. QED BY <2>1, <2>2
  <1>2. ASSUME NEW b \in A
        PROVE  /\ py + dy + b[2] \in PlayRows /\ OnSide(side, px + dx + b[1])
               /\ f[<<px + dx + b[1], py + dy + b[2]>>] = Empty
    <2>1. b[1] \in 0..3 /\ b[2] \in 0..3
      BY DEF IsBox
    <2>2. py + b[2] \in PlayRows /\ OnSide(side, px + b[1])
      BY DEF Lies
    <2>. DEFINE i == px + b[1]
                j == py + b[2]
                x == px + dx + b[1]
                y == py + dy + b[2]
    <2>7. i \in Int /\ j \in Int /\ x = i + dx /\ y = j + dy /\ OnSide(side, i)
          /\ 1 <= j /\ j <= HEIGHT - BottomRows - 1 /\ px <= i /\ i <= px + 3
          /\ x >= 0
      <3>1. PICK p \in 0..3, q \in 0..3 : p = b[1] /\ q = b[2]
        BY <2>1
      <3>2. i = px + p /\ j = py + q /\ x = px + dx + p /\ y = py + dy + q
        BY <3>1
      <3>3. j \in PlayRows /\ OnSide(side, i)
        BY <2>2
      <3>. HIDE DEF i, j, x, y
      <3>4. px + dx >= 0
        OBVIOUS
      <3>. QED BY <1>1, <3>2, <3>3, <3>4, Sizes
    <2>. HIDE DEF i, j, x, y
    <2>8. i \in Int /\ (side = 0 => i < Mid) /\ (side = 1 => i > Mid + 1) /\ i <= WIDTH - 1
      BY <1>1, <2>7, Sizes DEF OnSide
    <2>3. x \in Cols /\ y \in 0..(HEIGHT - 1)
      <3>1. CASE dx = 0 /\ dy \in {-1, 1}
        BY <1>1, <2>7, <2>8, <3>1, Sizes DEF Cols
      <3>2. CASE dx = 1 /\ dy = 0
        BY <1>0, <1>1, <2>7, <2>8, <3>2, Sizes DEF Cols
      <3>3. CASE dx = -1 /\ dy = 0
        BY <1>0, <1>1, <2>7, <2>8, <3>3, Sizes DEF Cols
      <3>. QED BY <1>0, <3>1, <3>2, <3>3
    <2>4. f[<<x, y>>] = Empty
      BY <2>3, InField DEF FitsIn, x, y
    <2>5. x # Mid /\ x # Mid + 1 /\ y \in PlayRows
      BY <2>3, <2>4, FreeCell
    <2>6. OnSide(side, x)
      <3>1. CASE dx = 0
        BY <2>7, <3>1
      <3>2. CASE dx = 1 /\ dy = 0
        BY <1>0, <1>1, <2>5, <2>7, <2>8, <3>2, Sizes DEF OnSide
      <3>3. CASE dx = -1 /\ dy = 0
        BY <1>0, <1>1, <2>5, <2>7, <2>8, <3>3, Sizes DEF OnSide
      <3>. QED BY <1>0, <3>1, <3>2, <3>3
    <2>9. f[<<px + dx + b[1], py + dy + b[2]>>] = Empty /\ py + dy + b[2] \in PlayRows
          /\ OnSide(side, px + dx + b[1])
      BY <2>4, <2>5, <2>6 DEF x, y
    <2>. QED BY <2>9
  <1>3. PICK b \in A : b \in (0..3) \X (0..3)
    BY DEF IsBox
  <1>4. px + dx + 4 <= WIDTH
    <2>1. OnSide(side, px + dx + b[1]) /\ b[1] \in 0..3
      BY <1>2, <1>3
    <2>. QED BY <1>1, <2>1, Sizes DEF OnSide
  <1>. QED BY <1>1, <1>2, <1>4, Sizes DEF Lies

\* A piece that fits when rotated is still between the walls: it keeps a row and a
\* column, and its cells leave no gap in which a wall could stand.
LEMMA Turned ==
    ASSUME NEW f, Standing(f), NEW A, IsBox(A), NEW B, IsBox(B), Connected(A, B),
           NEW px, NEW py, NEW side \in {0, 1},
           Lies(f, A, px, py, side), FitsIn(f, B, px, py)
    PROVE  Lies(f, B, px, py, side)
  <1>1. px \in Int /\ py \in Int /\ px >= 0 /\ px + 4 <= WIDTH /\ py >= 0
    BY Sizes DEF Lies
  <1>2. ASSUME NEW b \in A
        PROVE  b[1] \in 0..3 /\ b[2] \in 0..3 /\ py + b[2] \in PlayRows /\ OnSide(side, px + b[1])
    BY DEF Lies, IsBox
  <1>3. ASSUME NEW e \in B
        PROVE  /\ e[1] \in 0..3 /\ e[2] \in 0..3 /\ px + e[1] \in Cols
               /\ py + e[2] \in 0..(HEIGHT - 1) =>
                     /\ py + e[2] \in PlayRows /\ f[<<px + e[1], py + e[2]>>] = Empty
                     /\ px + e[1] # Mid /\ px + e[1] # Mid + 1
    <2>1. e[1] \in 0..3 /\ e[2] \in 0..3
      BY DEF IsBox
    <2>2. px + e[1] \in Cols
      BY <1>1, <2>1, Sizes DEF Cols
    <2>3. ASSUME py + e[2] \in 0..(HEIGHT - 1)
          PROVE  /\ py + e[2] \in PlayRows /\ f[<<px + e[1], py + e[2]>>] = Empty
                 /\ px + e[1] # Mid /\ px + e[1] # Mid + 1
      <3>1. f[<<px + e[1], py + e[2]>>] = Empty
        BY <2>2, <2>3, InField DEF FitsIn
      <3>. QED BY <2>2, <2>3, <3>1, FreeCell
    <2>. QED BY <2>1, <2>2, <2>3
  <1>4. ASSUME NEW e \in B
        PROVE  py + e[2] \in 0..(HEIGHT - 1)
    <2>1. PICK b \in A, c \in B : b[2] = c[2]
      BY DEF Connected
    <2>2. b[2] \in 0..3 /\ py + b[2] \in PlayRows
      BY <1>2
    <2>3. e[2] \in 0..3
      BY <1>3
    <2>4. CASE py + e[2] >= HEIGHT
      <3>. DEFINE i == HEIGHT - BottomRows - py
      <3>1. i \in 0..3 /\ c[2] < i /\ i < e[2]
        BY <1>1, <2>1, <2>2, <2>3, <2>4, Sizes
      <3>2. PICK w \in B : w[2] = i
        BY <3>1 DEF Connected
      <3>3. py + w[2] \in 0..(HEIGHT - 1) /\ py + w[2] \notin PlayRows
        BY <1>1, <3>1, <3>2, Sizes
      <3>. QED BY <1>3, <3>3
    <2>. QED BY <1>1, <2>3, <2>4, Sizes
  <1>5. ASSUME NEW e \in B
        PROVE  OnSide(side, px + e[1])
    <2>1. PICK b \in A, c \in B : b[1] = c[1]
      BY DEF Connected
    <2>2. b[1] \in 0..3 /\ OnSide(side, px + b[1])
      BY <1>2
    <2>3. e[1] \in 0..3 /\ px + e[1] # Mid /\ px + e[1] # Mid + 1
      BY <1>3, <1>4
    <2>4. CASE side = 0 /\ px + e[1] > Mid
      <3>. DEFINE i == Mid - px
      <3>1. i \in 0..3 /\ c[1] < i /\ i < e[1]
        BY <1>1, <2>1, <2>2, <2>3, <2>4, Sizes DEF OnSide
      <3>2. PICK w \in B : w[1] = i
        BY <3>1 DEF Connected
      <3>3. px + w[1] = Mid
        BY <1>1, <3>1, <3>2, Sizes
      <3>. QED BY <1>3, <1>4, <3>3
    <2>5. CASE side = 1 /\ px + e[1] < Mid
      <3>. DEFINE i == Mid - px
      <3>1. i \in 0..3 /\ e[1] < i /\ i < c[1]
        BY <1>1, <2>1, <2>2, <2>3, <2>5, Sizes DEF OnSide
      <3>2. PICK w \in B : w[1] = i
        BY <3>1 DEF Connected
      <3>3. px + w[1] = Mid
        BY <1>1, <3>1, <3>2, Sizes
      <3>. QED BY <1>3, <1>4, <3>3
    <2>. QED BY <1>1, <2>3, <2>4, <2>5, Sizes DEF OnSide
  <1>. QED BY <1>1, <1>3, <1>4, <1>5, Sizes DEF Lies

\* A new piece that fits is between the walls.
LEMMA Entered ==
    ASSUME NEW f, Standing(f), NEW A, IsBox(A), NEW px, NEW py, NEW side \in {0, 1},
           py \in PlayRows, py + 3 \in PlayRows, px = IF side = 0 THEN 0 ELSE WIDTH - 4,
           FitsIn(f, A, px, py)
    PROVE  Lies(f, A, px, py, side)
  <1>1. /\ px \in Int /\ px >= 0 /\ px + 4 <= WIDTH
        /\ py \in Int /\ 1 <= py /\ py + 3 <= HEIGHT - BottomRows - 1
    BY Sizes
  <1>2. ASSUME NEW b \in A
        PROVE  /\ py + b[2] \in PlayRows /\ OnSide(side, px + b[1])
               /\ f[<<px + b[1], py + b[2]>>] = Empty
    <2>1. b[1] \in 0..3 /\ b[2] \in 0..3
      BY DEF IsBox
    <2>2. py + b[2] \in PlayRows /\ py + b[2] \in 0..(HEIGHT - 1) /\ px + b[1] \in Cols
      <3>1. PICK i \in 0..3, j \in 0..3 : i = b[1] /\ j = b[2]
        BY <2>1
      <3>2. py + j \in PlayRows /\ py + j \in 0..(HEIGHT - 1)
        BY <1>1, Sizes
      <3>3. px + i \in Cols
        BY <1>1, Sizes DEF Cols
      <3>. QED BY <3>1, <3>2, <3>3
    <2>3. f[<<px + b[1], py + b[2]>>] = Empty
      BY <2>2, InField DEF FitsIn
    <2>4. px + b[1] # Mid /\ px + b[1] # Mid + 1
      BY <2>2, <2>3, FreeCell
    <2>5. OnSide(side, px + b[1])
      BY <1>1, <2>1, <2>4, Sizes DEF OnSide
    <2>. QED BY <2>2, <2>3, <2>5
  <1>3. px \in 0..(WIDTH - 4) /\ py \in Nat
    BY <1>1, Sizes
  <1>. QED BY <1>2, <1>3 DEF Lies

-----------------------------------------------------------------------------
(***************************************************************************)
(* Lines.  A locked piece is on one side of the wall, so are the lines it  *)
(* fills, and what is moved up comes from the same side.                   *)
(***************************************************************************)
\* the columns on one side of the wall
Half(side) == {x \in Cols : OnSide(side, x)}

\* A column that is emptied is no line, and the walls are not touched.
LEMMA ClearedStands ==
    ASSUME NEW f, Standing(f), NEW xs, xs \subseteq Cols, Mid \notin xs, Mid + 1 \notin xs
    PROVE  Standing(Cleared(f, xs))
  <1>. DEFINE h == Cleared(f, xs)
  <1>1. \A x \in Cols, y \in 0..(HEIGHT - 1) :
            h[<<x, y>>] = IF x \in xs /\ y \in PlayRows THEN Empty ELSE f[<<x, y>>]
    BY InField DEF Cleared, InPlay
  <1>2. DOMAIN h = Field
    BY DEF Cleared
  <1>3. ASSUME NEW x \in Cols, NEW y \in 0..(HEIGHT - 1)
        PROVE  h[<<x, y>>] = Wall <=> Border(x, y)
    <2>1. f[<<x, y>>] = Wall <=> Border(x, y)
      BY DEF Standing
    <2>2. CASE x \in xs /\ y \in PlayRows
      <3>1. ~ Border(x, y)
        BY <2>2, Sizes DEF Border
      <3>. QED BY <1>1, <2>2, <3>1, Sizes
    <2>3. CASE ~ (x \in xs /\ y \in PlayRows)
      BY <1>1, <2>1, <2>3
    <2>. QED BY <2>2, <2>3
  <1>. HIDE DEF h
  <1>4. Standing(h)
    BY <1>2, <1>3 DEF Standing
  <1>. QED BY <1>4 DEF h

\* Each column takes over what a column of the same side of the wall held.
LEMMA MoveUpStands ==
    ASSUME NEW f, Standing(f), NoLine(f), NEW side \in {0, 1}, NEW xs, xs \subseteq Half(side),
           NEW line
    PROVE  Standing(MoveUp(f, xs, line, side)) /\ NoLine(MoveUp(f, xs, line, side))
  <1>. DEFINE h == MoveUp(f, xs, line, side)
  <1>1. CASE line \notin xs
    BY <1>1 DEF MoveUp
  <1>2. CASE line \in xs
    <2>1. line \in Cols /\ OnSide(side, line)
      BY <1>2 DEF Half
    <2>2. line \in Int
      BY <2>1, Sizes DEF Cols
    <2>3. PICK d \in {-1, 1} : d = IF side = 0 THEN -1 ELSE 1
      BY DEF OnSide
    <2>. DEFINE moved(x) == IF side = 0 THEN x \in 1..line ELSE x \in line..(WIDTH - 2)
    <2>4. \A x \in Cols, y \in 0..(HEIGHT - 1) :
             h[<<x, y>>] = IF moved(x) /\ y \in PlayRows THEN f[<<x + d, y>>] ELSE f[<<x, y>>]
      <3>1. CASE side = 0
        <4>1. h = ShiftRight(f, line) /\ d = -1
          BY <1>2, <2>3, <3>1 DEF MoveUp
        <4>2. \A x \in Cols : x - 1 = x + d
          BY <4>1, Sizes DEF Cols
        <4>3. \A x \in Cols, y \in 0..(HEIGHT - 1) :
                h[<<x, y>>] = IF x \in 1..line /\ y \in PlayRows THEN f[<<x - 1, y>>] ELSE f[<<x, y>>]
          BY <4>1, InField DEF ShiftRight, InPlay
        <4>. QED BY <3>1, <4>2, <4>3
      <3>2. CASE side = 1
        <4>1. h = ShiftLeft(f, line) /\ d = 1
          BY <1>2, <2>3, <3>2 DEF MoveUp
        <4>2. \A x \in Cols, y \in 0..(HEIGHT - 1) :
                h[<<x, y>>] = IF x \in line..(WIDTH - 2) /\ y \in PlayRows THEN f[<<x + 1, y>>] ELSE f[<<x, y>>]
          BY <4>1, InField DEF ShiftLeft, InPlay
        <4>3. \A x : moved(x) <=> x \in line..(WIDTH - 2)
          BY <3>2
        <4>4. \A x : x + 1 = x + d
          BY <4>1
        <4>. HIDE DEF h, moved
        <4>. QED BY <4>2, <4>3, <4>4
      <3>. QED BY <3>1, <3>2
    <2>5. DOMAIN h = Field
      <3>1. h = ShiftRight(f, line) \/ h = ShiftLeft(f, line)
        BY <1>2 DEF MoveUp
      <3>. QED BY <3>1 DEF ShiftRight, ShiftLeft
    <2>6. ASSUME NEW x \in Cols, moved(x)
          PROVE  x + d \in Cols /\ OnSide(side, x) /\ OnSide(side, x + d)
      <3>1. CASE side = 0
        BY <2>1, <2>2, <2>3, <2>6, <3>1, Sizes DEF OnSide, Cols
      <3>2. CASE side = 1
        BY <2>1, <2>2, <2>3, <2>6, <3>2, Sizes DEF OnSide, Cols
      <3>. QED BY <3>1, <3>2
    <2>. HIDE DEF h, moved
    <2>7. Standing(h)
      <3>1. ASSUME NEW x \in Cols, NEW y \in 0..(HEIGHT - 1)
            PROVE  h[<<x, y>>] = Wall <=> Border(x, y)
        <4>1. CASE moved(x) /\ y \in PlayRows
          <5>1. x + d \in Cols /\ OnSide(side, x) /\ OnSide(side, x + d)
            BY <2>6, <4>1
          <5>2. ~ Border(x, y) /\ ~ Border(x + d, y)
            BY <4>1, <5>1, Sizes DEF Border, OnSide, Cols
          <5>3. f[<<x + d, y>>] # Wall
            BY <5>1, <5>2 DEF Standing
          <5>. QED BY <2>4, <4>1, <5>2, <5>3
        <4>2. CASE ~ (moved(x) /\ y \in PlayRows)
          BY <2>4, <4>2 DEF Standing
        <4>. QED BY <4>1, <4>2
      <3>. QED BY <2>5, <3>1 DEF Standing
    <2>8. NoLine(h)
      <3>1. ASSUME NEW x \in Cols
            PROVE  \E y \in PlayRows : h[<<x, y>>] # Block
        <4>0. \A y \in PlayRows : y \in 0..(HEIGHT - 1)
          BY Sizes
        <4>1. CASE moved(x)
          <5>1. PICK y \in PlayRows : f[<<x + d, y>>] # Block
            BY <2>6, <4>1 DEF NoLine
          <5>. QED BY <2>4, <4>0, <4>1, <5>1
        <4>2. CASE ~ moved(x)
          <5>1. PICK y \in PlayRows : f[<<x, y>>] # Block
            BY DEF NoLine
          <5>. QED BY <2>4, <4>0, <4>2, <5>1
        <4>. QED BY <4>1, <4>2
      <3>. QED BY <3>1 DEF NoLine
    <2>. QED BY <2>7, <2>8 DEF h
  <1>. QED BY <1>1, <1>2

LEMMA ShiftAllStands ==
    ASSUME NEW f, Standing(f), NoLine(f), NEW side \in {0, 1}, NEW xs, xs \subseteq Half(side),
           NEW px
    PROVE  Standing(ShiftAll(f, xs, px, side)) /\ NoLine(ShiftAll(f, xs, px, side))
  <1>. DEFINE column(i) == IF side = 0 THEN px + i ELSE px + 3 - i
              f0 == MoveUp(f, xs, column(0), side)
              f1 == MoveUp(f0, xs, column(1), side)
              f2 == MoveUp(f1, xs, column(2), side)
              f3 == MoveUp(f2, xs, column(3), side)
  <1>1. ShiftAll(f, xs, px, side) = f3
    BY DEF ShiftAll
  <1>. HIDE DEF column
  <1>2. Standing(f0) /\ NoLine(f0)
    BY MoveUpStands
  <1>. HIDE DEF f0
  <1>3. Standing(f1) /\ NoLine(f1)
    BY <1>2, MoveUpStands
  <1>. HIDE DEF f1
  <1>4. Standing(f2) /\ NoLine(f2)
    BY <1>3, MoveUpStands
  <1>. HIDE DEF f2
  <1>5. Standing(f3) /\ NoLine(f3)
    BY <1>4, MoveUpStands
  <1>. QED BY <1>1, <1>5

\* A piece that is locked: the lines it fills are cleared, and there are no others, since
\* a line has a cell of the piece.
Locked(f, A, px, py) ==
    [c \in Field |-> IF \E b \in A : c = <<px + b[1], py + b[2]>> THEN Block ELSE f[c]]
LEMMA LockedStands ==
    ASSUME NEW f, Standing(f), NoLine(f), NEW A, IsBox(A), NEW px, NEW py, NEW side \in {0, 1},
           Lies(f, A, px, py, side), NEW h, h = Locked(f, A, px, py)
    PROVE  LET lines == Lines(h, px)
               n == ShiftAll(Cleared(h, lines), lines, px, side)
           IN  Standing(n) /\ NoLine(n)
  <1>. DEFINE lines == Lines(h, px)
              m == Cleared(h, lines)
  <1>1. px \in Int /\ py \in Int /\ px >= 0 /\ px + 4 <= WIDTH
    BY Sizes DEF Lies
  <1>2. ASSUME NEW b \in A
        PROVE  /\ b[1] \in 0..3 /\ b[2] \in 0..3 /\ py + b[2] \in PlayRows
               /\ OnSide(side, px + b[1]) /\ px + b[1] \in Cols
    <2>1. /\ b[1] \in 0..3 /\ b[2] \in 0..3 /\ py + b[2] \in PlayRows
          /\ OnSide(side, px + b[1])
      BY DEF Lies, IsBox
    <2>2. px + b[1] \in Cols
      BY <1>1, <2>1, Sizes DEF Cols
    <2>. QED BY <2>1, <2>2
  <1>. DEFINE cell(x, y) == \E b \in A : x = px + b[1] /\ y = py + b[2]
  <1>3. \A x \in Cols, y \in 0..(HEIGHT - 1) : h[<<x, y>>] = IF cell(x, y) THEN Block ELSE f[<<x, y>>]
    <2>. TAKE x \in Cols, y \in 0..(HEIGHT - 1)
    <2>1. <<x, y>> \in Field
      BY InField
    <2>2. (\E b \in A : <<x, y>> = <<px + b[1], py + b[2]>>) <=> cell(x, y)
      OBVIOUS
    <2>. QED BY <2>1, <2>2 DEF Locked
  <1>4. Standing(h)
    <2>1. DOMAIN h = Field
      BY DEF Locked
    <2>2. ASSUME NEW x \in Cols, NEW y \in 0..(HEIGHT - 1)
          PROVE  h[<<x, y>>] = Wall <=> Border(x, y)
      <3>1. CASE cell(x, y)
        <4>1. y \in PlayRows /\ OnSide(side, x)
          BY <1>2, <3>1
        <4>2. ~ Border(x, y)
          BY <4>1, Sizes DEF Border, OnSide, Cols
        <4>. QED BY <1>3, <3>1, <4>2, Sizes
      <3>2. CASE ~ cell(x, y)
        BY <1>3, <3>2 DEF Standing
      <3>. QED BY <3>1, <3>2
    <2>. QED BY <2>1, <2>2 DEF Standing
  <1>. DEFINE full(x) == \A y \in PlayRows : h[<<x, y>>] = Block
  <1>5. ASSUME NEW x \in Cols, full(x)
        PROVE  x \in Half(side) /\ x \in px..(px + 3)
    <2>0. \A y \in PlayRows : y \in 0..(HEIGHT - 1)
      BY Sizes
    <2>1. PICK y \in PlayRows : f[<<x, y>>] # Block
      BY DEF NoLine
    <2>2. cell(x, y)
      BY <1>3, <1>5, <2>0, <2>1
    <2>3. PICK b \in A : x = px + b[1]
      BY <2>2
    <2>4. OnSide(side, x) /\ b[1] \in 0..3
      BY <1>2, <2>3
    <2>5. x \in px..(px + 3)
      BY <1>1, <2>3, <2>4
    <2>. QED BY <2>4, <2>5 DEF Half
  <1>6. lines = {x \in Cols : full(x)}
    <2>1. \A x \in px..(px + 3) : x < WIDTH <=> x \in Cols
      BY <1>1, Sizes DEF Cols
    <2>. QED BY <1>5, <2>1 DEF Lines
  <1>7. lines \subseteq Half(side)
    BY <1>5, <1>6
  <1>. HIDE DEF lines
  <1>8. Standing(m)
    <2>1. lines \subseteq Cols /\ Mid \notin lines /\ Mid + 1 \notin lines
      BY <1>7, Sizes DEF Half, OnSide
    <2>. QED BY <1>4, <2>1, ClearedStands
  <1>9. NoLine(m)
    <2>0. 1 \in PlayRows /\ \A y \in PlayRows : y \in 0..(HEIGHT - 1)
      BY Sizes
    <2>1. \A x \in Cols, y \in PlayRows :
            m[<<x, y>>] = IF x \in lines THEN Empty ELSE h[<<x, y>>]
      BY <2>0, InField DEF Cleared, InPlay
    <2>2. ASSUME NEW x \in Cols PROVE \E y \in PlayRows : m[<<x, y>>] # Block
      <3>1. CASE x \in lines
        BY <2>0, <2>1, <3>1 DEF Empty, Block
      <3>2. CASE x \notin lines
        <4>1. PICK y \in PlayRows : h[<<x, y>>] # Block
          BY <1>6, <3>2
        <4>. QED BY <2>1, <3>2, <4>1
      <3>. QED BY <3>1, <3>2
    <2>. HIDE DEF m
    <2>. QED BY <2>2 DEF NoLine
  <1>. HIDE DEF m
  <1>10. LET n == ShiftAll(m, lines, px, side) IN Standing(n) /\ NoLine(n)
    BY <1>7, <1>8, <1>9, ShiftAllStands
  <1>. QED BY <1>10 DEF m, lines

-----------------------------------------------------------------------------
(***************************************************************************)
(* The game: each of its functions leads from sound games to sound games.  *)
(***************************************************************************)
Fields == {"field", "piece_index", "piece_rotation", "piece_x", "piece_y", "random_side",
           "speed_ticks", "game_ticks", "lives", "pieces_until_speedup",
           "rotation_released", "game_over", "the_end", "dirty"}

\* A sound game, by its field f, its piece and where that piece is.
Sound(f, index, r, px, py, side, over) ==
    /\ index \in 0..(Len(PieceKinds) - 1) /\ r \in 0..3 /\ side \in {0, 1} /\ over \in BOOLEAN
    /\ Standing(f) /\ NoLine(f)
    /\ ~over => Lies(f, Box(PieceKinds[index + 1], r), px, py, side)
SoundGame(g) ==
    /\ DOMAIN g = Fields
    /\ Sound(g.field, g.piece_index, g.piece_rotation, g.piece_x, g.piece_y, g.random_side,
             g.game_over)
Playing(g) == SoundGame(g) /\ ~g.game_over

LEMMA Kind ==
    ASSUME NEW index \in 0..(Len(PieceKinds) - 1)
    PROVE  PieceKinds[index + 1] \in 1..7
  BY GameAssumption DEF GameAssumption

LEMMA Boxes ==
    ASSUME NEW kind \in 1..7, NEW r \in 0..3
    PROVE  /\ IsBox(Box(kind, r))
           /\ (r + 1) % 4 \in 0..3
           /\ Box(kind, (r + 1) % 4) = Box(kind, r + 1)
  <1>1. Box(kind, r) \subseteq (0..3) \X (0..3)
    BY DEF Box
  <1>2. Box(kind, r) # {}
    BY PiecesConnected DEF Connected
  <1>3. (r + 1) % 4 = IF r = 3 THEN 0 ELSE r + 1
    OBVIOUS
  <1>4. Box(kind, r + 1) = Box(kind, IF r = 3 THEN 0 ELSE r + 1)
    BY BoxIs
  <1>5. (IF r = 3 THEN 0 ELSE r + 1) \in 0..3
    OBVIOUS
  <1>. QED BY <1>1, <1>2, <1>3, <1>4, <1>5 DEF IsBox

\* The cells of a piece are those of its box, and xPieceFits looks at each of them.
LEMMA Cells ==
    ASSUME NEW index, NEW r, NEW px, NEW py
    PROVE  PieceCells(index, r, px, py) =
             {<<px + b[1], py + b[2]>> : b \in Box(PieceKinds[index + 1], r)}
  BY DEF PieceCells, Box

LEMMA FitsMeans ==
    ASSUME NEW g, NEW r, NEW px, NEW py
    PROVE  xPieceFits(g, r, px, py) <=>
             FitsIn(g.field, Box(PieceKinds[g.piece_index + 1], r), px, py)
  BY Cells DEF xPieceFits, FitsIn

\* A game goes on with a new piece on any field on which the walls stand (prvSpawnPiece).
LEMMA SpawnSound ==
    ASSUME NEW g, DOMAIN g = Fields, g.piece_index \in 0..(Len(PieceKinds) - 1),
           Standing(g.field), NoLine(g.field), NEW n \in prvSpawnPiece(g)
    PROVE  SoundGame(n)
  <1>1. PICK y \in SpawnRows, side \in {0, 1} : n = Spawned(g, y, side)
    BY DEF prvSpawnPiece
  <1>. DEFINE index == (g.piece_index + 1) % Len(PieceKinds)
              x == IF side = 0 THEN 0 ELSE WIDTH - 4
  <1>2. index \in 0..(Len(PieceKinds) - 1)
    <2>1. Len(PieceKinds) \in Nat \ {0}
      BY GameAssumption DEF GameAssumption
    <2>. QED BY <2>1
  <1>. HIDE DEF index, x
  <1>. DEFINE s == [g EXCEPT !.piece_y = y, !.random_side = side, !.piece_rotation = 3,
                             !.piece_x = x, !.piece_index = index]
              over == ~Fits(s)
  <1>3. n = [s EXCEPT !.game_over = over]
    BY <1>1 DEF Spawned, index, x
  <1>4. /\ DOMAIN s = Fields /\ s.field = g.field /\ s.piece_index = index
        /\ s.piece_rotation = 3 /\ s.piece_x = x /\ s.piece_y = y /\ s.random_side = side
    BY DEF Fields
  <1>. HIDE DEF s
  <1>5. over \in BOOLEAN /\ (~over => FitsIn(g.field, Box(PieceKinds[index + 1], 3), x, y))
    BY <1>4, FitsMeans DEF Fits
  <1>. HIDE DEF over
  <1>6. /\ DOMAIN n = Fields /\ n.field = g.field /\ n.piece_index = index
        /\ n.piece_rotation = 3 /\ n.piece_x = x /\ n.piece_y = y /\ n.random_side = side
        /\ n.game_over = over
    BY <1>3, <1>4 DEF Fields
  <1>7. ~over => Lies(g.field, Box(PieceKinds[index + 1], 3), x, y, side)
    <2>1. y \in PlayRows /\ y + 3 \in PlayRows
      BY GameAssumption DEF GameAssumption
    <2>2. IsBox(Box(PieceKinds[index + 1], 3))
      BY <1>2, Kind, Boxes
    <2>. QED BY <1>5, <2>1, <2>2, Entered DEF x
  <1>. QED BY <1>2, <1>5, <1>6, <1>7 DEF SoundGame, Sound

\* A move is made only where the piece fits, and one step is too short to pass a wall.
LEMMA MovedSound ==
    ASSUME NEW g, Playing(g), NEW dx, NEW dy, NEW wanted,
           \/ dx = 0 /\ dy \in {-1, 1}
           \/ dx = (IF g.random_side = 0 THEN 1 ELSE -1) /\ dy = 0
    PROVE  Playing(Moved(g, dx, dy, wanted)) /\ Moved(g, dx, dy, wanted).random_side = g.random_side
  <1>. DEFINE n == Moved(g, dx, dy, wanted)
              x == g.piece_x + dx
              y == g.piece_y + dy
              A == Box(PieceKinds[g.piece_index + 1], g.piece_rotation)
  <1>1. CASE n = g
    BY <1>1
  <1>2. CASE n # g
    <2>1. /\ n = [g EXCEPT !.piece_x = x, !.piece_y = y]
          /\ x >= 0 /\ y >= 0 /\ xPieceFits(g, g.piece_rotation, x, y)
      BY <1>2 DEF Moved
    <2>2. FitsIn(g.field, A, x, y)
      BY <2>1, FitsMeans
    <2>3. IsBox(A)
      BY Kind, Boxes DEF Playing, SoundGame, Sound
    <2>. HIDE DEF n, A
    <2>4. Lies(g.field, A, x, y, g.random_side)
      <3>1. /\ Lies(g.field, A, g.piece_x, g.piece_y, g.random_side) /\ Standing(g.field)
            /\ g.random_side \in {0, 1}
        BY DEF Playing, SoundGame, Sound, A
      <3>. QED BY <2>1, <2>2, <2>3, <3>1, Shifted
    <2>. HIDE DEF x, y
    <2>5. /\ DOMAIN n = Fields /\ n.field = g.field /\ n.piece_index = g.piece_index
          /\ n.piece_rotation = g.piece_rotation /\ n.piece_x = x /\ n.piece_y = y
          /\ n.random_side = g.random_side /\ n.game_over = g.game_over
      BY <2>1 DEF Fields, Playing, SoundGame
    <2>6. Playing(n)
      BY <2>4, <2>5 DEF Playing, SoundGame, Sound, A
    <2>. QED BY <2>5, <2>6 DEF n
  <1>. QED BY <1>1, <1>2

LEMMA SteeredSound ==
    ASSUME NEW g, Playing(g), NEW buttons
    PROVE  Playing(Steered(g, buttons))
  <1>1. CASE g.random_side = 0
    <2>. DEFINE g1 == Moved(g, 0, 1, "down" \in buttons)
                g2 == Moved(g1, 0, -1, "up" \in buttons)
                g3 == Moved(g2, 1, 0, "right" \in buttons)
    <2>1. Steered(g, buttons) = g3
      BY <1>1 DEF Steered
    <2>2. Playing(g1) /\ g1.random_side = 0
      BY <1>1, MovedSound
    <2>. HIDE DEF g1
    <2>3. Playing(g2) /\ g2.random_side = 0
      BY <2>2, MovedSound
    <2>. HIDE DEF g2
    <2>4. Playing(g3)
      BY <2>3, MovedSound
    <2>. QED BY <2>1, <2>4
  <1>2. CASE g.random_side # 0
    <2>. DEFINE g1 == Moved(g, 0, -1, "up" \in buttons)
                g2 == Moved(g1, 0, 1, "down" \in buttons)
                g3 == Moved(g2, -1, 0, "left" \in buttons)
    <2>1. Steered(g, buttons) = g3
      BY <1>2 DEF Steered
    <2>2. Playing(g1) /\ g1.random_side # 0
      BY <1>2, MovedSound
    <2>. HIDE DEF g1
    <2>3. Playing(g2) /\ g2.random_side # 0
      BY <2>2, MovedSound
    <2>. HIDE DEF g2
    <2>4. Playing(g3)
      BY <2>3, MovedSound
    <2>. QED BY <2>1, <2>4
  <1>. QED BY <1>1, <1>2

LEMMA RotatedSound ==
    ASSUME NEW g, Playing(g), NEW buttons
    PROVE  Playing(Rotated(g, buttons))
  <1>. DEFINE turns == "center" \in buttons /\ g.rotation_released /\ MayRotate(g)
              r == IF turns THEN (g.piece_rotation + 1) % 4 ELSE g.piece_rotation
              released == "center" \notin buttons
              n == [g EXCEPT !.piece_rotation = r, !.rotation_released = released]
              kind == PieceKinds[g.piece_index + 1]
  <1>1. Rotated(g, buttons) = n
    BY DEF Rotated
  <1>. HIDE DEF released
  <1>2. kind \in 1..7 /\ g.piece_rotation \in 0..3
    BY Kind DEF Playing, SoundGame, Sound
  <1>3. r \in 0..3 /\ Lies(g.field, Box(kind, r), g.piece_x, g.piece_y, g.random_side)
    <2>1. Lies(g.field, Box(kind, g.piece_rotation), g.piece_x, g.piece_y, g.random_side)
          /\ Standing(g.field) /\ g.random_side \in {0, 1}
      BY DEF Playing, SoundGame, Sound
    <2>. HIDE DEF kind
    <2>2. CASE turns
      <3>. DEFINE A == Box(kind, g.piece_rotation)
                  B == Box(kind, g.piece_rotation + 1)
      <3>1. /\ r \in 0..3 /\ Box(kind, r) = B
            /\ IsBox(A) /\ IsBox(Box(kind, r))
        <4>1. r = (g.piece_rotation + 1) % 4
          BY <2>2
        <4>. HIDE DEF turns, r
        <4>2. r \in 0..3 /\ Box(kind, r) = B /\ IsBox(A)
          BY <1>2, <4>1, Boxes
        <4>. QED BY <1>2, <4>2, Boxes
      <3>2. FitsIn(g.field, B, g.piece_x, g.piece_y)
        BY <2>2, FitsMeans DEF MayRotate, kind
      <3>3. Connected(A, B)
        BY <1>2, PiecesConnected
      <3>. HIDE DEF A, B, turns, r
      <3>4. Lies(g.field, A, g.piece_x, g.piece_y, g.random_side)
        BY <2>1 DEF A
      <3>. QED BY <2>1, <3>1, <3>2, <3>3, <3>4, Turned
    <2>3. CASE ~turns
      BY <1>2, <2>1, <2>3
    <2>. QED BY <2>2, <2>3
  <1>. HIDE DEF r, turns
  <1>4. /\ DOMAIN n = Fields /\ n.field = g.field /\ n.piece_index = g.piece_index
        /\ n.piece_rotation = r /\ n.piece_x = g.piece_x /\ n.piece_y = g.piece_y
        /\ n.random_side = g.random_side /\ n.game_over = g.game_over
    BY DEF Fields, Playing, SoundGame
  <1>. HIDE DEF n
  <1>5. Playing(n)
    BY <1>3, <1>4 DEF Playing, SoundGame, Sound
  <1>. QED BY <1>1, <1>5

\* A piece is locked where it lies, its lines are cleared, and the next one enters.
LEMMA LockSound ==
    ASSUME NEW g, Playing(g), NEW n \in prvLockPiece(g)
    PROVE  SoundGame(n)
  <1>. DEFINE A == Box(PieceKinds[g.piece_index + 1], g.piece_rotation)
              f == Locked(g.field, A, g.piece_x, g.piece_y)
              lines == Lines(f, g.piece_x)
              h == ShiftAll(Cleared(f, lines), lines, g.piece_x, g.random_side)
  <1>1. f = [c \in Field |-> IF c \in PieceCells(g.piece_index, g.piece_rotation, g.piece_x, g.piece_y)
                             THEN Block ELSE g.field[c]]
    BY Cells DEF Locked
  <1>2. Standing(h) /\ NoLine(h)
    <2>1. IsBox(A)
      BY Kind, Boxes DEF Playing, SoundGame, Sound
    <2>2. /\ Lies(g.field, A, g.piece_x, g.piece_y, g.random_side)
          /\ Standing(g.field) /\ NoLine(g.field) /\ g.random_side \in {0, 1}
      BY DEF Playing, SoundGame, Sound
    <2>. HIDE DEF A
    <2>. QED BY <2>1, <2>2, LockedStands
  <1>3. PICK p, t : n \in prvSpawnPiece([g EXCEPT !.field = h, !.pieces_until_speedup = p,
                                                  !.speed_ticks = t])
    <2>. HIDE DEF f
    <2>. QED BY <1>1, Zenon DEF prvLockPiece
  <1>. HIDE DEF h
  <1>. DEFINE s == [g EXCEPT !.field = h, !.pieces_until_speedup = p, !.speed_ticks = t]
  <1>4. DOMAIN s = Fields /\ s.field = h /\ s.piece_index = g.piece_index
        /\ g.piece_index \in 0..(Len(PieceKinds) - 1)
    BY DEF Playing, SoundGame, Sound, Fields
  <1>. HIDE DEF s
  <1>. QED BY <1>2, <1>3, <1>4, SpawnSound DEF s

LEMMA AdvancedSound ==
    ASSUME NEW g, Playing(g), NEW n \in Advanced(g)
    PROVE  SoundGame(n)
  <1>. DEFINE to == Moved(g, IF g.random_side = 0 THEN 1 ELSE -1, 0, TRUE)
  <1>1. Playing(to)
    BY MovedSound
  <1>2. n = to \/ n \in prvLockPiece(g)
    BY DEF Advanced
  <1>. HIDE DEF to
  <1>. QED BY <1>1, <1>2, LockSound DEF Playing

\* What is sound does not depend on the counters and the flags.
LEMMA SameSound ==
    ASSUME NEW g, SoundGame(g), NEW n, DOMAIN n = Fields,
           \A i \in Fields \ {"speed_ticks", "game_ticks", "lives", "pieces_until_speedup",
                              "rotation_released", "the_end", "dirty"} : n[i] = g[i]
    PROVE  SoundGame(n)
  BY DEF SoundGame, Sound, Fields

LEMMA PlayedSound ==
    ASSUME NEW g, Playing(g), NEW buttons, NEW n \in Played(g, buttons)
    PROVE  SoundGame(n)
  <1>. DEFINE moves == g.game_ticks + 1 >= g.speed_ticks
              ticks == IF moves THEN 0 ELSE g.game_ticks + 1
              g1 == [g EXCEPT !.game_ticks = ticks]
              g2 == Rotated(Steered(g1, buttons), buttons)
  <1>1. n \in IF moves THEN Advanced(g2) ELSE {g2}
    BY DEF Played
  <1>. HIDE DEF moves, ticks
  <1>2. Playing(g1)
    <2>1. DOMAIN g1 = Fields /\ g1.game_over = g.game_over
      BY DEF Playing, SoundGame, Fields
    <2>2. \A i \in Fields \ {"game_ticks"} : g1[i] = g[i]
      BY DEF Playing, SoundGame, Fields
    <2>. HIDE DEF g1
    <2>. QED BY <2>1, <2>2, SameSound DEF Playing
  <1>. HIDE DEF g1
  <1>3. Playing(g2)
    BY <1>2, SteeredSound, RotatedSound
  <1>. HIDE DEF g2
  <1>4. CASE n = g2
    BY <1>3, <1>4 DEF Playing
  <1>5. CASE n \in Advanced(g2)
    BY <1>3, <1>5, AdvancedSound
  <1>. QED BY <1>1, <1>4, <1>5

\* A life that is lost starts on a field of walls.
LEMMA LifeLostSound ==
    ASSUME NEW g, SoundGame(g), NEW n \in LifeLost(g)
    PROVE  SoundGame(n)
  <1>1. CASE n = [g EXCEPT !.the_end = TRUE]
    <2>1. DOMAIN n = Fields /\ \A i \in Fields \ {"the_end"} : n[i] = g[i]
      BY <1>1 DEF SoundGame, Fields
    <2>. QED BY <2>1, SameSound
  <1>2. CASE n \in prvSpawnPiece([g EXCEPT !.lives = @ - 1, !.field = prvFieldInit])
    <2>. DEFINE s == [g EXCEPT !.lives = @ - 1, !.field = prvFieldInit]
    <2>1. DOMAIN s = Fields /\ s.field = prvFieldInit /\ s.piece_index = g.piece_index
          /\ g.piece_index \in 0..(Len(PieceKinds) - 1)
      BY DEF SoundGame, Sound, Fields
    <2>. HIDE DEF s
    <2>. QED BY <1>2, <2>1, SpawnSound, FieldAtFirst DEF s
  <1>. QED BY <1>1, <1>2 DEF LifeLost

\* The first piece of all fits on the first field.
LEMMA InitSound == Playing(tetrisaraj_game_init)
  <1>. DEFINE g == tetrisaraj_game_init
              A == Box(PieceKinds[0 + 1], 3)
  <1>1. /\ DOMAIN g = Fields /\ g.field = prvFieldInit /\ g.piece_index = 0
        /\ g.piece_rotation = 3 /\ g.piece_x = 0 /\ g.piece_y = StartRow /\ g.random_side = 0
        /\ g.game_over = FALSE
    BY DEF tetrisaraj_game_init, Fields
  <1>. HIDE DEF g
  <1>2. 0 \in 0..(Len(PieceKinds) - 1)
    BY GameAssumption DEF GameAssumption
  <1>3. IsBox(A)
    <2>1. PieceKinds[0 + 1] \in 1..7
      BY <1>2, Kind
    <2>. QED BY <2>1, Boxes
  <1>. HIDE DEF A
  <1>4. StartRow \in PlayRows /\ StartRow + 3 \in PlayRows
    BY GameAssumption DEF GameAssumption
  <1>5. FitsIn(prvFieldInit, A, 0, StartRow)
    <2>1. ASSUME NEW b \in A
          PROVE  prvFieldInit[<<0 + b[1], StartRow + b[2]>>] = Empty
      <3>1. PICK i \in 0..3, j \in 0..3 : i = b[1] /\ j = b[2]
        BY <1>3 DEF IsBox
      <3>2. <<0 + i, StartRow + j>> \in Field
        BY <1>4, InField, Sizes DEF Cols
      <3>3. 0 + i # Mid /\ 0 + i # Mid + 1 /\ StartRow + j # 0 /\ StartRow + j < HEIGHT - BottomRows
        BY <1>4, Sizes
      <3>4. ~ Border(0 + i, StartRow + j)
        BY <1>4, <3>3, Sizes DEF Border
      <3>5. prvFieldInit[<<0 + i, StartRow + j>>] \in {Wall, Empty}
        BY <3>2 DEF prvFieldInit
      <3>6. prvFieldInit[<<0 + i, StartRow + j>>] # Wall
        BY <3>2, <3>4, InField, FieldAtFirst DEF Standing
      <3>. QED BY <3>1, <3>5, <3>6
    <2>. QED BY <2>1 DEF FitsIn
  <1>6. Lies(prvFieldInit, A, 0, StartRow, 0)
    BY <1>3, <1>4, <1>5, Entered, FieldAtFirst
  <1>7. Sound(prvFieldInit, 0, 3, 0, StartRow, 0, FALSE)
    BY <1>2, <1>6, FieldAtFirst DEF Sound, A
  <1>. QED BY <1>1, <1>7 DEF Playing, SoundGame, g

\* A step of the game, with any buttons, leads from a sound game to a sound one, and sets
\* the flag if it changes anything.
LEMMA StepSound ==
    ASSUME NEW g, SoundGame(g), NEW buttons, NEW n \in tetrisaraj_game_step(g, buttons)
    PROVE  SoundGame(n) /\ (n.dirty = TRUE \/ n = g)
  <1>1. CASE n = g
    BY <1>1
  <1>3. CASE n = tetrisaraj_game_init
    <2>1. tetrisaraj_game_init.dirty = TRUE
      BY DEF tetrisaraj_game_init
    <2>. QED BY <1>3, <2>1, InitSound DEF Playing
  <1>2. CASE ~(n = g \/ n = tetrisaraj_game_init)
    <2>1. PICK m : /\ n = [m EXCEPT !.dirty = TRUE]
                   /\ m \in IF g.game_over THEN LifeLost(g) ELSE Played(g, buttons)
      BY <1>2, Zenon DEF tetrisaraj_game_step
    <2>2. SoundGame(m)
      <3>1. CASE g.game_over
        BY <2>1, <3>1, LifeLostSound
      <3>2. CASE ~g.game_over
        BY <2>1, <3>2, PlayedSound DEF Playing
      <3>. QED BY <3>1, <3>2
    <2>3. DOMAIN n = Fields /\ n.dirty = TRUE /\ \A i \in Fields \ {"dirty"} : n[i] = m[i]
      BY <2>1, <2>2 DEF SoundGame, Fields
    <2>. QED BY <2>2, <2>3, SameSound
  <1>. QED BY <1>1, <1>2, <1>3

\* What is said of a sound game (FieldSound) follows.
LEMMA SoundMeans ==
    ASSUME NEW g, SoundGame(g)
    PROVE  FieldSound(g)
  <1>. DEFINE A == Box(PieceKinds[g.piece_index + 1], g.piece_rotation)
  <1>1. \A c \in Field : (g.field[c] = Wall) = (prvFieldInit[c] = Wall)
    <2>. TAKE c \in Field
    <2>1. PICK x \in Cols, y \in 0..(HEIGHT - 1) : c = <<x, y>>
      BY DEF Field, Cols
    <2>2. (g.field[c] = Wall <=> Border(x, y)) /\ (prvFieldInit[c] = Wall <=> Border(x, y))
      BY <2>1, FieldAtFirst DEF SoundGame, Sound, Standing
    <2>. QED BY <2>2
  <1>2. \A x \in 0..(WIDTH - 1) : \E y \in PlayRows : g.field[<<x, y>>] # Block
    BY DEF SoundGame, Sound, NoLine, Cols
  <1>3. ASSUME ~g.game_over
        PROVE  /\ Fits(g)
               /\ PieceCells(g.piece_index, g.piece_rotation, g.piece_x, g.piece_y) \subseteq Field
    <2>1. Lies(g.field, A, g.piece_x, g.piece_y, g.random_side) /\ g.random_side \in {0, 1}
      BY <1>3 DEF SoundGame, Sound
    <2>2. IsBox(A)
      BY Kind, Boxes DEF SoundGame, Sound
    <2>3. ASSUME NEW b \in A
          PROVE  /\ <<g.piece_x + b[1], g.piece_y + b[2]>> \in Field
                 /\ g.field[<<g.piece_x + b[1], g.piece_y + b[2]>>] = Empty
      <3>1. PICK i \in 0..3, j \in 0..3 : i = b[1] /\ j = b[2]
        BY <2>2 DEF IsBox
      <3>2. g.piece_x \in 0..(WIDTH - 4) /\ g.piece_y + b[2] \in PlayRows
            /\ g.field[<<g.piece_x + b[1], g.piece_y + b[2]>>] = Empty
        BY <2>1 DEF Lies
      <3>3. g.piece_x + b[1] \in Cols
        BY <3>1, <3>2, Sizes DEF Cols
      <3>4. g.piece_y + b[2] \in 0..(HEIGHT - 1)
        BY <3>2, Sizes
      <3>. QED BY <3>2, <3>3, <3>4, InField
    <2>. HIDE DEF A
    <2>4. FitsIn(g.field, A, g.piece_x, g.piece_y)
      BY <2>3 DEF FitsIn
    <2>5. PieceCells(g.piece_index, g.piece_rotation, g.piece_x, g.piece_y) \subseteq Field
      BY <2>3, Cells DEF A
    <2>. QED BY <2>4, <2>5, FitsMeans DEF Fits, A
  <1>. QED BY <1>1, <1>2, <1>3 DEF FieldSound

-----------------------------------------------------------------------------
(***************************************************************************)
(* The tasks.                                                              *)
(***************************************************************************)
Parts == {"field", "piece"}

\* Where the render task is inside xGameMutex, and where it has a frame half drawn.
Holding == {"look", "takePrint", "field", "piece", "unlockPrint", "give"}
Drawing == {"field", "piece"}

Typed ==
    /\ holder \in [{"xGameMutex", "xPrintMutex"} -> Tasks \cup {None}]
    /\ DOMAIN pc = Tasks
    /\ xGame.dirty \in BOOLEAN
    /\ drawn \subseteq Parts

\* A task between its take and its give of xGameMutex holds it.
Exclusive ==
    /\ pc["game"] = "step" => holder["xGameMutex"] = "game"
    /\ pc["debug"] = "copy" => holder["xGameMutex"] = "debug"
    /\ pc["render"] \in Holding => holder["xGameMutex"] = "render"

\* The two programs draw at their own steps.
OfProgram == pc["render"] \notin IF app = "game" THEN {"takePrint", "unlockPrint"} ELSE {"look"}

\* What is on the screen, wherever the render task is: in a drawing the flag is already
\* cleared, which only the mutex keeps the others from seeing.
Shown ==
    /\ pc["render"] = "piece" => "field" \in drawn
    /\ app = "game" /\ ~xGame.dirty /\ pc["render"] \notin Drawing => drawn = Parts
    /\ pc["render"] = "unlockPrint" => drawn = Parts

GameInv == SoundGame(xGame) /\ Typed /\ Exclusive /\ OfProgram /\ Shown

LEMMA GameInit == Init => GameInv
  <1>. SUFFICES ASSUME Init PROVE GameInv
    OBVIOUS
  <1>1. SoundGame(xGame) /\ xGame.dirty = TRUE
    <2>1. tetrisaraj_game_init.dirty = TRUE
      BY DEF tetrisaraj_game_init
    <2>. QED BY <2>1, InitSound DEF Init, Playing
  <1>2. pc["render"] = "takeGame" /\ pc["game"] = "loop" /\ pc["debug"] \in {"takeGame", "end"}
        /\ DOMAIN pc = Tasks
    BY DEF Init, Tasks
  <1>3. holder \in [{"xGameMutex", "xPrintMutex"} -> Tasks \cup {None}] /\ drawn = {}
    BY DEF Init
  <1>. QED BY <1>1, <1>2, <1>3 DEF GameInv, Typed, Exclusive, OfProgram, Shown, Holding, Drawing

\* What a step does to the mutexes, the program counters and the screen.
LEMMA GameStep == GameInv /\ [Next]_vars => GameInv'
  <1>. SUFFICES ASSUME GameInv, [Next]_vars PROVE GameInv'
    OBVIOUS
  <1>. USE DEF GameInv, Typed, Exclusive, OfProgram, Shown, Holding, Drawing, Tasks, Parts
  <1>1. CASE UNCHANGED vars
    BY <1>1 DEF vars
  <1>2. ASSUME NEW b \in Buttons, prvInputTask(b), UNCHANGED app
        PROVE  GameInv'
    BY <1>2 DEF prvInputTask, At, vTaskDelay, Goto
  <1>3. CASE Drain /\ UNCHANGED app
    BY <1>3 DEF Drain, At, Goto
  <1>4. CASE TakeToStep /\ UNCHANGED app
    BY <1>4 DEF TakeToStep, At, Take, Goto, None
  <1>5. CASE Step /\ UNCHANGED app
    <2>1. SoundGame(xGame)' /\ (xGame'.dirty = TRUE \/ xGame' = xGame)
      BY <1>5, StepSound DEF Step
    <2>2. drawn' \subseteq Parts /\ (xGame' = xGame => drawn' = drawn)
      BY <1>5 DEF Step, Looks
    <2>3. pc["game"] = "step" /\ pc' = [pc EXCEPT !["game"] = "loop"]
          /\ holder' = [holder EXCEPT !["xGameMutex"] = None] /\ app' = app
      BY <1>5 DEF Step, At, Give, vTaskDelay, Goto
    <2>. QED BY <2>1, <2>2, <2>3 DEF None
  <1>6. CASE TakeToRender /\ UNCHANGED app
    BY <1>6 DEF TakeToRender, At, Take, Goto, None
  <1>7. CASE Look /\ UNCHANGED app
    <2>1. xGame' = [xGame EXCEPT !.dirty = FALSE]
      BY <1>7 DEF Look
    <2>2. SoundGame(xGame)' /\ xGame'.dirty = FALSE
      <3>1. /\ DOMAIN xGame' = Fields /\ xGame'.dirty = FALSE
            /\ \A i \in Fields \ {"dirty"} : xGame'[i] = xGame[i]
        BY <2>1 DEF SoundGame, Fields
      <3>. QED BY <3>1, SameSound
    <2>. QED BY <1>7, <2>2 DEF Look, At, Goto
  <1>8. CASE prvLockPrint /\ UNCHANGED app
    BY <1>8 DEF prvLockPrint, At, Take, Goto, None
  <1>9. CASE Draw("field", "field", "piece") /\ UNCHANGED app
    BY <1>9 DEF Draw, At, Goto
  <1>14. CASE Draw("piece", "piece", IF app = "game" THEN "give" ELSE "unlockPrint") /\ UNCHANGED app
    <2>1. CASE app = "game"
      BY <1>14, <2>1 DEF Draw, At, Goto
    <2>2. CASE app # "game"
      BY <1>14, <2>2 DEF Draw, At, Goto
    <2>. QED BY <2>1, <2>2
  <1>10. CASE prvUnlockPrint /\ UNCHANGED app
    BY <1>10 DEF prvUnlockPrint, At, Give, Goto, None
  <1>11. CASE GiveAfterRender /\ UNCHANGED app
    BY <1>11 DEF GiveAfterRender, At, Give, vTaskDelay, Goto, None
  <1>12. CASE DebugTake /\ UNCHANGED app
    BY <1>12 DEF DebugTake, At, Take, Goto, None
  <1>15. CASE DebugGive /\ UNCHANGED app
    BY <1>15 DEF DebugGive, At, Give, Goto, None
  <1>16. CASE DebugLock /\ UNCHANGED app
    BY <1>16 DEF DebugLock, At, Take, Goto, None
  <1>17. CASE DebugUnlock /\ UNCHANGED app
    BY <1>17 DEF DebugUnlock, At, Give, vTaskDelay, Goto, None
  <1>13. CASE Tick /\ UNCHANGED app
    BY <1>13 DEF Tick
  <1>. QED BY <1>1, <1>2, <1>3, <1>4, <1>5, <1>6, <1>7, <1>8, <1>9, <1>10, <1>11, <1>12, <1>13,
           <1>14, <1>15, <1>16, <1>17
           DEF Next, InputTask, GameTask, RenderTask, tetrisaraj_game_render, DebugTask

\* The game is sound, each task that is inside xGameMutex holds it, and the screen is as
\* Shown says, in every reachable state of both programs.
THEOREM GameInvariant == Spec => []GameInv
  BY GameInit, GameStep, PTL DEF Spec

\* Whenever xGameMutex is free and dirty is FALSE the screen shows the game as it is,
\* and the headless program gives up the UART with a whole frame on it.
THEOREM FrameIsShown == Spec => []FrameShown
  <1>1. GameInv => FrameShown
    BY DEF GameInv, Typed, Exclusive, OfProgram, Shown, FrameShown, Holding, Drawing, Parts, None
  <1>. QED BY <1>1, GameInvariant, PTL

\* Between two steps of the game the walls stand, no column of the field stays full, and
\* the piece is inside the field and overlaps nothing, or the game is over.
THEOREM GameIsSound == Spec => []GameSound
  <1>1. GameInv => GameSound
    BY SoundMeans DEF GameInv, GameSound
  <1>. QED BY <1>1, GameInvariant, PTL
=============================================================================
