------------------------------ MODULE TetriGame ------------------------------
(***************************************************************************)
(* tetrisaraj_game.c: pieces enter at the left or the right edge of the    *)
(* field and move towards the wall in its middle; a full column between    *)
(* the borders is a line.  A game is a record; a step of it is the set of  *)
(* the games it may become, for the side and row of a new piece are drawn  *)
(* at random.  The score, its digits below the field and the colours of    *)
(* the blocks are left out: no piece can reach the digits.                 *)
(***************************************************************************)
EXTENDS Integers, Sequences

CONSTANTS
    WIDTH, HEIGHT,          \* of the field, 40 columns in the code
    BottomRows,             \* rows of border at the bottom, 7 in the code
    SpawnRows, StartRow,    \* 2..19 and HEIGHT / 2
    PieceKinds,             \* the pieces in their order, 1..7 in the code
    StartLives, StartSpeed, MinSpeed, SpeedupEvery

PlayRows == 1..(HEIGHT - BottomRows - 1)
ASSUME GameAssumption ==
    /\ WIDTH \in 10..127 /\ HEIGHT \in 6..127 /\ BottomRows \in 1..(HEIGHT - 5)
    /\ \A y \in SpawnRows \cup {StartRow} : y \in PlayRows /\ y + 3 \in PlayRows
    /\ PieceKinds \in Seq(1..7) \ {<<>>}
    /\ {StartLives, StartSpeed, MinSpeed, SpeedupEvery} \subseteq Nat \ {0}

\* the occupied cells of each piece's 4 x 4 box, row by row
ucTetrominoes == << {0, 1, 2, 3}, {2, 5, 6, 10}, {5, 6, 9, 10}, {2, 5, 6, 9},
                    {1, 5, 6, 10}, {1, 5, 9, 10}, {2, 6, 9, 10} >>
ucRotate(x, y, rotation) ==
    CASE rotation % 4 = 0 -> y * 4 + x
      [] rotation % 4 = 1 -> 12 + y - x * 4
      [] rotation % 4 = 2 -> 15 - y * 4 - x
      [] OTHER            -> 3 - y + x * 4

Field == (0..(WIDTH - 1)) \X (0..(HEIGHT - 1))
PieceCells(kind, rotation, px, py) ==
    {<<px + b[1], py + b[2]>> : b \in {c \in (0..3) \X (0..3) :
        ucRotate(c[1], c[2], rotation) \in ucTetrominoes[PieceKinds[kind + 1]]}}

Empty == 0
Block == 1
Wall == 9
prvFieldInit ==
    [c \in Field |-> IF \/ c[2] = 0 \/ c[2] >= HEIGHT - BottomRows
                        \/ c[1] + 1 = WIDTH \div 2 \/ c[1] = WIDTH \div 2
                     THEN Wall ELSE Empty]

\* cells outside the field are not looked at
xPieceFits(g, rotation, px, py) ==
    \A c \in PieceCells(g.piece_index, rotation, px, py) : c \in Field => g.field[c] = Empty
Fits(g) == xPieceFits(g, g.piece_rotation, g.piece_x, g.piece_y)

Spawned(g, y, side) ==
    LET s == [g EXCEPT !.piece_y = y, !.random_side = side, !.piece_rotation = 3,
                       !.piece_x = IF side = 0 THEN 0 ELSE WIDTH - 4,
                       !.piece_index = (@ + 1) % Len(PieceKinds)]
    IN  [s EXCEPT !.game_over = ~Fits(s)]
prvSpawnPiece(g) == {Spawned(g, y, side) : y \in SpawnRows, side \in {0, 1}}

\* (altered: only the piece's first column is looked at)
Lines_first(f, px) == {x \in {px} : \A y \in PlayRows : f[<<x, y>>] = Block}
\* full columns among those of the piece
Lines(f, px) == {x \in px..(px + 3) : x < WIDTH /\ \A y \in PlayRows : f[<<x, y>>] = Block}
InPlay(c) == c[2] \in PlayRows
Cleared(f, xs) == [c \in Field |-> IF c[1] \in xs /\ InPlay(c) THEN Empty ELSE f[c]]
\* the columns on the piece's side of a line move up to it, those behind stay; the
\* outermost column is left as it is
ShiftRight(f, line) ==
    [c \in Field |-> IF c[1] \in 1..line /\ InPlay(c) THEN f[<<c[1] - 1, c[2]>>] ELSE f[c]]
ShiftLeft(f, line) ==
    [c \in Field |-> IF c[1] \in line..(WIDTH - 2) /\ InPlay(c) THEN f[<<c[1] + 1, c[2]>>] ELSE f[c]]
MoveUp(f, xs, x, side) ==
    IF x \notin xs THEN f ELSE IF side = 0 THEN ShiftRight(f, x) ELSE ShiftLeft(f, x)
\* for each of the piece's columns, the one nearest to the wall last
ShiftAll(f, xs, px, side) ==
    LET column(i) == IF side = 0 THEN px + i ELSE px + 3 - i
        Up(h, i) == MoveUp(h, xs, column(i), side)
    IN  Up(Up(Up(Up(f, 0), 1), 2), 3)

prvLockPiece(g) ==
    LET cells == PieceCells(g.piece_index, g.piece_rotation, g.piece_x, g.piece_y)
        f == [c \in Field |-> IF c \in cells THEN Block ELSE g.field[c]]
        lines == Lines(f, g.piece_x)
        due == g.pieces_until_speedup <= 1
        locked == [g EXCEPT
                    !.field = ShiftAll(Cleared(f, lines), lines, g.piece_x, g.random_side),
                    !.pieces_until_speedup = IF due THEN SpeedupEvery ELSE @ - 1,
                    !.speed_ticks = IF due /\ @ >= MinSpeed THEN @ - 1 ELSE @]
    IN  prvSpawnPiece(locked)

tetrisaraj_game_init ==
    [field |-> prvFieldInit, piece_index |-> 0, piece_rotation |-> 3,
     piece_x |-> 0, piece_y |-> StartRow, random_side |-> 0,
     speed_ticks |-> StartSpeed, game_ticks |-> 0, lives |-> StartLives,
     pieces_until_speedup |-> SpeedupEvery, rotation_released |-> TRUE,
     game_over |-> FALSE, the_end |-> FALSE, dirty |-> TRUE]

\* the moves the buttons ask for, one after the other, where the piece fits
Moved(g, dx, dy, wanted) ==
    IF /\ wanted /\ g.piece_x + dx >= 0 /\ g.piece_y + dy >= 0
       /\ xPieceFits(g, g.piece_rotation, g.piece_x + dx, g.piece_y + dy)
    THEN [g EXCEPT !.piece_x = @ + dx, !.piece_y = @ + dy] ELSE g
Steered(g, buttons) ==
    IF g.random_side = 0
    THEN LET g1 == Moved(g, 0, 1, "down" \in buttons)
             g2 == Moved(g1, 0, -1, "up" \in buttons)
         IN  Moved(g2, 1, 0, "right" \in buttons)
    ELSE LET g1 == Moved(g, 0, -1, "up" \in buttons)
             g2 == Moved(g1, 0, 1, "down" \in buttons)
         IN  Moved(g2, -1, 0, "left" \in buttons)
MayRotate(g) == xPieceFits(g, g.piece_rotation + 1, g.piece_x, g.piece_y)
\* the rotation, an octet in the code, is only used modulo 4
Rotated(g, buttons) ==
    [g EXCEPT !.piece_rotation = IF "center" \in buttons /\ g.rotation_released /\ MayRotate(g)
                                 THEN (@ + 1) % 4 ELSE @,
              !.rotation_released = "center" \notin buttons]
\* one column towards the middle; a piece that cannot is locked
Advanced(g) ==
    LET to == Moved(g, IF g.random_side = 0 THEN 1 ELSE -1, 0, TRUE)
    IN  IF to = g THEN prvLockPiece(g) ELSE {to}

Played(g, buttons) ==
    LET moves == g.game_ticks + 1 >= g.speed_ticks
        g1 == [g EXCEPT !.game_ticks = IF moves THEN 0 ELSE @ + 1]
        g2 == Rotated(Steered(g1, buttons), buttons)
    IN  IF moves THEN Advanced(g2) ELSE {g2}
LifeLost(g) ==
    IF g.lives <= 1 THEN {[g EXCEPT !.the_end = TRUE]}
    ELSE prvSpawnPiece([g EXCEPT !.lives = @ - 1, !.field = prvFieldInit])
tetrisaraj_game_step(g, buttons) ==
    IF g.the_end THEN {IF "center" \in buttons THEN tetrisaraj_game_init ELSE g}
    ELSE {[n EXCEPT !.dirty = TRUE] : n \in IF g.game_over THEN LifeLost(g) ELSE Played(g, buttons)}

-----------------------------------------------------------------------------
\* What the pieces of a game must be at any moment: the walls stand, no full column
\* is left after a step, whichever way the columns were shifted, and the falling
\* piece is inside the field and overlaps nothing, unless the game is over.
FieldSound(g) ==
    /\ \A c \in Field : (g.field[c] = Wall) = (prvFieldInit[c] = Wall)
    /\ \A x \in 0..(WIDTH - 1) : \E y \in PlayRows : g.field[<<x, y>>] # Block
    /\ ~g.game_over => /\ Fits(g)
                       /\ PieceCells(g.piece_index, g.piece_rotation, g.piece_x, g.piece_y)
                              \subseteq Field
=============================================================================
