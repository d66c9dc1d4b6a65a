------------------------------ MODULE GameTasks ------------------------------
(***************************************************************************)
(* freertos_game.c and freertos_game_headless.c: the tasks that sample the *)
(* buttons, step the game, draw it and report on it.  They share a mailbox *)
(* of one item, the game behind xGameMutex and, in the headless program,   *)
(* the UART behind xPrintMutex.                                            *)
(*                                                                         *)
(* The kernel is taken at its word (module Queue shows it keeps it): the   *)
(* ready task of the highest priority runs, those of equal priority take   *)
(* turns, and the holder of a mutex runs at the priority of the task that  *)
(* waits for it.                                                           *)
(***************************************************************************)
EXTENDS TetriGame

CONSTANTS
    Apps,               \* subset of {"game", "headless"}
    Buttons,            \* the sets of buttons that may be pressed
    Period,             \* of each program, the delay of each task in ticks
    StartDelay          \* that of the render task before its first frame

VARIABLES
    app,                \* the program
    xGame,
    xInputQueue,        \* the mailbox, a sequence of at most one item
    holder,             \* of each mutex, None when it is free
    pc, delay,          \* of each task: its next step, the ticks it still sleeps
    input,              \* the game task's local
    drawn               \* ghost: the parts of the screen that show xGame as it is

vars == <<app, xGame, xInputQueue, holder, pc, delay, input, drawn>>

Tasks == {"input", "game", "render", "debug"}
None == "none"
Priority == [t \in Tasks |-> CASE t = "input" -> 3 [] t = "game" -> 2 [] OTHER -> 1]

-----------------------------------------------------------------------------
(* The kernel.  A task that finds a mutex taken stays before the take. *)
WaitsFor(t) == CASE pc[t] = "takeGame" -> "xGameMutex"
                 [] pc[t] = "takePrint" -> "xPrintMutex"
                 [] OTHER -> None
Blocked(t) == WaitsFor(t) # None /\ holder[WaitsFor(t)] # None
Ready(t) == delay[t] = 0 /\ pc[t] # "end" /\ ~Blocked(t)
uxPriority(t) ==        \* its own, or that of a task it keeps waiting
    LET held == {u \in Tasks : delay[u] = 0 /\ Blocked(u) /\ holder[WaitsFor(u)] = t}
    IN  CHOOSE p \in {Priority[u] : u \in held \cup {t}} :
            \A u \in held \cup {t} : Priority[u] <= p
Runs(t) == Ready(t) /\ \A u \in Tasks : Ready(u) => uxPriority(u) <= uxPriority(t)

At(t, l) == Runs(t) /\ pc[t] = l
Goto(t, l) == pc' = [pc EXCEPT ![t] = l]
vTaskDelay(t, l) == delay' = [delay EXCEPT ![t] = Period[app][t]] /\ Goto(t, l)
Take(t, m, l) ==
    /\ holder[m] = None
    /\ holder' = [holder EXCEPT ![m] = t] /\ Goto(t, l)
Give(m) == holder' = [holder EXCEPT ![m] = None]

-----------------------------------------------------------------------------
(* The input task, of the highest priority. *)
prvInputTask(b) ==
    /\ At("input", "loop")
    /\ xInputQueue' = <<b>>             \* xQueueOverwrite
    /\ vTaskDelay("input", "loop")
    /\ UNCHANGED <<xGame, holder, input, drawn>>

(* The game task. *)
Drain ==                                \* until the mailbox is empty
    /\ At("game", "loop") /\ Goto("game", "takeGame")
    /\ xInputQueue' = <<>>
    /\ input' = IF xInputQueue = <<>> THEN input ELSE Head(xInputQueue)
    /\ UNCHANGED <<xGame, holder, delay, drawn>>
TakeToStep ==
    /\ At("game", "takeGame") /\ Take("game", "xGameMutex", "step")
    /\ UNCHANGED <<xGame, xInputQueue, delay, input, drawn>>
\* whether a part of the screen that shows g also shows h: the end has its own picture
Looks(part, g, h) ==
    /\ g.the_end = h.the_end
    /\ g.the_end \/ IF part = "field" THEN g.field = h.field
                    ELSE <<g.piece_index, g.piece_rotation, g.piece_x, g.piece_y>>
                       = <<h.piece_index, h.piece_rotation, h.piece_x, h.piece_y>>
Step ==
    /\ At("game", "step")
    /\ xGame' \in tetrisaraj_game_step(xGame, input)
    /\ drawn' = {part \in drawn : Looks(part, xGame, xGame')}
    /\ Give("xGameMutex") /\ vTaskDelay("game", "loop")
    /\ UNCHANGED <<xInputQueue, input>>

(* The render task draws the field and then the piece over it. *)
TakeToRender ==
    /\ At("render", "takeGame")
    /\ Take("render", "xGameMutex", IF app = "game" THEN "look" ELSE "takePrint")
    /\ UNCHANGED <<xGame, xInputQueue, delay, input, drawn>>
\* (altered: the mutex is held for the flag only)
Look_unlocked ==
    /\ At("render", "look") /\ xGame.dirty /\ Goto("render", "field")
    /\ xGame' = [xGame EXCEPT !.dirty = FALSE] /\ Give("xGameMutex")
    /\ UNCHANGED <<xInputQueue, delay, input, drawn>>
\* (altered: the mutex is given back only after a drawing)
Look_giveInside ==
    /\ At("render", "look")
    /\ xGame' = [xGame EXCEPT !.dirty = FALSE]
    /\ IF xGame.dirty THEN Goto("render", "field") /\ UNCHANGED delay
       ELSE vTaskDelay("render", "takeGame")
    /\ UNCHANGED <<xInputQueue, holder, input, drawn>>
Look ==                                 \* nothing is drawn unless the game has changed
    /\ At("render", "look")
    /\ xGame' = [xGame EXCEPT !.dirty = FALSE]
    /\ Goto("render", IF xGame.dirty THEN "field" ELSE "give")
    /\ UNCHANGED <<xInputQueue, holder, delay, input, drawn>>
prvLockPrint ==
    /\ At("render", "takePrint") /\ Take("render", "xPrintMutex", "field")
    /\ UNCHANGED <<xGame, xInputQueue, delay, input, drawn>>
Draw(l, part, next) ==
    /\ At("render", l) /\ Goto("render", next)
    /\ drawn' = drawn \cup {part}
    /\ UNCHANGED <<xGame, xInputQueue, holder, delay, input>>
tetrisaraj_game_render ==
    Draw("field", "field", "piece")
    \/ Draw("piece", "piece", IF app = "game" THEN "give" ELSE "unlockPrint")
prvUnlockPrint ==
    /\ At("render", "unlockPrint") /\ Give("xPrintMutex") /\ Goto("render", "give")
    /\ UNCHANGED <<xGame, xInputQueue, delay, input, drawn>>
GiveAfterRender ==
    /\ At("render", "give") /\ Give("xGameMutex") /\ vTaskDelay("render", "takeGame")
    /\ UNCHANGED <<xGame, xInputQueue, input, drawn>>

(* The debug task of the headless program copies under one mutex, prints under the other. *)
DebugTake ==
    /\ At("debug", "takeGame") /\ Take("debug", "xGameMutex", "copy")
    /\ UNCHANGED <<xGame, xInputQueue, delay, input, drawn>>
DebugGive ==
    /\ At("debug", "copy") /\ Give("xGameMutex") /\ Goto("debug", "takePrint")
    /\ UNCHANGED <<xGame, xInputQueue, delay, input, drawn>>
DebugLock ==
    /\ At("debug", "takePrint") /\ Take("debug", "xPrintMutex", "print")
    /\ UNCHANGED <<xGame, xInputQueue, delay, input, drawn>>
DebugUnlock ==
    /\ At("debug", "print") /\ Give("xPrintMutex") /\ vTaskDelay("debug", "takeGame")
    /\ UNCHANGED <<xGame, xInputQueue, input, drawn>>

-----------------------------------------------------------------------------
(***************************************************************************)
(* A tick.  The input and the game task are done with a period before the  *)
(* next tick (some microseconds of work, 10 ms of time); drawing and       *)
(* printing may take any number of ticks.                                  *)
(***************************************************************************)
Tick ==
    /\ ~Ready("input") /\ ~Ready("game")
    /\ \E t \in Tasks : delay[t] > 0
    /\ delay' = [t \in Tasks |-> IF delay[t] = 0 THEN 0 ELSE delay[t] - 1]
    /\ UNCHANGED <<xGame, xInputQueue, holder, pc, input, drawn>>

Init ==
    /\ app \in Apps
    /\ xGame = tetrisaraj_game_init
    /\ xInputQueue = <<>>
    /\ holder = [m \in {"xGameMutex", "xPrintMutex"} |-> None]
    /\ pc = [t \in Tasks |-> CASE t \in {"input", "game"} -> "loop"
                              [] t = "render" -> "takeGame"
                              [] OTHER -> IF app = "headless" THEN "takeGame" ELSE "end"]
    /\ delay = [t \in Tasks |-> IF t = "render" /\ app = "game" THEN StartDelay ELSE 0]
    /\ input = {} /\ drawn = {}

InputTask == \E b \in Buttons : prvInputTask(b)
GameTask == Drain \/ TakeToStep \/ Step
RenderTask == TakeToRender \/ Look \/ prvLockPrint \/ tetrisaraj_game_render
              \/ prvUnlockPrint \/ GiveAfterRender
DebugTask == DebugTake \/ DebugGive \/ DebugLock \/ DebugUnlock
Next == (InputTask \/ GameTask \/ RenderTask \/ DebugTask \/ Tick) /\ UNCHANGED app

\* Time goes on; the input and the game task get their work done; the two of priority 1
\* take turns in what the others leave them (RoundRobin of module Scheduler).
Fairness ==
    /\ WF_vars(Tick /\ UNCHANGED app)
    /\ []<>~(Ready("input") \/ Ready("game"))
    /\ SF_vars(RenderTask /\ UNCHANGED app) /\ SF_vars(DebugTask /\ UNCHANGED app)
Spec == Init /\ [][Next]_vars
FairSpec == Spec /\ Fairness

-----------------------------------------------------------------------------
\* However the four tasks interleave, between two steps of the game the walls stand, no
\* column of the field stays full, and the piece is where it fits or the game is over.
GameSound == FieldSound(xGame)

\* Whenever xGameMutex is free and dirty is FALSE the screen shows the game as it is,
\* although dirty is cleared before the drawing: no step falls between the two, and
\* none between the drawing of the field and that of the piece (the headless program
\* draws every frame, and has drawn a whole one when it gives up the UART).
FrameShown ==
    /\ app = "game" /\ holder["xGameMutex"] = None /\ ~xGame.dirty => drawn = {"field", "piece"}
    /\ pc["render"] = "unlockPrint" => drawn = {"field", "piece"}

\* The game is stepped again and again: the render task, of a lower priority, gives
\* xGameMutex back, and it never waits for the UART while the debug task, which has the
\* UART, waits for the game.  And buttons held down long enough are what the game is
\* played with, although the mailbox keeps one item only and is overwritten as often as
\* the game looks, or more often.
GameGoesOn ==
    /\ []<>(pc["game"] = "step")
    /\ \A b \in Buttons :
          <>[][\A other \in Buttons \ {b} : ~prvInputTask(other)]_vars => <>[](input = b)
=============================================================================
