----------------------------- MODULE MCGameTasks -----------------------------
EXTENDS GameTasks

\* a field of 11 columns and 4 rows to play in
MCPieceKinds == <<3>>
MCButtons == {{"up", "left"}, {"down", "right", "center"}}

\* as multiples of 20 ms, and of the 50 ms of the headless input, rounded and cut short
MCPeriod ==
    [game     |-> [input |-> 1, game |-> 2, render |-> 2, debug |-> 0],
     headless |-> [input |-> 1, game |-> 1, render |-> 2, debug |-> 2]]
=============================================================================
