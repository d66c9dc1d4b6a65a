------------------------------ MODULE UartHello ------------------------------
(***************************************************************************)
(* The serial port of the PicoSoC (simpleuart.v, and what picosoc_noflash.v *)
(* does with it) and two programs that print through it: hello.c, and      *)
(* timer_hello.c, which prints how long it waited.  The programs' uart_putc *)
(* looks at no status: a store to the port waits on the bus while a byte   *)
(* is sent.  At the other end of the line is the receiving half of such a  *)
(* port, and somebody (external) who reads each byte within ReadClocks.    *)
(*                                                                         *)
(* A step is a clock, in which a program does at most one thing.  What is  *)
(* printed is a text, a number of one digit and the end of the line.       *)
(***************************************************************************)
EXTENDS Integers, Sequences, SequencesExt, TLC

CONSTANTS
    UART_CLKDIV,        \* 234 in timer_hello.c
    ResetDivider,       \* 562 in simpleuart.v
    Text, Digits,       \* bytes
    ReadClocks,
    CounterWrap,        \* 2^32
    TIMER_WAIT_TICKS

Byte == 0..255
NoStore == -1
LF == 10
CR == 13
ASSUME UartAssumption == {UART_CLKDIV, ResetDivider, ReadClocks} \subseteq Nat
ASSUME TextAssumption == Digits \subseteq Byte /\ Text \in Seq(Byte)
\* the loop that waits looks at the counter before it has come round
ASSUME CounterAssumption == /\ TIMER_WAIT_TICKS \in Nat /\ CounterWrap \in Nat
                            /\ TIMER_WAIT_TICKS + 3 < CounterWrap

VARIABLES
    cfg_divider, tx, rx,    \* simpleuart.v; rx is the one that receives
    store,                  \* the byte of the store that is on the bus, or NoStore
    unread,                 \* how long a byte has been received and not read
    timer_count,            \* REG_TIMER_COUNT
    app,                    \* the program: its name, where it is and its locals
    due, garbled,           \* history: bytes sent and not read, one was read wrong
    held                    \* history: how long the store has been on the bus

port == <<cfg_divider, tx, rx, store, unread, due, garbled, held>>
uvars == <<port, timer_count, app>>

-----------------------------------------------------------------------------
(***************************************************************************)
(* The port.  A divider of n means n + 1 clocks a bit.                     *)
(***************************************************************************)
active_divider(cfg) == IF cfg = 0 THEN 1 ELSE cfg

ser_tx == IF tx.busy THEN tx.shift % 2 ELSE 1
tx_start_always == store # NoStore          \* a byte being sent is not waited for
tx_start == store # NoStore /\ ~tx.busy

\* start bit, eight bits of data from the lowest, stop bit
Transmitter ==
    LET d == active_divider(cfg_divider)
    IN  tx' = CASE tx_start -> [busy |-> TRUE, divcnt |-> d, bitcnt |-> 0,
                                shift |-> 512 + 2 * store]
                [] tx.busy /\ ~tx_start /\ tx.divcnt > 0 -> [tx EXCEPT !.divcnt = @ - 1]
                [] tx.busy /\ ~tx_start /\ tx.divcnt = 0 ->
                      [busy |-> tx.bitcnt < 9, divcnt |-> d,
                       bitcnt |-> (tx.bitcnt + 1) % 10, shift |-> 512 + tx.shift \div 2]
                [] OTHER -> tx

\* half a bit late, so that bits are looked at in their middle
Receiver(reads) ==
    LET d == active_divider(UART_CLKDIV)
        r == [rx EXCEPT !.valid = @ /\ ~reads]
    IN  rx' = CASE ~rx.busy /\ ~rx.valid /\ ser_tx = 0 ->
                      [r EXCEPT !.busy = TRUE, !.divcnt = d + d \div 2, !.bitcnt = 0]
                [] rx.busy /\ rx.divcnt > 0 -> [r EXCEPT !.divcnt = @ - 1]
                [] rx.busy /\ rx.divcnt = 0 /\ rx.bitcnt < 8 ->
                      [r EXCEPT !.divcnt = d, !.bitcnt = @ + 1,
                                !.shift = 128 * ser_tx + @ \div 2]
                [] rx.busy /\ rx.divcnt = 0 /\ rx.bitcnt = 8 ->
                      [r EXCEPT !.divcnt = d, !.data = rx.shift,
                                !.valid = TRUE, !.busy = FALSE]
                [] OTHER -> r

\* a byte received is read at once, or later, or at last
Reads == IF ~rx.valid THEN {FALSE} ELSE IF unread < ReadClocks THEN BOOLEAN ELSE {TRUE}
Read(reads) ==
    /\ unread' = IF rx.valid /\ ~reads THEN unread + 1 ELSE 0
    /\ garbled' = (garbled \/ (reads /\ (due = <<>> \/ rx.data # Head(due))))
    /\ LET left == IF reads /\ due # <<>> THEN Tail(due) ELSE due
       IN  due' = IF tx_start THEN Append(left, store) ELSE left

UartClock ==
    /\ Transmitter
    /\ \E reads \in Reads : Receiver(reads) /\ Read(reads)
    /\ timer_count' = (timer_count + 1) % CounterWrap

-----------------------------------------------------------------------------
(***************************************************************************)
(* The programs.                                                           *)
(***************************************************************************)
uart_putc(c) == IF c = LF THEN <<CR, LF>> ELSE <<c>>
uart_puts(s) == FlattenSeq([n \in DOMAIN s |-> uart_putc(s[n])])
Lines == {uart_puts(Text) \o <<digit>> \o uart_putc(LF) : digit \in Digits}

\* a store stays on the bus until mem_ready
reg_dat_wait == store # NoStore /\ tx.busy
BusWait ==
    /\ store # NoStore
    /\ UartClock
    /\ store' = IF reg_dat_wait THEN store ELSE NoStore
    /\ held' = IF reg_dat_wait THEN held + 1 ELSE 0
    /\ UNCHANGED <<cfg_divider, app>>

Runs(from, next) ==
    /\ store = NoStore /\ app.pc = from
    /\ app' = next
    /\ UartClock
    /\ UNCHANGED held
Goes(from, next) == Runs(from, next) /\ UNCHANGED <<cfg_divider, store>>

SetClkdiv ==
    /\ Runs("boot", [app EXCEPT !.pc = "print", !.todo = uart_puts(Text)])
    /\ cfg_divider' = UART_CLKDIV
    /\ UNCHANGED store

\* between two characters the program takes as many clocks as it likes
PutChar ==
    /\ app.todo # <<>>
    /\ Runs("print", [app EXCEPT !.todo = Tail(@)])
    /\ store' = Head(app.todo)
    /\ UNCHANGED cfg_divider
Compute == Goes("print", app)
Printed == app.todo = <<>> /\ Goes("print", [app EXCEPT !.pc = app.again])

\* the loop of hello.c
Hello == \E line \in Lines : Goes("delay", [app EXCEPT !.pc = "print", !.todo = line])

\* the loop of timer_hello.c
Elapsed_signed(since) == timer_count - since        \* without the 32-bit difference
Elapsed(since) == (timer_count - since) % CounterWrap
ReadStart == Goes("start", [app EXCEPT !.pc = "timer_wait", !.start = timer_count])
timer_wait_start ==
    Goes("timer_wait", [app EXCEPT !.pc = "waiting", !.from = timer_count])
timer_wait_ticks ==
    Goes("waiting", [app EXCEPT
            !.pc = IF Elapsed(app.from) < TIMER_WAIT_TICKS THEN @ ELSE "end"])
ReadEnd ==
    \E line \in Lines : Goes("end", [app EXCEPT !.pc = "print", !.todo = line,
            !.delta = (timer_count - app.start) % CounterWrap, !.start = 0, !.from = 0])

Off == [busy |-> FALSE, divcnt |-> 0, bitcnt |-> 0]
UartInit ==
    /\ cfg_divider = ResetDivider
    /\ tx = Off @@ [shift |-> 1023]
    /\ rx = Off @@ [shift |-> 0, valid |-> FALSE, data |-> 0]
    /\ store = NoStore /\ unread = 0 /\ timer_count = 0
    /\ app \in {[pc |-> "boot", again |-> loop, todo |-> <<>>, start |-> 0, from |-> 0,
                 delta |-> TIMER_WAIT_TICKS] : loop \in {"delay", "start"}}
    /\ due = <<>> /\ garbled = FALSE /\ held = 0
UartNext == \/ BusWait \/ SetClkdiv \/ PutChar \/ Compute \/ Printed \/ Hello
            \/ ReadStart \/ timer_wait_start \/ timer_wait_ticks \/ ReadEnd

-----------------------------------------------------------------------------
\* Every byte a program prints arrives, once, unchanged and in order, although
\* nothing but the bus holds a program back that prints faster than the line; a
\* store is held for no more than the ten bits of the byte before it; and what
\* timer_hello.c prints is at least what it waited for, also when the counter comes
\* round meanwhile.
PrintedSound ==
    /\ ~garbled /\ Len(due) <= 2
    /\ held <= 10 * (active_divider(cfg_divider) + 1)
    /\ app.delta >= TIMER_WAIT_TICKS
=============================================================================
