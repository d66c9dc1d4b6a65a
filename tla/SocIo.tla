--------------------------------- MODULE SocIo --------------------------------
(***************************************************************************)
(* hardware/src/RAMIO.v with RAM.v, UartRx.v and UartTx.v: the memory      *)
(* behind four byte lanes, and the two halves of a serial port behind two  *)
(* addresses near the top.  Writing UART_OUT starts the transmitter;       *)
(* reading it gives the byte being sent, 0 when it may be written again.   *)
(* Reading UART_IN gives the byte received, 0 when there is none, and      *)
(* clears it.  All is clocked by the rising edge except the transmitter,   *)
(* by the falling one.  The LED register is left out.                      *)
(***************************************************************************)
EXTENDS Rv32Words, Sequences

CONSTANT BitTime        \* clock cycles per bit on the line
ASSUME BitTimeAssumption == BitTime \in Nat /\ BitTime > 1

VARIABLES
    data,           \* RAM.v: words of four bytes
    ram_doutA,      \* RAM.v: the word at the address of the last cycle
    io,             \* RAMIO.v: its registers
    rxu,            \* UartRx.v
    txu             \* UartTx.v

iovars == <<data, ram_doutA, io, rxu, txu>>

TOP_ADDR == 4 * Words - 1
ADDR_LEDS == TOP_ADDR
ADDR_UART_OUT == TOP_ADDR - 1
ADDR_UART_IN == TOP_ADDR - 2

Lane == 0 .. 3
ByteAt(n, b) == (n \div 2^(ByteBits * b)) % 2^ByteBits

-----------------------------------------------------------------------------
(***************************************************************************)
(* The memory.                                                             *)
(***************************************************************************)
ram_weA(w) ==                       \* the lanes written: none if misaligned
    LET lower == Addr(w.addrA) % 4
    IN  CASE w.weA = "b" -> {lower}
          [] w.weA = "h" -> IF lower \in {0, 2} THEN {lower, lower + 1} ELSE {}
          [] w.weA = "w" -> Lane
          [] OTHER -> {}
ram_dinA(w, lane) ==                \* a byte or half word is put on its lanes
    ByteAt(w.dinA, IF w.weA = "w" THEN lane ELSE lane - (Addr(w.addrA) % 4))

RamClock(w) ==
    LET a == Addr(w.addrA) \div 4
    IN  /\ data' = [data EXCEPT ![a] =
                [l \in Lane |-> IF l \in ram_weA(w) THEN ram_dinA(w, l) ELSE @[l]]]
        /\ ram_doutA' = data[a]

Half(l) == ram_doutA[l] + ram_doutA[l + 1] * 2^ByteBits
doutA ==
    LET lower == io.addrA_prev % 4
    IN  CASE io.reA_prev = "bu" /\ io.addrA_prev = ADDR_UART_OUT -> io.uarttx_data
          [] io.reA_prev = "bu" /\ io.addrA_prev = ADDR_UART_IN -> io.uartrx_data_read
          [] io.reA_prev = "bu" /\ io.addrA_prev \notin {ADDR_UART_OUT, ADDR_UART_IN} ->
                ram_doutA[lower]
          [] io.reA_prev = "b" -> SignExtend(ram_doutA[lower], ByteBits)
          [] io.reA_prev \in {"h", "hu"} /\ lower \in {1, 3} -> 0
          [] io.reA_prev = "hu" /\ lower \in {0, 2} -> Half(lower)
          [] io.reA_prev = "h" /\ lower \in {0, 2} -> SignExtend(Half(lower), 2 * ByteBits)
          [] io.reA_prev = "w" -> Half(0) + Half(2) * 2^(2 * ByteBits)
          [] OTHER -> 0

-----------------------------------------------------------------------------
(***************************************************************************)
(* The registers between the memory bus and the serial port.  Of two       *)
(* assignments to one register in a cycle the later in the text wins.      *)
(***************************************************************************)
ReadsUart == io.addrA_prev = ADDR_UART_IN /\ io.reA_prev = "bu"
Copies == rxu.dr /\ io.uartrx_go
Acknowledges_early == io.uarttx_go          \* before the byte has been sent
Acknowledges == ~txu.bsy /\ io.uarttx_go
WritesUart(w) == Addr(w.addrA) = ADDR_UART_OUT /\ w.weA = "b"

NextReceived_cleared == IF ReadsUart THEN 0 ELSE IF Copies THEN rxu.data ELSE io.uartrx_data_read
NextReceived == IF Copies THEN rxu.data ELSE IF ReadsUart THEN 0 ELSE io.uartrx_data_read
RamioClock(w) ==
    io' = [reA_prev |-> w.reA,
           addrA_prev |-> Addr(w.addrA),
           uartrx_data_read |-> NextReceived,
           uartrx_go |-> ~io.uartrx_go \/ ~Copies,
           uarttx_data |-> IF WritesUart(w) THEN ByteAt(w.dinA, 0)
                           ELSE IF Acknowledges THEN 0 ELSE io.uarttx_data,
           uarttx_go |-> WritesUart(w) \/ (io.uarttx_go /\ ~Acknowledges)]

-----------------------------------------------------------------------------
(***************************************************************************)
(* The receiver, which samples in the middle of each bit.                  *)
(***************************************************************************)
WithBit(n, b, v) == n - ((n \div 2^b) % 2) * 2^b + v * 2^b

UartRxClock(rx) ==
    LET r == rxu
        last == r.bit_counter = 0
    IN  rxu' =
        CASE r.state = "IDLE" ->
                IF rx = 0 /\ io.uartrx_go
                THEN [r EXCEPT !.bit_count = 0, !.bit_counter = BitTime \div 2 - 1,
                               !.state = "START_BIT"]
                ELSE r
          [] r.state = "START_BIT" ->
                IF last THEN [r EXCEPT !.bit_counter = BitTime - 1, !.state = "DATA_BITS"]
                ELSE [r EXCEPT !.bit_counter = @ - 1]
          [] r.state = "DATA_BITS" ->
                IF last
                THEN [r EXCEPT !.data = WithBit(@, r.bit_count, rx),
                               !.bit_counter = BitTime - 1,
                               !.bit_count = IF @ = ByteBits - 1 THEN 0 ELSE @ + 1,
                               !.state = IF r.bit_count = ByteBits - 1 THEN "STOP_BIT" ELSE @]
                ELSE [r EXCEPT !.bit_counter = @ - 1]
          [] r.state = "STOP_BIT" ->
                IF last THEN [r EXCEPT !.dr = TRUE, !.state = "WAIT_GO_LOW"]
                ELSE [r EXCEPT !.bit_counter = @ - 1]
          [] r.state = "WAIT_GO_LOW" ->
                IF ~io.uartrx_go THEN [r EXCEPT !.data = 0, !.dr = FALSE, !.state = "IDLE"]
                ELSE r

(***************************************************************************)
(* The transmitter, on the falling edge: half a cycle after a write it is  *)
(* busy, so that the write is not taken for a byte already sent.           *)
(***************************************************************************)
UartTxClock ==
    LET t == txu
        last == t.bit_time_counter = 0
        Sends(bit) == [t EXCEPT !.bit_time_counter = BitTime - 1, !.tx = bit]
    IN  txu' =
        CASE t.state = "IDLE" ->
                IF io.uarttx_go THEN [Sends(0) EXCEPT !.bsy = TRUE, !.state = "START_BIT"] ELSE t
          [] t.state \in {"START_BIT", "DATA_BITS", "STOP_BIT"} /\ ~last ->
                [t EXCEPT !.bit_time_counter = @ - 1]
          [] t.state = "START_BIT" /\ last ->
                [Sends(io.uarttx_data % 2) EXCEPT !.bit_count = 1, !.state = "DATA_BITS"]
          [] t.state = "DATA_BITS" /\ last ->
                IF t.bit_count = ByteBits
                THEN [Sends(1) EXCEPT !.bit_count = 0, !.state = "STOP_BIT"]
                ELSE [Sends((io.uarttx_data \div 2^t.bit_count) % 2) EXCEPT !.bit_count = @ + 1]
          [] t.state = "STOP_BIT" /\ last -> [t EXCEPT !.bsy = FALSE, !.state = "WAIT_GO_LOW"]
          [] t.state = "WAIT_GO_LOW" ->
                IF ~io.uarttx_go THEN [t EXCEPT !.state = "IDLE"] ELSE t

-----------------------------------------------------------------------------
IoInit(contents) ==
    /\ data = contents
    /\ ram_doutA = contents[0]
    /\ io = [reA_prev |-> "none", addrA_prev |-> 0, uartrx_data_read |-> 0, uartrx_go |-> TRUE,
             uarttx_data |-> 0, uarttx_go |-> FALSE]
    /\ rxu = [state |-> "IDLE", data |-> 0, bit_count |-> 0, bit_counter |-> 0, dr |-> FALSE]
    /\ txu = [state |-> "IDLE", bit_count |-> 0, bit_time_counter |-> 0, tx |-> 1, bsy |-> FALSE]
=============================================================================
