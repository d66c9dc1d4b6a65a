---------------------------------- MODULE Soc ---------------------------------
(***************************************************************************)
(* The SoC of hardware/src: core, memory and serial port on one clock, and *)
(* a terminal on the serial line.  The terminal is external: it sends      *)
(* bytes when it likes, at least StopBits after one another, and reads     *)
(* what the SoC sends in the middle of each bit.                           *)
(*                                                                         *)
(* The clock has two edges.  The rising one clocks everything but the      *)
(* transmitter, and the terminal, which has no clock of its own here.      *)
(***************************************************************************)
EXTENDS SocIo

CONSTANTS
    Programs,       \* what the instruction memory may hold
    Contents,       \* what the data memory holds at first
    Typed(_),       \* the bytes the terminal may send to a program
    StopBits,       \* how long the line is idle after a byte, in bits
    MaxOwed         \* the terminal waits while so many bytes are not echoed

VARIABLES
    instr,          \* RAM.v: the program, written by nobody
    cpu,            \* SoC.v: pc, pc_ir, ir, is_bubble, ld_rd, regs_we3
    rf,             \* Registers.v: mem
    clk,            \* the level of the clock
    boot,           \* history: clock cycles since the reset, up to 2
    line,           \* the terminal: what it sends, and what it receives
    owed,           \* history: bytes sent and not received back
    wrong           \* history: a byte came back that was not the next one owed

tvars == <<line, owed, wrong>>
cvars == <<instr, cpu, rf>>
socvars == <<cvars, iovars, tvars, clk, boot>>

-----------------------------------------------------------------------------
(***************************************************************************)
(* The core (SoC.v), its registers (Registers.v) and instruction memory    *)
(* (RAM.v): a pipeline of two stages.  While one instruction executes the  *)
(* next is fetched; a jump or a taken branch turns the one already fetched *)
(* into a bubble; a load delivers its data one cycle later, when the       *)
(* register file takes it through a port of its own and the next           *)
(* instruction has it forwarded.  An instruction is a record with all the  *)
(* fields its word has, used or not.                                       *)
(***************************************************************************)
ir == cpu.ir

rd1 == IF ir.rs1 = 0 THEN 0 ELSE rf[ir.rs1]
rd2 == IF ir.rs2 = 0 THEN 0 ELSE rf[ir.rs2]

\* the operands: data that a load delivers in this cycle is taken from the memory
rs1_dat_unforwarded == rd1
rs1_dat == IF cpu.regs_we3 /\ ir.rs1 = cpu.ld_rd THEN doutA ELSE rd1
rs2_dat == IF cpu.regs_we3 /\ ir.rs2 = cpu.ld_rd THEN doutA ELSE rd2

none == "none"
NoEffect == [rd_we |-> FALSE, rd_wd |-> 0, addrA |-> 0, dinA |-> 0, weA |-> none,
            reA |-> none, is_ld |-> FALSE, bubble |-> FALSE, pc_nxt |-> Trunc(cpu.pc + 4)]

Jump(w, to) == [w EXCEPT !.pc_nxt = Trunc(to), !.bubble = TRUE]
Result(w, v) == [w EXCEPT !.rd_we = TRUE, !.rd_wd = Trunc(v)]

\* what the instruction of this cycle drives (always @*)
Executed ==
    LET a == rs1_dat
        b == rs2_dat
    IN  CASE ir.op = "lui" -> Result(NoEffect, ir.imm)
          [] ir.op = "opimm" -> Result(NoEffect, Alu(ir.f, a, Trunc(ir.imm)))
          [] ir.op = "op" -> Result(NoEffect, Alu(ir.f, a, b))
          [] ir.op = "store" -> [NoEffect EXCEPT !.addrA = Trunc(a + ir.imm), !.dinA = b,
                                                !.weA = ir.f]
          [] ir.op = "load" -> [NoEffect EXCEPT !.addrA = Trunc(a + ir.imm), !.is_ld = TRUE,
                                               !.reA = ir.f]
          [] ir.op = "auipc" -> Result(NoEffect, cpu.pc_ir + ir.imm)
          [] ir.op = "jal" -> Jump(Result(NoEffect, cpu.pc), cpu.pc_ir + ir.imm)
          [] ir.op = "jalr" -> Jump(Result(NoEffect, cpu.pc), a + ir.imm)
          [] ir.op = "branch" -> IF Taken(ir.f, a, b)
                                 THEN Jump(NoEffect, cpu.pc_ir + ir.imm) ELSE NoEffect

Wires == IF cpu.is_bubble THEN NoEffect ELSE Executed

-----------------------------------------------------------------------------
\* the data of a load first, then the result, which may overwrite it
RegistersClock(w) ==
    LET loaded == IF cpu.regs_we3 THEN [rf EXCEPT ![cpu.ld_rd] = doutA] ELSE rf
    IN  rf' = IF w.rd_we THEN [loaded EXCEPT ![ir.rd] = w.rd_wd] ELSE loaded

\* a register the core's clock edge writes, with the instruction fetched for pc
CpuClock(w) ==
    /\ cpu' = [regs_we3 |-> w.is_ld, ld_rd |-> ir.rd, is_bubble |-> w.bubble,
               pc |-> w.pc_nxt, pc_ir |-> Trunc(w.pc_nxt - 4),
               ir |-> Fetch(instr, cpu.pc)]
    /\ RegistersClock(w)
    /\ UNCHANGED instr

\* At the end of a reset the instruction at 0 has been fetched, and pc is still 0.
CpuInit(programs) ==
    /\ instr \in programs
    /\ cpu = [regs_we3 |-> FALSE, ld_rd |-> 0, is_bubble |-> FALSE, pc |-> 0, pc_ir |-> 0,
              ir |-> Fetch(instr, 0)]
    /\ rf = [r \in Registers |-> 0]

-----------------------------------------------------------------------------
(***************************************************************************)
(* The terminal.                                                           *)
(***************************************************************************)
Quiet == [on |-> FALSE, byte |-> 0, t |-> 0]

uart_rx ==                          \* start bit, data from the lowest bit, stop bit
    LET bit == line.out.t \div BitTime
    IN  CASE ~line.out.on -> 1
          [] line.out.on /\ bit = 0 -> 0
          [] line.out.on /\ bit \in 1 .. ByteBits -> (line.out.byte \div 2^(bit - 1)) % 2
          [] line.out.on /\ bit > ByteBits -> 1

Sending(out) ==
    IF out.on
    THEN {IF out.t + 1 = (1 + ByteBits + StopBits) * BitTime THEN Quiet
          ELSE [out EXCEPT !.t = @ + 1]}
    ELSE {Quiet} \cup IF Len(owed) < MaxOwed
                     THEN {[on |-> TRUE, byte |-> b, t |-> 0] : b \in Typed(instr)} ELSE {}

Middle == line.in.t % BitTime = BitTime \div 2
Bit == line.in.t \div BitTime
Received == line.in.on /\ Middle /\ Bit = ByteBits + 1
Receiving ==
    LET in == line.in
    IN  CASE ~in.on -> IF txu.tx = 0 THEN [in EXCEPT !.on = TRUE, !.t = 1] ELSE in
          [] in.on /\ Received -> Quiet
          [] in.on /\ ~Received ->
                [in EXCEPT !.t = @ + 1,
                           !.byte = IF Middle /\ Bit \in 1 .. ByteBits
                                    THEN @ + txu.tx * 2^(Bit - 1) ELSE @]

TerminalClock ==
    /\ \E out \in Sending(line.out) : line' = [out |-> out, in |-> Receiving]
    /\ LET begun == ~line.out.on /\ line'.out.on
           left == IF Received /\ owed # <<>> THEN Tail(owed) ELSE owed
       IN  owed' = IF begun THEN Append(left, line'.out.byte) ELSE left
    /\ wrong' = (wrong \/ (Received /\ (owed = <<>> \/ line.in.byte # Head(owed) \/ txu.tx = 0)))

-----------------------------------------------------------------------------
PosEdge ==
    /\ clk = 0 /\ clk' = 1
    /\ LET w == Wires
       IN  CpuClock(w) /\ RamClock(w) /\ RamioClock(w)
    /\ UartRxClock(uart_rx)
    /\ TerminalClock
    /\ boot' = IF boot < 2 THEN boot + 1 ELSE 2
    /\ UNCHANGED txu

NegEdge ==
    /\ clk = 1 /\ clk' = 0
    /\ UartTxClock
    /\ UNCHANGED <<cvars, data, ram_doutA, io, rxu, tvars, boot>>

SocInit(programs) ==
    /\ CpuInit(programs) /\ IoInit(Contents)
    /\ line = [out |-> Quiet, in |-> Quiet]
    /\ owed = <<>> /\ wrong = FALSE
    /\ clk = 0 /\ boot = 0

SocNext == PosEdge \/ NegEdge

-----------------------------------------------------------------------------
(***************************************************************************)
(* Properties.                                                             *)
(***************************************************************************)

\* What the program sees.  The core is about to execute the instruction at pc_ir, or
\* at pc when a bubble comes first; a load of the last cycle is in the register it is
\* about to be written to.  The first cycle after a reset executes the instruction at
\* 0, and so does the second: what it did the first time is left out.
absPc == IF cpu.is_bubble THEN cpu.pc ELSE cpu.pc_ir
absRegs == [r \in Registers |->
                IF r = 0 \/ boot < 2 THEN 0
                ELSE IF cpu.regs_we3 /\ cpu.ld_rd = r THEN doutA ELSE rf[r]]
absMem == [b \in Address |-> data[b \div 4][b % 4]]

\* The pipeline executes one instruction after the other as RV32I defines them:
\* whatever is forwarded, turned into a bubble, written late or put on a byte lane,
\* registers, memory and program counter change as if each instruction had finished
\* before the next began.
Rv32 == INSTANCE Rv32 WITH program <- instr, pc <- absPc, regs <- absRegs, mem <- absMem,
                           Volatile <- {ADDR_UART_OUT, ADDR_UART_IN}
IsRv32 == Rv32!Spec

\* A program that echoes returns to the terminal what the terminal sends, each byte
\* once, unchanged and in order, whatever the two ends of the line are doing when a
\* byte arrives.
EchoedInOrder == ~wrong

\* Nor does it lose one: a terminal that waits since as many bytes as it may send
\* ahead are not back will not wait for ever.
EchoComesBack == Len(owed) = MaxOwed ~> Len(owed) < MaxOwed

\* Register 0 reads as zero, as Registers.v:23 and :36 say: an instruction that does
\* execute and names it as an operand is given 0.
ZeroReadsZero ==
    ~cpu.is_bubble => (ir.rs1 = 0 => rs1_dat = 0) /\ (ir.rs2 = 0 => rs2_dat = 0)
=============================================================================
