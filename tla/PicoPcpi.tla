------------------------------- MODULE PicoPcpi -------------------------------
(***************************************************************************)
(* Multiplication and division in picorv32.v: the core hands the           *)
(* instruction and its operands to the coprocessors picorv32_pcpi_mul and, *)
(* where it is there, picorv32_pcpi_div, waits until one of them is ready, *)
(* and takes the instruction for an illegal one when none has said in time *)
(* that it is at work.  A step is a clock; each part is a register file    *)
(* that all others see as it was before the clock.                         *)
(***************************************************************************)
EXTENDS Integers, FiniteSetsExt

CONSTANTS
    XLEN,           \* 32
    CARRY_CHAIN,    \* 4
    TimeoutClocks,  \* 15
    IrqClocks       \* from an illegal instruction to the first of its handler

ASSUME WidthAssumption == /\ XLEN \in Nat \ {0} /\ CARRY_CHAIN \in Nat \ {0}
                          /\ (2 * XLEN) % CARRY_CHAIN = 0
ASSUME ClocksAssumption == {TimeoutClocks, IrqClocks} \subseteq Nat

VARIABLES
    enable_div,     \* the parameter ENABLE_DIV
    core,           \* where the core is, what it executes, and pcpi_*
    mul, div,       \* the registers of the coprocessors
    wrong,          \* history: an instruction ended as it should not
    spent           \* history: clocks the instruction has taken

pcpivars == <<enable_div, core, mul, div, wrong, spent>>

Word == 0..(2^XLEN - 1)
Multiplications == {"mul", "mulh", "mulhsu", "mulhu"}
Divisions == {"div", "divu", "rem", "remu"}
IsNegative(n) == n >= 2^(XLEN - 1)
ToSigned(n) == IF IsNegative(n) THEN n - 2^XLEN ELSE n
Negated(n) == (2^XLEN - n) % 2^XLEN
none == "none"

-----------------------------------------------------------------------------
(***************************************************************************)
(* picorv32_pcpi_mul: one bit of rs1 a clock, the sum kept with the        *)
(* carries out of each group of CARRY_CHAIN bits apart.                    *)
(***************************************************************************)
Chains == {j \in 0..(2 * XLEN - 1) : j % CARRY_CHAIN = 0}
Group(n, j) == (n \div 2^j) % 2^CARRY_CHAIN
GroupSum(m, j) ==
    Group(m.rd, j) + Group(m.rdx, j) + (IF m.rs1 % 2 = 1 THEN Group(m.rs2, j) ELSE 0)

Accumulated(m) ==
    [m EXCEPT
        !.rd = MapThenSumSet(LAMBDA j : (GroupSum(m, j) % 2^CARRY_CHAIN) * 2^j, Chains),
        !.rdx = MapThenSumSet(LAMBDA j : (GroupSum(m, j) \div 2^CARRY_CHAIN)
                                            * 2^(j + CARRY_CHAIN), Chains) % 2^(2 * XLEN),
        !.rs1 = @ \div 2,
        !.rs2 = (2 * @) % 2^(2 * XLEN)]

Extended(n, signed) == IF signed THEN ToSigned(n) % 2^(2 * XLEN) ELSE n
High(op) == op \in {"mulh", "mulhsu", "mulhu"}
\* from the operation: the number of bits of rs1 to add
LastStep_short(op) == XLEN - 2      \* the upper half of rs1 is not looked at
LastStep(op) == IF High(op) THEN 2 * XLEN - 2 ELSE XLEN - 2

MulClock ==
    LET start == mul.wait /\ ~mul.wait_q
        m == IF mul.waiting
             THEN [mul EXCEPT !.rs1 = Extended(core.rs1, mul.op \in {"mulh", "mulhsu"}),
                              !.rs2 = Extended(core.rs2, mul.op = "mulh"),
                              !.rd = 0, !.rdx = 0, !.counter = LastStep(mul.op),
                              !.waiting = ~start, !.finish = FALSE]
             ELSE [Accumulated(mul) EXCEPT !.counter = @ - 1, !.waiting = mul.counter < 0,
                                           !.finish = mul.counter < 0]
    IN  mul' = [m EXCEPT
                !.op = IF core.valid /\ core.op \in Multiplications THEN core.op ELSE none,
                !.wait = mul.op # none, !.wait_q = mul.wait,
                !.ready = mul.finish,
                !.result = IF ~mul.finish THEN 0      \* only read when ready
                           ELSE IF High(mul.op) THEN mul.rd \div 2^XLEN
                           ELSE mul.rd % 2^XLEN]

-----------------------------------------------------------------------------
(***************************************************************************)
(* picorv32_pcpi_div: one bit of the quotient a clock, from the highest.   *)
(***************************************************************************)
Magnitude(n, op) == IF op \in {"div", "rem"} /\ IsNegative(n) THEN Negated(n) ELSE n
OutSign ==
    \/ /\ div.op = "div" /\ core.rs2 # 0
       /\ IsNegative(core.rs1) # IsNegative(core.rs2)
    \/ div.op = "rem" /\ IsNegative(core.rs1)

DivClock ==
    LET start == div.wait /\ ~div.wait_q
        ends == div.quotient_msk = 0 /\ div.running
        fits == div.divisor <= div.dividend
        out == IF div.op \in {"div", "divu"} THEN div.quotient ELSE div.dividend
        d == CASE start ->
                    [div EXCEPT !.running = TRUE, !.outsign = OutSign,
                                !.dividend = Magnitude(core.rs1, div.op),
                                !.divisor = Magnitude(core.rs2, div.op) * 2^(XLEN - 1),
                                !.quotient = 0, !.quotient_msk = 2^(XLEN - 1)]
               [] ~start /\ ends -> [div EXCEPT !.running = FALSE]
               [] ~start /\ ~ends ->
                    [div EXCEPT !.dividend = IF fits THEN @ - div.divisor ELSE @,
                                !.quotient = IF fits THEN @ + div.quotient_msk ELSE @,
                                !.divisor = @ \div 2, !.quotient_msk = @ \div 2]
    IN  div' = [d EXCEPT
                !.op = IF core.valid /\ ~div.ready /\ core.op \in Divisions
                       THEN core.op ELSE none,
                !.wait = div.op # none, !.wait_q = div.wait,
                !.ready = ~start /\ ends,
                !.result = IF ~start /\ ends THEN IF div.outsign THEN Negated(out) ELSE out
                           ELSE 0]

-----------------------------------------------------------------------------
(***************************************************************************)
(* The core.                                                               *)
(***************************************************************************)
pcpi_int_wait == mul.wait \/ (enable_div /\ div.wait)
pcpi_int_ready == mul.ready \/ (enable_div /\ div.ready)
pcpi_int_rd == IF mul.ready THEN mul.result ELSE div.result

\* what RISC-V's M extension says an instruction returns
Absolute(n) == IF n < 0 THEN -n ELSE n
Quotient(a, b) ==
    LET q == Absolute(a) \div Absolute(b) IN IF (a < 0) = (b < 0) THEN q ELSE -q
Defined(op, a, b) ==
    LET sa == ToSigned(a)
        sb == ToSigned(b)
    IN  CASE op = "mul"    -> (a * b) % 2^XLEN
          [] op = "mulh"   -> ((sa * sb) \div 2^XLEN) % 2^XLEN
          [] op = "mulhsu" -> ((sa * b) \div 2^XLEN) % 2^XLEN
          [] op = "mulhu"  -> (a * b) \div 2^XLEN
          [] op = "divu"   -> IF b = 0 THEN 2^XLEN - 1 ELSE a \div b
          [] op = "remu"   -> IF b = 0 THEN a ELSE a % b
          [] op = "div"    -> IF b = 0 THEN 2^XLEN - 1 ELSE Quotient(sa, sb) % 2^XLEN
          [] op = "rem"    -> IF b = 0 THEN a ELSE (sa - sb * Quotient(sa, sb)) % 2^XLEN
Implemented(op) == op \in Multiplications \/ enable_div

TimeoutCounter ==
    IF core.valid /\ ~pcpi_int_wait
    THEN IF core.timeout_counter > 0 THEN core.timeout_counter - 1 ELSE 0
    ELSE TimeoutClocks
Counted == [core EXCEPT !.timeout_counter = TimeoutCounter,
                        !.timeout = core.timeout_counter = 0]
\* the operands stay in reg_op1 and reg_op2 for a while; nobody looks at them
Ended(rest) == [Counted EXCEPT !.valid = FALSE, !.state = "fetch", !.rest = rest,
                               !.op = none, !.rs1 = 0, !.rs2 = 0]

PcpiClock == MulClock /\ (IF enable_div THEN DivClock ELSE UNCHANGED div)

\* other instructions, and the handlers of interrupts, come between
Fetch ==
    /\ core.state = "fetch"
    /\ core' = [Counted EXCEPT !.rest = IF @ > 0 THEN @ - 1 ELSE 0]
    /\ PcpiClock /\ UNCHANGED <<enable_div, wrong, spent>>

FetchMulDiv ==
    /\ core.state = "fetch" /\ core.rest = 0
    /\ \E op \in Multiplications \cup Divisions, rs1, rs2 \in Word :
          core' = [Counted EXCEPT !.state = "ld_rs1", !.op = op, !.rs1 = rs1, !.rs2 = rs2]
    /\ spent' = 0
    /\ PcpiClock /\ UNCHANGED <<enable_div, wrong>>

ld_rs1_waits ==
    /\ core.state = "ld_rs1" /\ ~pcpi_int_ready /\ ~core.timeout
    /\ core' = [Counted EXCEPT !.valid = TRUE]
    /\ spent' = spent + 1
    /\ PcpiClock /\ UNCHANGED <<enable_div, wrong>>

ld_rs1_ready ==
    /\ core.state = "ld_rs1" /\ pcpi_int_ready
    /\ core' = Ended(0)
    /\ wrong' = (wrong \/ ~Implemented(core.op)
                       \/ pcpi_int_rd # Defined(core.op, core.rs1, core.rs2))
    /\ PcpiClock /\ UNCHANGED <<enable_div, spent>>

ld_rs1_illegal ==
    /\ core.state = "ld_rs1" /\ ~pcpi_int_ready /\ core.timeout
    /\ core' = Ended(IrqClocks)
    /\ wrong' = (wrong \/ Implemented(core.op))
    /\ PcpiClock /\ UNCHANGED <<enable_div, spent>>

PcpiInit ==
    /\ enable_div \in BOOLEAN
    /\ core = [state |-> "fetch", rest |-> 0, op |-> none, rs1 |-> 0, rs2 |-> 0,
               valid |-> FALSE, timeout |-> FALSE, timeout_counter |-> TimeoutClocks]
    /\ mul = [op |-> none, wait |-> FALSE, wait_q |-> FALSE, waiting |-> TRUE,
              finish |-> FALSE, ready |-> FALSE, result |-> 0, counter |-> LastStep(none),
              rs1 |-> 0, rs2 |-> 0, rd |-> 0, rdx |-> 0]
    /\ div = [op |-> none, wait |-> FALSE, wait_q |-> FALSE, running |-> FALSE,
              ready |-> FALSE, result |-> 0, outsign |-> FALSE,
              dividend |-> 0, divisor |-> 0, quotient |-> 0, quotient_msk |-> 0]
    /\ wrong = FALSE /\ spent = 0
PcpiNext == Fetch \/ FetchMulDiv \/ ld_rs1_waits \/ ld_rs1_ready \/ ld_rs1_illegal

-----------------------------------------------------------------------------
\* Each multiplication and division ends, within two clocks for a bit of its
\* operands and a few more, with what the M extension defines, whatever came
\* before it and however soon; and one that the hardware has no unit for, and only
\* such a one, is an illegal instruction (the handshake of pcpi_wait and
\* pcpi_ready with pcpi_timeout; signs, zero divisors and the quotient that
\* overflows; the carries of the accumulator).
ArithmeticExact == ~wrong /\ spent <= 2 * XLEN + TimeoutClocks
=============================================================================
