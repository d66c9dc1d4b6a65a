------------------------------ MODULE MCBoards ------------------------------
(***************************************************************************)
(* The two boards, each with one of the programs it is given.              *)
(*                                                                         *)
(* The PicoRV32 runs the kernel's portable layer: the port (PicoPort) or   *)
(* heap_4 with its callers (TaskMemory).  The heap needs of the port only  *)
(* that a suspended scheduler makes a call of the allocator one step.      *)
(*                                                                         *)
(* The SoC runs instructions on the hardware (Soc), the command shell of   *)
(* os.c (PerformanceLab) or the text adventure (Adventure).  The latter    *)
(* two are as their C source has them and take whole characters or words:  *)
(* that the serial port delivers the characters typed is what Soc shows.   *)
(*                                                                         *)
(* So they are looked at one at a time; the others stay as they start.     *)
(***************************************************************************)
EXTENDS PicoPort, TaskMemory, Soc, PerformanceLab, Adventure

CONSTANT Images     \* those that are looked at

VARIABLE image      \* what a board was loaded with

kernelVars == <<vars, memoryVars>>
shellVars == <<lvars, avars>>
boardVars == <<kernelVars, socvars, shellVars, image>>

BoardsInit ==
    /\ image \in Images
    /\ Init /\ MemoryInit
    /\ SocInit(IF image = "instructions" THEN Programs ELSE {CHOOSE p \in Programs : TRUE})
    /\ LabInit /\ AdventureInit
BoardsNext ==
    \/ image = "port" /\ Next /\ UNCHANGED <<memoryVars, socvars, shellVars, image>>
    \/ image = "heap" /\ MemoryNext /\ UNCHANGED <<vars, socvars, shellVars, image>>
    \/ image = "instructions" /\ SocNext /\ UNCHANGED <<kernelVars, shellVars, image>>
    \/ image = "lab" /\ LabNext /\ UNCHANGED <<kernelVars, socvars, avars, image>>
    \/ image = "adventure" /\ AdventureNext /\ UNCHANGED <<kernelVars, socvars, lvars, image>>

\* Each program's own promise, after any sequence of commands: the adventure has
\* everything in one place, and the score does not depend on what was run before.
ProgramsSound == EverythingInOnePlace /\ ScoreRepeats

(***************************************************************************)
(* Fairness: on the PicoRV32 no instruction takes for ever, and no code    *)
(* stays for ever in a critical section it could leave; the heap's callers *)
(* may stop.  The clock of the SoC does not stop.                          *)
(***************************************************************************)
BoardsSpec ==
    /\ BoardsInit /\ [][BoardsNext]_boardVars
    /\ WF_vars(image = "port" /\ (Entry \/ Program))
    /\ \A n \in 1..MaxNest : SF_vars(image = "port" /\ ExitFrom(n))
    /\ WF_socvars(image = "instructions" /\ SocNext)
-----------------------------------------------------------------------------
\* The instance: the port with three tasks; a heap of some twelve units of alignment,
\* with requests that fit, fragment it, exceed it, and overflow size_t.
CONSTANTS one, two, three, idle, app
MCTasks == {one, two, three}
MCCallers == {idle, app}
MCStackDepths == {1, 4, 63}
MCQueueShapes == {<<1, 1>>, <<3, 1>>, <<8, 8>>}
MCCallocs == {<<2, 2>>, <<31, 1>>, <<32, 2>>, <<0, 1>>}

(***************************************************************************)
(* The instance: bytes of two bits, hence words of eight, four registers   *)
(* and a memory of eight words, and the programs it runs: the loop of      *)
(* hardware/etc/samples/echo.c, and every sequence of InstructionsTried    *)
(* instructions of a set that holds each kind of the base set, between a   *)
(* first instruction that may be executed twice and a jump to itself.      *)
(* The other programs have the sizes the configuration gives them, so that *)
(* lists and lines fill up.                                                *)
(***************************************************************************)
CONSTANT InstructionsTried

I(op, f, rd, rs1, rs2, imm) == [op |-> op, f |-> f, rd |-> rd, rs1 |-> rs1, rs2 |-> rs2, imm |-> imm]

\* run() of echo.c after its greeting: x3 is 4 * Words - 4, x1 the byte.
Echo ==
    << I("lui", "", 3, 0, 0, 28),
       I("load", "bu", 1, 3, 1, 1),             \* while ((ch = *uart_in) == 0)
       I("branch", "beq", 0, 1, 0, -4),
       I("load", "bu", 2, 3, 2, 2),             \* while (*uart_out)
       I("branch", "bne", 0, 2, 0, -4),
       I("store", "b", 2, 3, 1, 2),             \* *uart_out = ch
       I("store", "b", 3, 3, 1, 3),             \* *leds = ch
       I("jal", "", 0, 3, 0, -24) >>

Kinds ==
    { I("opimm", "add", 1, 1, 3, 3), I("opimm", "sra", 2, 1, 2, 1), I("op", "sub", 1, 2, 1, 0),
      I("op", "sltu", 2, 1, 2, 0), I("op", "add", 0, 1, 1, 0),
      I("load", "w", 1, 0, 1, 4), I("load", "b", 2, 0, 3, 10), I("load", "hu", 1, 0, 2, 6),
      I("store", "w", 1, 0, 1, 4), I("store", "b", 2, 0, 1, 5), I("store", "h", 1, 0, 2, 6),
      I("lui", "", 2, 1, 1, 64), I("opimm", "slt", 1, 2, 1, -3), I("auipc", "", 2, 1, 1, 4),
      I("jal", "", 3, 1, 2, 8), I("jalr", "", 1, 3, 1, 16),
      I("branch", "blt", 1, 1, 2, 8), I("branch", "bgeu", 2, 2, 1, 8) }

Stop == I("jal", "", 0, 0, 0, 0)
Trying(tried) == [n \in 0 .. Words - 1 |->
    CASE n = 0 -> I("lui", "", 1, 0, 0, 178)
      [] n \in DOMAIN tried -> tried[n]
      [] OTHER -> Stop]

MCPrograms == {[n \in 0 .. Words - 1 |-> Echo[n + 1]]}
    \cup {Trying(tried) : tried \in [1 .. InstructionsTried -> Kinds]}
\* a load whose data nobody wants, as of a device, and an instruction that reads 0
MCZeroPrograms == {Trying(<<I("load", "b", 0, 0, 1, 4), I("op", "add", 2, 0, 0, 0)>>)}

MCTyped(program) == IF program[1].f = "bu" THEN {1, 2} ELSE {}

\* the bytes of the memory, some with their highest bit set
MCContents == [n \in 0 .. Words - 1 |-> [l \in 0 .. 3 |-> (n + l * l) % 2^ByteBits]]

MCCommands == << <<"b">>, <<"c">>, <<"b", "c">>, <<"c", "b">>, <<"c", "c">> >>
MCCommandOf == [l \in {MCCommands[n] : n \in 1 .. 5} |->
    CASE l = <<"b">> -> "bench" [] l = <<"c">> -> "cpu" [] l = <<"b", "c">> -> "memory"
      [] l = <<"c", "b">> -> "led" [] l = <<"c", "c">> -> "reset"]
=============================================================================
