--------------------------------- MODULE Rv32 ---------------------------------
(***************************************************************************)
(* What the processor core of the SoC (hardware/src/SoC.v) promises: the   *)
(* base integer instructions, one at a time, each seeing all the effects   *)
(* of those before it.  An instruction is a record of its fields; register *)
(* 0 reads as zero; the memory is an array of bytes, in which a word has   *)
(* its lowest byte first, and the program another.                         *)
(***************************************************************************)
EXTENDS Rv32Words

CONSTANT Volatile  \* the addresses of devices: a byte read there may be any

VARIABLES program, pc, regs, mem
vars == <<program, pc, regs, mem>>

-----------------------------------------------------------------------------
i == Fetch(program, pc)
Write(rd, v) == regs' = IF rd = 0 THEN regs ELSE [regs EXCEPT ![rd] = v]
Advance == pc' = Trunc(pc + 4)
a1 == regs[i.rs1]
a2 == regs[i.rs2]

Lui == i.op = "lui" /\ Write(i.rd, Trunc(i.imm)) /\ Advance /\ UNCHANGED mem
Auipc == i.op = "auipc" /\ Write(i.rd, Trunc(pc + i.imm)) /\ Advance /\ UNCHANGED mem
OpImm == i.op = "opimm" /\ Write(i.rd, Alu(i.f, a1, Trunc(i.imm))) /\ Advance /\ UNCHANGED mem
Op == i.op = "op" /\ Write(i.rd, Alu(i.f, a1, a2)) /\ Advance /\ UNCHANGED mem

Store ==
    /\ i.op = "store"
    /\ LET to == Addr(a1 + i.imm)
       IN  /\ Aligned(i.f, to)
           /\ mem' = [b \in Address |->
                        IF b \in to .. to + Bytes(i.f) - 1
                        THEN (a2 \div 2^(ByteBits * (b - to))) % 2^ByteBits
                        ELSE mem[b]]
    /\ Advance /\ UNCHANGED regs

Loaded(f, from) ==
    LET v == CASE Bytes(f) = 1 -> mem[from]
               [] Bytes(f) = 2 -> mem[from] + mem[from + 1] * 2^ByteBits
               [] Bytes(f) = 4 -> mem[from] + mem[from + 1] * 2^ByteBits
                    + mem[from + 2] * 2^(2 * ByteBits) + mem[from + 3] * 2^(3 * ByteBits)
    IN  IF f \in {"b", "h"} THEN SignExtend(v, Bytes(f) * ByteBits) ELSE v

Load ==
    /\ i.op = "load"
    /\ LET from == Addr(a1 + i.imm)
       IN  /\ Aligned(i.f, from)
           /\ IF from \in Volatile /\ i.f = "bu" THEN \E b \in Byte : Write(i.rd, b)
              ELSE Write(i.rd, Loaded(i.f, from))
    /\ Advance /\ UNCHANGED mem

Jal == i.op = "jal" /\ Write(i.rd, Trunc(pc + 4)) /\ pc' = Trunc(pc + i.imm) /\ UNCHANGED mem
Jalr == i.op = "jalr" /\ Write(i.rd, Trunc(pc + 4)) /\ pc' = Trunc(a1 + i.imm) /\ UNCHANGED mem
Branch ==
    /\ i.op = "branch"
    /\ pc' = Trunc(pc + (IF Taken(i.f, a1, a2) THEN i.imm ELSE 4))
    /\ UNCHANGED <<regs, mem>>

Next ==
    /\ UNCHANGED program
    /\ Lui \/ Auipc \/ OpImm \/ Op \/ Store \/ Load \/ Jal \/ Jalr \/ Branch

\* Execution starts at address 0, with the registers and the memory as they are.
Spec == pc = 0 /\ regs[0] = 0 /\ [][Next]_vars
=============================================================================
