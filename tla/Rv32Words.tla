------------------------------ MODULE Rv32Words ------------------------------
(***************************************************************************)
(* Words, addresses and the arithmetic of the base integer instructions,   *)
(* shared by the instruction set (Rv32) and the core that implements it    *)
(* (Soc).  A word is four bytes of ByteBits bits (8 in the hardware), a    *)
(* number from 0; an address is a byte's.                                  *)
(***************************************************************************)
EXTENDS Integers, Bitwise

CONSTANTS
    ByteBits,       \* the width of a byte
    Words,          \* the size of the memory, and of the program, in words
    LastReg         \* the registers are 0 .. LastReg

XLEN == 4 * ByteBits
Byte == 0 .. 2^ByteBits - 1
Word == 0 .. 2^XLEN - 1
Address == 0 .. 4 * Words - 1
Registers == 0 .. LastReg

Trunc(n) == n % 2^XLEN
Addr(n) == n % (4 * Words)          \* the upper bits of an address are not connected
SignExtend(n, bits) == IF n >= 2^(bits - 1) THEN Trunc(n - 2^bits) ELSE n
Signed(w) == IF w >= 2^(XLEN - 1) THEN w - 2^XLEN ELSE w

Fetch(prog, a) == prog[Addr(a) \div 4]

Alu(f, a, b) ==
    CASE f = "add" -> Trunc(a + b)
      [] f = "sub" -> Trunc(a - b)
      [] f = "slt" -> IF Signed(a) < Signed(b) THEN 1 ELSE 0
      [] f = "sltu" -> IF a < b THEN 1 ELSE 0
      [] f = "xor" -> a ^^ b
      [] f = "or" -> a | b
      [] f = "and" -> a & b
      [] f = "sll" -> Trunc(a * 2^(b % XLEN))
      [] f = "srl" -> a \div 2^(b % XLEN)
      [] f = "sra" -> Trunc(Signed(a) \div 2^(b % XLEN))

Taken(f, a, b) ==
    CASE f = "beq" -> a = b
      [] f = "bne" -> a # b
      [] f = "blt" -> Signed(a) < Signed(b)
      [] f = "bge" -> Signed(a) >= Signed(b)
      [] f = "bltu" -> a < b
      [] f = "bgeu" -> a >= b

Bytes(f) == CASE f \in {"b", "bu"} -> 1 [] f \in {"h", "hu"} -> 2 [] f = "w" -> 4
Aligned(f, a) == a % Bytes(f) = 0
=============================================================================
