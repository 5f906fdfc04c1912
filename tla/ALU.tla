-------------------------------- MODULE ALU ---------------------------------
(***************************************************************************)
(* The register-to-register arithmetic and logic of CPU::execute.  Every   *)
(* result is a uint64_t, so it is taken modulo 2^64 (B8).  The bitwise     *)
(* operations act on each byte alone: their tables on one byte are         *)
(* constants, which keeps the module independent of the width of a byte.   *)
(***************************************************************************)
EXTENDS Memory

CONSTANTS
  ByteBits,                      (* bits of a byte                         *)
  ByteAnd, ByteOr, ByteXor       (* the operations on two bytes            *)

ASSUME ALUAssumption ==
  /\ ByteBits \in Nat \ {0} /\ B = 2^ByteBits
  /\ {ByteAnd, ByteOr, ByteXor} \subseteq [Byte \X Byte -> Byte]
  /\ \A k \in 0 .. 8 * ByteBits - 1 : 2^k \in Nat \ {0}

(* Weight[k] is the value of a one in byte k.                              *)
Weight == [k \in 0 .. 7 |->
             (IF k % 2 = 1 THEN B ELSE 1) * (IF (k \div 2) % 2 = 1 THEN B2 ELSE 1)
                                          * (IF k > 3 THEN B4 ELSE 1)]

ByteAt(x, k) == (x \div Weight[k]) % B

(* The value of eight bytes, the lowest first.                             *)
Joined(b) ==
  Weight[0] * b[0] + Weight[1] * b[1] + Weight[2] * b[2] + Weight[3] * b[3]
    + Weight[4] * b[4] + Weight[5] * b[5] + Weight[6] * b[6] + Weight[7] * b[7]

Bytewise(f, x, y) == Joined([k \in 0 .. 7 |-> f[<<ByteAt(x, k), ByteAt(y, k)>>]])

(* `reg(rm) & 63`: a shift count is taken modulo the bits of a register.   *)
ShiftCount(y) == y % (8 * ByteBits)

AluOps == {"ADD", "SUB", "MUL", "DIV", "AND", "OR", "XOR", "NOT", "SHL", "SHR"}

(* The value an instruction of AluOps leaves in rd; the caller excludes a  *)
(* division by zero.  The low 64 bits of a product do not depend on the    *)
(* signs of its factors, and signed factors keep it within TLC's integers. *)
Alu(op, x, y) ==
  Wrap(CASE op = "ADD" -> x + y
         [] op = "SUB" -> x - y
         [] op = "MUL" -> Signed(x) * Signed(y)
         [] op = "DIV" -> IF y = 0 THEN 0 ELSE x \div y
         [] op = "AND" -> Bytewise(ByteAnd, x, y)
         [] op = "OR"  -> Bytewise(ByteOr, x, y)
         [] op = "XOR" -> Bytewise(ByteXor, x, y)
         [] op = "NOT" -> -1 - x
         [] op = "SHL" -> x * 2^ShiftCount(y)
         [] op = "SHR" -> x \div 2^ShiftCount(y))
=============================================================================
