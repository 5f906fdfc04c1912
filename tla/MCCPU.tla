------------------------------- MODULE MCCPU --------------------------------
(***************************************************************************)
(* Instances of CPU for TLC: bytes of two bits, four registers (R2 links,  *)
(* R3 is the stack pointer), 32 bytes for code, four vectors at 32, the    *)
(* GPU window at 64 .. 135 and the first push at 144.                      *)
(***************************************************************************)
EXTENDS CPU, Bitwise

I(op, rd, rn, rm, imm) == [op |-> op, rd |-> rd, rn |-> rn, rm |-> rm, imm |-> imm]

ControlTable == <<
  I("NOP", 0, 0, 0, 0),      I("HALT", 0, 0, 0, 0),     I("INT", 1, 0, 0, 0),
  I("RET", 0, 0, 0, 0),      I("CALL", 0, 0, 0, 0),     I("BRANCH", 0, 0, 0, -1),
  I("BRANCH", 0, 0, 0, -3),  I("BRANCHZ", 0, 0, 0, -2), I("BRANCHNZ", 0, 0, 0, 1),
  I("BRANCHGT", 0, 0, 0, 1), I("BRANCHLT", 0, 0, 0, 1), I("CMP", 0, 0, 1, 0),
  I("POP", 2, 0, 0, 0),      I("PUSH", 0, 0, 0, 0),     I("MOVI", 0, 0, 0, 1),
  I("MOVI", 1, 0, 0, -4),    I("ADD", 0, 0, 1, 0),      I("DIV", 0, 1, 0, 0) >>

(* Addresses around the ends of memory, of the window and of the 64-bit    *)
(* space, and in the window the mode register and the command port.        *)
Addresses == << -8, -4, -2, -1, 0, 57, 60, 63, 64, 112, 120, 128, 129, 132, 135,
                136, 160, 161, 164, 166, 167, 168 >>
AddressTable == [k \in 1 .. Len(Addresses) |-> I("MOVI", 1, 0, 0, Addresses[k])]

(* Operands in R0, and the instructions that use the address in R1.        *)
OperandTable == << I("MOVI", 0, 0, 0, 1), I("MOVI", 0, 0, 0, 6), I("MOVI", 0, 0, 0, 27),
                   I("MOVI", 0, 0, 0, -2) >>
AccessTable ==
  << I("LOAD", 0, 1, 0, 0),   I("LOADW", 0, 1, 0, 0),  I("LOADB", 0, 1, 0, 0),
     I("STORE", 0, 1, 0, 0),  I("STOREW", 0, 1, 0, 0), I("STOREB", 0, 1, 0, 0),
     I("STORE", 0, 1, 0, -8), I("LOAD", 0, 1, 0, 4),
     I("GPURECT", 1, 0, 0, 0), I("GPUSETTARGET", 0, 0, 0, 0) >>

(* Textures and sprites, from the descriptors of DrawPatch.                *)
DrawTable ==
  << I("MOVI", 1, 0, 0, 24),    I("GPUTEX", 1, 0, 0, 0),    I("GPUSPRITE", 1, 0, 0, 0),
     I("DMABLT", 1, 0, 0, 0),   I("ADDI", 1, 0, 0, 12),     I("GPUDRAW", 0, 1, 0, 0) >>
StackTable ==
  << I("ADD", 3, 1, 2, 0), I("PUSH", 0, 0, 0, 0), I("PUSH", 3, 0, 0, 0),
     I("POP", 0, 0, 0, 0), I("POP", 3, 0, 0, 0), I("INT", 0, 0, 0, 0) >>
AluTable ==
  << I("SUB", 0, 1, 0, 0), I("MUL", 0, 1, 0, 0), I("DIV", 0, 1, 0, 0),
     I("AND", 0, 1, 0, 0), I("OR", 0, 1, 0, 0),  I("XOR", 0, 1, 0, 0),
     I("NOT", 0, 1, 0, 0), I("SHL", 0, 1, 0, 0), I("SHR", 0, 1, 0, 0),
     I("ADDI", 0, 0, 0, 1), I("SUBI", 0, 0, 0, 1), I("CMP", 0, 0, 1, 0) >>
MinimumTable == << I("MOVI", 0, 0, 0, -32768) >>

Table == ControlTable \o AddressTable \o OperandTable \o AccessTable \o StackTable
           \o AluTable \o DrawTable \o MinimumTable

(* The word with number k decodes to the k-th instruction of Table, and    *)
(* every word after the last to an opcode the code does not know.          *)
DecodeTable ==
  [w \in Word |-> IF w < Len(Table) THEN Table[w + 1] ELSE I("UNKNOWN", 0, 0, 0, 0)]

(* The word of each instruction of a sequence; Asm(s) is a program.        *)
Asm(s) == [k \in 1 .. Len(s) |-> CHOOSE w \in 0 .. Len(Table) - 1 : Table[w + 1] = s[k]]
InSeq(s) == {s[k] : k \in 1 .. Len(s)}

TwoBitAnd == [p \in Byte \X Byte |-> p[1] & p[2]]
TwoBitOr  == [p \in Byte \X Byte |-> p[1] | p[2]]
TwoBitXor == [p \in Byte \X Byte |-> p[1] ^^ p[2]]

(* Programs of two instructions, and some in which a call, a handler that  *)
(* returns through the stack or the link register, and a second request    *)
(* meet.                                                                   *)
ControlWords == {0, 1, 2, 3, 5}
ControlPrograms ==
  [1 .. 2 -> ControlWords] \cup
  { <<2, 1, 12, 3>>,      \* INT; HALT; handler at 8: POP LR; RET
    <<2, 2, 3>>,          \* INT; INT; RET
    <<4, 2, 6>>,          \* CALL; INT; BRANCH back
    Asm(<<StackTable[1], StackTable[2]>>),   \* SP := 0; PUSH: the stack wraps
    <<14, 7, 8, 5, 1>> }  \* MOVI; BRANCHZ; BRANCHNZ over a BRANCH to itself
Vector1(handler) == [address |-> 40, bytes |-> <<handler % 4, handler \div 4>>]
ControlPatches == {Vector1(4), Vector1(8)}
ControlBreaks == {{}, {4}, {8}}
ControlLimits == {3}

(* Every access, and every push, pop and interrupt entry with the stack    *)
(* there, at every address of Addresses; every operand stored to the mode  *)
(* register and the command port; and the arithmetic.                      *)
BusPrograms ==
  {Asm(<<a, OperandTable[1], x>>) : a \in InSeq(AddressTable), x \in InSeq(AccessTable)} \cup
  {Asm(<<a, StackTable[1], x, x>>) : a \in InSeq(AddressTable), x \in InSeq(Tail(StackTable))} \cup
  {Asm(<<AddressTable[10], o, AccessTable[4], AddressTable[11], AccessTable[6]>>) :
     o \in InSeq(OperandTable)} \cup
  {Asm(<<a, o, x>>) : a \in {AddressTable[1], AddressTable[11]},
                      o \in InSeq(OperandTable), x \in InSeq(AluTable)}
NoPatches == {}
NoBreaks == {}
BusLimits == {4}

(* At 24 a texture of one by two pixels, the second of them in the window, *)
(* and at 36 a sprite that shows texture 1 whole, or one row more of it.   *)
Bytes(w) == [k \in 1 .. 4 |-> ByteOf(w, k - 1)]
Segment(a, ws) ==
  [address |-> a, bytes |-> [k \in 1 .. 4 * Len(ws) |-> Bytes(ws[(k + 3) \div 4])[((k - 1) % 4) + 1]]]
DrawPatches == { Segment(24, <<1, 2, 60, 1, 0, 0, 1, h, 1>>) : h \in {2, 3, 254} }

(* Segments that end at 2^64 or behind it: over the registers and the      *)
(* first bytes of memory, and over the registers and the byte before them. *)
Wrapping(before, after) ==
  [address |-> B8 - before, bytes |-> [k \in 1 .. before + after |-> k % 3]]
WrapPatches == {Wrapping(32, 2), Wrapping(33, 0)}
WindowPatches == DrawPatches \cup WrapPatches

DrawPrograms ==
  {Asm(<<DrawTable[1], DrawTable[j], DrawTable[5], DrawTable[k], DrawTable[6]>>) :
     j \in {2, 4, 6}, k \in {2, 3, 4}}

(* The least value compared with a positive one and with itself; and       *)
(* programs that end in the window, behind it, and beyond memory, whose    *)
(* words run a command when they reach the command port.                   *)
LimitPrograms ==
  {Asm(<<MinimumTable[1], a, AluTable[12]>>) : a \in {AddressTable[4], AddressTable[6]}} \cup
  {[k \in 1 .. n |-> (k + w) % 9] : n \in {18, 36, 42, 43}, w \in {1, 5}}

WindowPrograms == BusPrograms \cup DrawPrograms \cup LimitPrograms
=============================================================================
