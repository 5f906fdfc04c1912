------------------------------ MODULE Encoding ------------------------------
(***************************************************************************)
(* The instruction word: the encode_* functions of instruction_set.h, as   *)
(* the assembler calls them for each operation, and the fields execute()   *)
(* takes out of a word.  A word is an opcode, up to three registers, and   *)
(* an immediate that lies over the third or over the last two of them:     *)
(*                                                                         *)
(*    opcode | rd | rn | rm | .........                                    *)
(*    opcode | rd |     imm21                                              *)
(*    opcode | rd | rn |    | imm11                                        *)
(***************************************************************************)
EXTENDS Integers, Sequences

CONSTANTS
  Registers,  (* 32                                                        *)
  Near, Far,  (* half the range of an immediate: 2^10 and 2^20             *)
  OrWords(_, _)  (* the bitwise or of two words                            *)

(* What the lowest bit of each field of a word counts.                     *)
RmUnit == 2 * Near
RnUnit == Registers * RmUnit
RdUnit == Registers * RnUnit
OpUnit == Registers * RdUnit
FieldUnits == <<RdUnit, RnUnit, RmUnit>>

ASSUME EncodingAssumption ==
  /\ Registers \in Nat /\ Registers >= 2 /\ Registers % 2 = 0
  /\ Near \in Nat /\ Near >= 1 /\ Far \in Nat /\ 2 * Far = RdUnit

(* A bit that is set already may be set again: the lowest bit of rd.       *)
ASSUME OrAssumption ==
  \A h \in 0 .. 64 * Registers - 1, low \in 0 .. RdUnit - 1 :
    OrWords(h * RdUnit + low, (h % 2) * RdUnit) = h * RdUnit + low

Register == 0 .. Registers - 1
-----------------------------------------------------------------------------
(* The operations, by the operands the assembler requires.                 *)
LoadOps   == {"LOAD", "STORE", "LOADB", "STOREB", "LOADW", "STOREW"}
BranchOps == {"BRANCH", "BRANCHZ", "BRANCHNZ", "BRANCHGT", "BRANCHLT", "CALL"}
BareOps   == {"NOP", "HALT", "RET"}
SingleOps == {"GPUFLIP", "DMABLT", "INT", "PUSH", "POP", "GPUFILL", "GPURECT", "GPULINE",
              "GPUTRI", "GPUSPRITE", "GPUSETTARGET"}
PairOps   == {"GPUTEX", "NOT"}
TripleOps == {"GPUDRAW", "ADD", "SUB", "MUL", "DIV", "AND", "OR", "XOR", "SHL", "SHR", "CMP"}
PlainOps  == BareOps \cup SingleOps \cup PairOps \cup TripleOps
ImmediateOps == {"ADDI", "SUBI"} \cup LoadOps
CodeOps   == PlainOps \cup ImmediateOps \cup BranchOps \cup {"MOVI"}

RegistersOf(op) ==
  CASE op \in BareOps \cup {"BRANCH", "CALL"} -> 0
    [] op \in SingleOps \cup {"MOVI", "ADDI", "SUBI"} \cup (BranchOps \ {"BRANCH", "CALL"}) -> 1
    [] op \in PairOps \cup LoadOps -> 2
    [] op \in TripleOps -> 3

OpcodeNumber ==
  [ NOP |-> 0, ADD |-> 1, SUB |-> 2, MOVI |-> 3, LOAD |-> 4, STORE |-> 5, GPUDRAW |-> 6,
    GPUFILL |-> 7, BRANCH |-> 8, MUL |-> 9, DIV |-> 10, AND |-> 11, OR |-> 12, XOR |-> 13,
    NOT |-> 14, SHL |-> 15, SHR |-> 16, ADDI |-> 17, SUBI |-> 18, LOADB |-> 19, STOREB |-> 20,
    LOADW |-> 21, STOREW |-> 22, BRANCHZ |-> 23, BRANCHNZ |-> 24, BRANCHGT |-> 25,
    BRANCHLT |-> 26, PUSH |-> 27, POP |-> 28, CALL |-> 29, RET |-> 30, INT |-> 31,
    GPURECT |-> 32, GPULINE |-> 33, GPUTRI |-> 34, GPUSETTARGET |-> 35, GPUFLIP |-> 36,
    GPUTEX |-> 37, DMABLT |-> 38, CMP |-> 39, GPUSPRITE |-> 40, HALT |-> 63 ]
-----------------------------------------------------------------------------
EncodeR(op, rd, rn, rm) ==
  OpcodeNumber[op] * OpUnit + rd * RdUnit + rn * RnUnit + rm * RmUnit
EncodeI(op, rd, imm) == OpcodeNumber[op] * OpUnit + rd * RdUnit + (imm % RdUnit)
EncodeMemSpilling(op, rd, rn, imm) ==                               \* mutant
  OpcodeNumber[op] * OpUnit + rd * RdUnit + rn * RnUnit + imm
EncodeMem(op, rd, rn, imm) ==
  OpcodeNumber[op] * OpUnit + rd * RdUnit + rn * RnUnit + (imm % RmUnit)

(* The word of an operation with these registers; encode_single and        *)
(* encode_call are the first two forms with the rest left at zero.         *)
Given(named, k) == IF k <= Len(named) THEN named[k] ELSE 0
Encode(op, named, imm) ==
  CASE op \in PlainOps -> EncodeR(op, Given(named, 1), Given(named, 2), Given(named, 3))
    [] op \in LoadOps -> EncodeMem(op, Given(named, 1), Given(named, 2), imm)
    [] op \in {"ADDI", "SUBI", "MOVI"} \cup BranchOps -> EncodeI(op, Given(named, 1), imm)

(* A MOVI that is fixed up keeps the bits 17 to 21 of the word that was    *)
(* there: four bits of rn, and the lowest of rd.                           *)
KeptBits(word) == ((word \div (2 * RnUnit)) % Registers) * (2 * RnUnit)
Refilled(op, named, imm, word) ==
  IF op = "MOVI" THEN OrWords(Encode(op, named, imm), KeptBits(word)) ELSE Encode(op, named, imm)
-----------------------------------------------------------------------------
(* What execute() finds in a word.                                         *)
OpcodeIn(word) == word \div OpUnit
RegisterIn(word, k) == (word \div FieldUnits[k]) % Registers

SignExtended(v, half) == IF v < half THEN v ELSE v - 2 * half
ImmediateIn(op, word) ==
  IF op \in LoadOps THEN SignExtended(word % RmUnit, Near) ELSE SignExtended(word % RdUnit, Far)

(* The registers its case of the switch reads or writes by their number.   *)
RegistersUsed(op) ==
  CASE op \in BareOps \cup {"GPUFLIP", "BRANCH", "BRANCHGT", "BRANCHLT", "CALL"} -> {}
    [] op = "CMP" -> {2, 3}
    [] op \in TripleOps \ {"CMP"} -> {1, 2, 3}
    [] op \in PairOps \cup LoadOps -> {1, 2}
    [] op \in (SingleOps \ {"GPUFLIP"}) \cup {"ADDI", "SUBI", "MOVI", "BRANCHZ", "BRANCHNZ"} -> {1}
=============================================================================
