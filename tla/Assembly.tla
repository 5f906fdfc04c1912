------------------------------ MODULE Assembly ------------------------------
(***************************************************************************)
(* The assembler with the words it emits: program_.code as main() hands it *)
(* to the processor, beside the operations and immediates that Assembler   *)
(* keeps of it.                                                            *)
(***************************************************************************)
EXTENDS Assembler

VARIABLES
  words,     (* program_.code                                              *)
  operands   (* history: the registers the line of each word named         *)

wordVars == <<words, operands>>
assemblyVars == <<asmVars, wordVars>>

AssemblyInit == AsmInit /\ words = <<>> /\ operands = <<>>

(* NOP and HALT do not look at their operands.                             *)
Named == IF Statement.op \in {"NOP", "HALT", ".org"} THEN <<>> ELSE Statement.regs

(* emit_instruction, for each instruction that is new.                     *)
EmitWords ==
  LET new == Len(code') - Len(code)
  IN  /\ operands' = operands \o [k \in 1 .. new |-> Named]
      /\ words' = words \o
           [k \in 1 .. new |-> Encode(code'[Len(code) + k].op, Named, code'[Len(code) + k].imm)]

PatchWord ==
  LET i == Fixup.index
  IN  /\ words' = [words EXCEPT ![i] = Refilled(code'[i].op, operands[i], code'[i].imm, @)]
      /\ UNCHANGED operands

Fixing == status = "fixing" /\ status' = "fixing"
AssemblyNext ==
  \/ ApplyFixup /\ PatchWord
  \/ AsmNext /\ ~Fixing /\ EmitWords

AssemblySpec == AssemblyInit /\ [][AssemblyNext]_assemblyVars /\ WF_assemblyVars(AssemblyNext)
-----------------------------------------------------------------------------
(* The processor executes what the source says: in every word execute()    *)
(* finds the operation that was written, no register but those the line    *)
(* named, each in its place, and the immediate with its sign, although the *)
(* fields lie over each other, immediates may be negative, and a word may  *)
(* have been filled in after the fact (encode_*, apply_fixups, execute).   *)
ExecutesAs(op, named, imm, word) ==
  /\ {o \in CodeOps : OpcodeNumber[o] = OpcodeIn(word)} = {op}
  /\ \A k \in RegistersUsed(op) : k \in DOMAIN named /\ RegisterIn(word, k) = named[k]
  /\ op \notin PlainOps => ImmediateIn(op, word) = imm
WordsAsWritten ==
  /\ DOMAIN words = DOMAIN code
  /\ \A i \in DOMAIN words : ExecutesAs(code[i].op, operands[i], code[i].imm, words[i])

(* A branch or CALL to a label of the code arrives there: from the word    *)
(* that is executed, by the sum that execute() makes, comes the address    *)
(* every other use of the label has (parse_line, handle_instruction,       *)
(* apply_fixups, execute), and it is that of a word or of the end of the   *)
(* code.                                                                   *)
TargetWord(i) == i + ImmediateIn(code[i].op, words[i])
LabelsArrive ==
  status = "done" =>
    \A i \in DOMAIN words :
      code[i].op \in BranchOps /\ code[i].arg \in DOMAIN label_to_word =>
        4 * TargetWord(i) = symbols[code[i].arg] /\ TargetWord(i) \in 0 .. Len(words)
=============================================================================
