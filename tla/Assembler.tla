----------------------------- MODULE Assembler ------------------------------
(***************************************************************************)
(* class Assembler (assembler.cpp): one pass over the source and the files *)
(* it includes, which emits instructions and data patches and leaves a     *)
(* fixup wherever the operand of a MOVI, a branch or a CALL is not known   *)
(* yet, and a second over the fixups.                                      *)
(*                                                                         *)
(* A source is a sequence of statements per file.  A statement has an      *)
(* operation, an argument and further operands, all of them tokens;        *)
(* "lab: ADD .." is two statements, as in parse_line.  Literal gives the   *)
(* number a token spells.  The registers of an instruction come before its *)
(* operand.  A line the parser cannot read (an unknown mnemonic, a bad     *)
(* register) is the statement "malformed".                                 *)
(***************************************************************************)
EXTENDS Memory, Encoding, Ranks

CONSTANTS
  Token, Literal,  (* the operands, and the numbers some of them spell     *)
  File, Main,      (* the files, and the source that is assembled          *)
  Sources,         (* what the files may contain                           *)
  MaxOpen          (* how many files the process can hold open             *)

Directives == {".section", ".org", ".data", ".word", ".byte", ".include", ".equ"}
Statements ==
  [op : CodeOps \cup Directives \cup {"label", "malformed"},
   regs : Seq(Register), arg : Token, rest : Seq(Token)]

ASSUME AssemblerAssumption ==
  /\ DOMAIN Literal \subseteq Token /\ \A t \in DOMAIN Literal : Literal[t] \in Int
  /\ Main \in File /\ MaxOpen \in Nat
  /\ Sources \subseteq [File -> Seq(Statements)]

VARIABLES
  source,              (* the content of the files, fixed at the start     *)
  input,               (* the files being read, the innermost last, each   *)
                       (* with the number of its next line                 *)
  section, code, segments, patch, patch_active, next_data_address,
  label_to_word, symbols, fixups,
  status               (* "assembling", "fixing", "done", or "failed" once *)
                       (* an exception has left run()                      *)

dataVars == <<segments, patch, patch_active, next_data_address>>
nameVars == <<label_to_word, symbols>>
asmVars  == <<source, input, section, code, dataVars, nameVars, fixups, status>>
-----------------------------------------------------------------------------
(* f with x bound to v.                                                    *)
Bind(f, x, v) == [y \in DOMAIN f \cup {x} |-> IF y = x THEN v ELSE f[y]]

(* parse_value: a symbol hides a number.                                   *)
Known(t) == t \in DOMAIN symbols \cup DOMAIN Literal
ValueOf(t) == IF t \in DOMAIN symbols THEN symbols[t] ELSE Literal[t]

(* validate_range with `half` values below zero.                           *)
Fits(v, half) == -half <= v /\ v < half

(* An instruction word; arg is the operand it came from.                   *)
Emitted(op, imm, arg) == [op |-> op, imm |-> imm, arg |-> arg]
NopFill(n) == [k \in 1 .. n |-> Emitted("NOP", 0, "")]

(* The division of a long long by the size of a word rounds to zero.       *)
WordsOf(address) == IF address >= 0 THEN address \div 4 ELSE -((-address) \div 4)

(* What apply_fixups puts in the word at position i (counted from 1, so    *)
(* that i is also the index of the next instruction) for this target.      *)
ResolvedEarly(op, target, i) == IF op = "MOVI" THEN target ELSE WordsOf(target) - i + 1  \* mutant
Resolved(op, target, i) == IF op = "MOVI" THEN target ELSE WordsOf(target) - i

(* ensure_data_patch.                                                      *)
EmptyPatch(address) == [address |-> address, bytes |-> <<>>]
OpenPatch == IF patch_active THEN patch ELSE EmptyPatch(next_data_address)

(* Where the next byte of the data section goes.                           *)
Location == OpenPatch.address + Len(OpenPatch.bytes)

(* flush_data_patch: what it leaves in segments and next_data_address.     *)
Flushable == patch_active /\ patch.bytes # <<>>
FlushedOpen == IF Flushable /\ section = "code" THEN Append(segments, patch) ELSE segments  \* mutant
Flushed == IF Flushable THEN Append(segments, patch) ELSE segments
FlushedAddress == IF Flushable THEN Location ELSE next_data_address

FlushDataPatch ==
  /\ segments' = Flushed /\ next_data_address' = FlushedAddress
  /\ patch' = EmptyPatch(0) /\ patch_active' = FALSE

(* The bytes that .word and .byte emit for their operands.                 *)
WordBytes(values) == [k \in 1 .. 4 * Len(values) |->
  ByteOf(ValueOf(values[1 + (k - 1) \div 4]) % B4, (k - 1) % 4)]
ByteBytesSigned(values) == [k \in 1 .. Len(values) |-> ValueOf(values[k])]  \* mutant
ByteBytes(values) == [k \in 1 .. Len(values) |-> ValueOf(values[k]) % B]
-----------------------------------------------------------------------------
AsmInit ==
  /\ source \in Sources
  /\ input = <<[file |-> Main, line |-> 1]>>
  /\ section = "code" /\ code = <<>> /\ segments = <<>>
  /\ patch = EmptyPatch(0) /\ patch_active = FALSE /\ next_data_address = 0
  /\ label_to_word = <<>> /\ symbols = <<>> /\ fixups = <<>>
  /\ status = "assembling"

Here == input[Len(input)]
AtEnd == Here.line > Len(source[Here.file])
Statement == source[Here.file][Here.line]

(* A statement that throws ends the assembly.  Symbols are looked up first *)
(* in everything; a branch looks for a label in the code, and what it does *)
(* not find there is left to the fixups.                                   *)
AllFit(values, range) == \A k \in DOMAIN values : Known(values[k]) /\ ValueOf(values[k]) \in range
OrgFits(v) == v >= 0 /\ (section = "code" => v % 4 = 0 /\ v \div 4 >= Len(code))
EquAccepted(s) == s.arg \notin DOMAIN symbols /\ Known(s.rest[1])
Accepted(s) ==
  /\ s.op # "malformed"
  /\ s.op \in CodeOps => section = "code"
  /\ s.op \in CodeOps \ {"NOP", "HALT"} => Len(s.regs) = RegistersOf(s.op)
  /\ s.op \in {".word", ".byte"} => section = "data"
  /\ s.op = "label" => s.arg # "" /\ s.arg \notin DOMAIN symbols
  /\ s.op = ".section" => s.arg \in {"CODE", "TEXT", "DATA"}
  /\ s.op \in {".org", ".data"} => Known(s.arg) /\ ValueOf(s.arg) >= 0
  /\ s.op = ".org" => OrgFits(ValueOf(s.arg))
  /\ s.op = ".data" => s.rest # <<>> /\ AllFit(s.rest, Byte)
  /\ s.op = ".word" => AllFit(s.rest, -(B4 \div 2) .. B4 - 1)
  /\ s.op = ".byte" => AllFit(s.rest, -(B \div 2) .. B - 1)
  /\ s.op = ".include" => s.arg \in File /\ Len(input) <= MaxOpen
  /\ s.op = ".equ" => Len(s.rest) = 1 /\ EquAccepted(s)
  /\ s.op \in ImmediateOps =>
       Known(s.arg) /\ Fits(ValueOf(s.arg), IF s.op \in LoadOps THEN Near ELSE Far)
  /\ s.op = "MOVI" /\ s.arg \in DOMAIN symbols => Fits(symbols[s.arg], Far)
  /\ s.op \in BranchOps /\ s.arg \in DOMAIN label_to_word =>
       Fits(label_to_word[s.arg] - (Len(code) + 1), Far)

Assembling(op) ==
  /\ status = "assembling" /\ ~AtEnd /\ Statement.op = op /\ Accepted(Statement)
  /\ UNCHANGED <<source, status>>
NextLine == [file |-> Here.file, line |-> Here.line + 1]
ReadOn == input' = [input EXCEPT ![Len(input)] = NextLine]
Reads(op) == Assembling(op) /\ ReadOn

Reject ==
  /\ status = "assembling" /\ ~AtEnd /\ ~Accepted(Statement)
  /\ status' = "failed"
  /\ UNCHANGED <<source, input, section, code, dataVars, nameVars, fixups>>
-----------------------------------------------------------------------------
CodeLabel ==
  /\ Reads("label") /\ section = "code"
  /\ label_to_word' = Bind(label_to_word, Statement.arg, Len(code))
  /\ symbols' = Bind(symbols, Statement.arg, 4 * Len(code))
  /\ UNCHANGED <<section, code, dataVars, fixups>>

DataLabel ==
  /\ Reads("label") /\ section = "data"
  /\ patch' = OpenPatch /\ patch_active' = TRUE
  /\ symbols' = Bind(symbols, Statement.arg, Location)
  /\ UNCHANGED <<section, code, segments, next_data_address, label_to_word, fixups>>

SectionDirective ==
  /\ Reads(".section")
  /\ FlushDataPatch
  /\ section' = IF Statement.arg = "DATA" THEN "data" ELSE "code"
  /\ UNCHANGED <<code, nameVars, fixups>>

OrgCode ==
  /\ Reads(".org") /\ section = "code"
  /\ code' = code \o NopFill(ValueOf(Statement.arg) \div 4 - Len(code))
  /\ UNCHANGED <<section, dataVars, nameVars, fixups>>

OrgData ==
  /\ Reads(".org") /\ section = "data"
  /\ segments' = Flushed
  /\ patch' = EmptyPatch(ValueOf(Statement.arg)) /\ patch_active' = TRUE
  /\ next_data_address' = ValueOf(Statement.arg)
  /\ UNCHANGED <<section, code, nameVars, fixups>>

(* .data pushes its own segment at once: before the patch that is open     *)
(* around it, which stays open.                                            *)
DataClosing ==                                                      \* mutant
  /\ Reads(".data")
  /\ patch' = EmptyPatch(0) /\ patch_active' = FALSE
  /\ segments' = Append(Flushed, [address |-> ValueOf(Statement.arg), bytes |-> ByteBytes(Statement.rest)])
  /\ next_data_address' = ValueOf(Statement.arg) + Len(Statement.rest)
  /\ UNCHANGED <<section, code, nameVars, fixups>>
Data ==
  /\ Reads(".data")
  /\ segments' = Append(segments, [address |-> ValueOf(Statement.arg), bytes |-> ByteBytes(Statement.rest)])
  /\ next_data_address' = ValueOf(Statement.arg) + Len(Statement.rest)
  /\ UNCHANGED <<section, code, patch, patch_active, nameVars, fixups>>

EmitBytes(bytes) ==
  /\ patch' = [address |-> OpenPatch.address, bytes |-> OpenPatch.bytes \o bytes] /\ patch_active' = TRUE
  /\ UNCHANGED <<section, code, segments, next_data_address, nameVars, fixups>>
WordDirective == Reads(".word") /\ EmitBytes(WordBytes(Statement.rest))
ByteDirective == Reads(".byte") /\ EmitBytes(ByteBytes(Statement.rest))

Equ ==
  /\ Reads(".equ")
  /\ symbols' = Bind(symbols, Statement.arg, ValueOf(Statement.rest[1]))
  /\ UNCHANGED <<section, code, dataVars, label_to_word, fixups>>

(* The rest of the line after .include is read when the file has ended.    *)
IncludeAgain ==                                                     \* mutant
  /\ Assembling(".include")
  /\ input' = Append(input, [file |-> Statement.arg, line |-> 1])
  /\ UNCHANGED <<section, code, dataVars, nameVars, fixups>>
Include ==
  /\ Assembling(".include")
  /\ input' = Append([input EXCEPT ![Len(input)] = NextLine], [file |-> Statement.arg, line |-> 1])
  /\ UNCHANGED <<section, code, dataVars, nameVars, fixups>>
-----------------------------------------------------------------------------
Emit(op, imm, arg) == code' = Append(code, Emitted(op, imm, arg))

(* The word is emitted with a zero, to be filled in by apply_fixups.       *)
EmitLater(op, label) ==
  /\ Emit(op, 0, label)
  /\ fixups' = Append(fixups, [index |-> Len(code) + 1, label |-> label])

Plain(op) ==
  /\ Reads(op) /\ Emit(op, 0, "")
  /\ UNCHANGED <<section, dataVars, nameVars, fixups>>

Immediate(op) ==
  /\ Reads(op) /\ Emit(op, ValueOf(Statement.arg), "")
  /\ UNCHANGED <<section, dataVars, nameVars, fixups>>

(* A number that does not fit is taken for the name of a symbol.           *)
Movi ==
  /\ Reads("MOVI")
  /\ LET t == Statement.arg
     IN  IF Known(t) /\ Fits(ValueOf(t), Far)
         THEN Emit("MOVI", ValueOf(t), t) /\ UNCHANGED fixups
         ELSE EmitLater("MOVI", t)
  /\ UNCHANGED <<section, dataVars, nameVars>>

BranchOrCall(op) ==
  /\ Reads(op)
  /\ LET t == Statement.arg
     IN  IF t \in DOMAIN label_to_word
         THEN Emit(op, label_to_word[t] - (Len(code) + 1), t) /\ UNCHANGED fixups
         ELSE EmitLater(op, t)
  /\ UNCHANGED <<section, dataVars, nameVars>>

(* The end of an included file, and of the source.                         *)
EndOfInclude ==
  /\ status = "assembling" /\ AtEnd /\ Len(input) > 1
  /\ input' = SubSeq(input, 1, Len(input) - 1)
  /\ UNCHANGED <<source, section, code, dataVars, nameVars, fixups, status>>
EndOfSource ==
  /\ status = "assembling" /\ AtEnd /\ Len(input) = 1
  /\ FlushDataPatch /\ status' = "fixing"
  /\ UNCHANGED <<source, input, section, code, nameVars, fixups>>

(* One round of the loop of apply_fixups.                                  *)
Fixup == fixups[1]
FixupFits ==
  /\ Fixup.label \in DOMAIN symbols
  /\ Fits(Resolved(code[Fixup.index].op, symbols[Fixup.label], Fixup.index), Far)
ApplyFixup ==
  /\ status = "fixing" /\ fixups # <<>> /\ FixupFits
  /\ code' = [code EXCEPT ![Fixup.index] =
       Emitted(@.op, Resolved(@.op, symbols[Fixup.label], Fixup.index), @.arg)]
  /\ fixups' = Tail(fixups)
  /\ UNCHANGED <<source, input, section, dataVars, nameVars, status>>
RejectFixup ==
  /\ status = "fixing" /\ fixups # <<>> /\ ~FixupFits
  /\ status' = "failed"
  /\ UNCHANGED <<source, input, section, code, dataVars, nameVars, fixups>>
Finish ==
  /\ status = "fixing" /\ fixups = <<>>
  /\ status' = "done"
  /\ UNCHANGED <<source, input, section, code, dataVars, nameVars, fixups>>

AsmNext ==
  \/ CodeLabel \/ DataLabel \/ SectionDirective \/ OrgCode \/ OrgData \/ Data
  \/ WordDirective \/ ByteDirective \/ Equ \/ Include \/ Movi
  \/ \E op \in PlainOps : Plain(op)
  \/ \E op \in ImmediateOps : Immediate(op)
  \/ \E op \in BranchOps : BranchOrCall(op)
  \/ EndOfInclude \/ EndOfSource \/ Reject
  \/ ApplyFixup \/ RejectFixup \/ Finish

Passes == AsmInit /\ [][AsmNext]_asmVars
AsmSpec == Passes /\ WF_asmVars(AsmNext)
-----------------------------------------------------------------------------
Patch == [address : Nat, bytes : Seq(Byte)]
Instruction == [op : CodeOps, imm : Int, arg : STRING]

AsmTypeOK ==
  /\ input \in Seq([file : File, line : Nat \ {0}])
  /\ section \in {"code", "data"} /\ status \in {"assembling", "fixing", "done", "failed"}
  /\ segments \in Seq(Patch) /\ patch \in Patch /\ patch_active \in BOOLEAN
  /\ next_data_address \in Nat
  /\ DOMAIN symbols \subseteq Token /\ \A t \in DOMAIN symbols : symbols[t] \in Int
  /\ DOMAIN label_to_word \subseteq DOMAIN symbols
  /\ \A t \in DOMAIN label_to_word : label_to_word[t] \in 0 .. Len(code)
  /\ \A k \in DOMAIN fixups : fixups[k].index \in DOMAIN code

(* What an operand means once the whole source is known: for a branch or a *)
(* CALL the distance to its target from the next instruction, for a MOVI   *)
(* the symbol, or the number no symbol hides.                              *)
Meaning(i) ==
  LET t == code[i].arg
  IN  CASE code[i].op \in BranchOps /\ t \in DOMAIN label_to_word -> label_to_word[t] - i
        [] code[i].op \in BranchOps /\ t \notin DOMAIN label_to_word -> WordsOf(symbols[t]) - i
        [] code[i].op = "MOVI" -> ValueOf(t)

(* The two passes agree: an operand used before its definition, and one    *)
(* used after, end up as the same number, whatever labels, constants and   *)
(* sections came between (handle_instruction and apply_fixups).  A symbol  *)
(* named like a number is excepted: MOVI takes the number until the name   *)
(* is defined.                                                             *)
ResolvedAlike ==
  status = "done" =>
    \A i \in DOMAIN code :
      code[i].op \in BranchOps \cup {"MOVI"} /\ code[i].arg \notin DOMAIN Literal \cap DOMAIN symbols
        => code[i].imm = Meaning(i)

(* Every byte emitted so far, at its address.                              *)
BytesOf(p) == {<<p.address + k - 1, p.bytes[k]>> : k \in DOMAIN p.bytes}
Placed == BytesOf(patch) \cup UNION {BytesOf(segments[k]) : k \in DOMAIN segments}

(* No switch of section, .org, .data or include drops or moves a byte that *)
(* has been emitted, or an instruction (flush_data_patch, ensure_data_     *)
(* patch, and the patch that .data pushes past the open one).              *)
NothingLost ==
  [][ /\ Placed \subseteq Placed'
      /\ \A i \in DOMAIN code : i \in DOMAIN code' /\ code'[i].op = code[i].op ]_asmVars

(* The bytes the next statement appends to the data section.               *)
Appended ==
  IF status # "assembling" \/ AtEnd THEN 0
  ELSE CASE Statement.op = ".word" -> 4 * Len(Statement.rest)
         [] Statement.op = ".byte" -> Len(Statement.rest)
         [] OTHER -> 0

(* What moves the location otherwise: .org; a .data line while no patch is *)
(* open, which leaves it behind that line's bytes; and, when a patch that  *)
(* has a label or an .org but no byte is closed, such a line inside it.    *)
Displaced ==
  /\ status = "assembling"
  /\ \/ ~AtEnd /\ Statement.op = ".org" /\ section = "data"
     \/ ~AtEnd /\ Statement.op = ".data" /\ ~patch_active
     \/ /\ patch_active /\ patch.bytes = <<>> /\ patch.address # next_data_address
        /\ IF AtEnd THEN Len(input) = 1 ELSE Statement.op = ".section"

(* Data goes on where it was left, over switches of section, includes,     *)
(* code, and .data lines inside an open patch: but for the three places of *)
(* Displaced the location moves by what is appended and by nothing else    *)
(* (ensure_data_patch, flush_data_patch, and .data, which leaves an open   *)
(* patch alone but not the address of the next one).                       *)
DataContinues ==
  [][~Displaced
       => Location' = Location + (IF status' = "failed" THEN 0 ELSE Appended)]_asmVars

(* Assembling ends, with a program or an exception, although files may     *)
(* include each other and themselves: only the limit on open files stops   *)
(* that (assemble_stream).                                                 *)
AssemblyEnds == <>(status \in {"done", "failed"})

(* What is left to assemble: the second pass, the lines of each open file, *)
(* the outermost first, and the fixups.                                    *)
PassesLeft == IF status = "assembling" THEN 2 ELSE IF status = "fixing" THEN 1 ELSE 0
LinesLeft(k) ==
  IF k > Len(input) THEN 0 ELSE Len(source[input[k].file]) + 2 - input[k].line
AssemblyLeft ==
  [k \in 1 .. MaxOpen + 3 |->
     IF k = 1 THEN PassesLeft ELSE IF k = MaxOpen + 3 THEN Len(fixups) ELSE LinesLeft(k - 1)]

(* Each step of the assembler leaves less to do, whatever the files hold:  *)
(* a line is read once in each opening of its file, what an .include opens *)
(* is at most MaxOpen + 1 deep, and no fixup is applied twice or makes     *)
(* another (assemble_stream, apply_fixups).                                *)
AssemblyShrinks == [][Descends(AssemblyLeft, AssemblyLeft')]_asmVars
=============================================================================
