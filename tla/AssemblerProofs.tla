-------------------------- MODULE AssemblerProofs ---------------------------
(***************************************************************************)
(* Proofs about the assembler for every source, every set of files, every  *)
(* number of registers and every range of the immediates.                  *)
(***************************************************************************)
EXTENDS Assembly, SequenceTheorems, TLAPS

-----------------------------------------------------------------------------
(* What the statements of the files and the state of run() are made of.    *)
Operand == Token \cup {""}
Emission == [op : CodeOps, imm : Int, arg : Operand]

SourceTyped == source \in [File -> Seq(Statements)]

AsmInv ==
  /\ AsmTypeOK
  /\ SourceTyped
  /\ input # <<>>
  /\ code \in Seq(Emission)
  /\ fixups \in Seq([index : Nat, label : Token])

(* A function on 1 .. n is a sequence of that length.                      *)
LEMMA Tuple ==
  ASSUME NEW S, NEW n \in Nat, NEW f \in [1 .. n -> S]
  PROVE  f \in Seq(S) /\ Len(f) = n
<1>1. f \in Seq(S)
  BY SeqDef
<1>2. Len(f) \in Nat /\ 1 .. Len(f) = 1 .. n
  BY <1>1, LenProperties
<1> QED
  BY <1>1, <1>2

LEMMA ByteOfType == ASSUME NEW w \in Int, NEW k \in 0 .. 3 PROVE ByteOf(w, k) \in Byte
<1>1. B \in Nat /\ B >= 2
  BY MemoryAssumption
<1>2. \A x \in Int : x % B \in Byte
  BY <1>1 DEF Byte
<1>3. B * B \in Nat /\ B * B > 0
  BY <1>1
<1>4. B2 \in Nat /\ B2 > 0
  BY <1>3 DEF B2
<1>5. B2 * B \in Nat /\ B2 * B > 0
  BY <1>1, <1>4
<1>6. w \div B \in Int /\ w \div B2 \in Int /\ w \div (B2 * B) \in Int
  BY <1>1, <1>4, <1>5
<1>7. k = 0 \/ k = 1 \/ k = 2 \/ k = 3
  OBVIOUS
<1> QED
  BY <1>2, <1>6, <1>7 DEF ByteOf

(* The tokens of the statement being read.                                 *)
LEMMA StatementTyped ==
  ASSUME AsmInv, ~AtEnd
  PROVE  Statement \in Statements
<1>1. Len(input) \in 1 .. Len(input)
  BY DEF AsmInv, AsmTypeOK
<1>2. Here \in [file : File, line : Nat \ {0}]
  BY <1>1, ElementOfSeq DEF AsmInv, AsmTypeOK, Here
<1>3. source[Here.file] \in Seq(Statements)
  BY <1>2 DEF AsmInv, SourceTyped
<1>4. Here.line \in 1 .. Len(source[Here.file])
  BY <1>2, <1>3 DEF AtEnd
<1> QED
  BY <1>3, <1>4 DEF Statement

LEMMA ReadOnTyped ==
  ASSUME AsmInv, ReadOn
  PROVE  input' \in Seq([file : File, line : Nat \ {0}]) /\ input' # <<>>
<1>1. Len(input) \in 1 .. Len(input)
  BY DEF AsmInv, AsmTypeOK
<1>2. Here \in [file : File, line : Nat \ {0}]
  BY <1>1, ElementOfSeq DEF AsmInv, AsmTypeOK, Here
<1>3. NextLine \in [file : File, line : Nat \ {0}]
  BY <1>2 DEF NextLine
<1> QED
  BY <1>1, <1>3 DEF AsmInv, AsmTypeOK, ReadOn

(* The values of operands are integers.                                    *)
SymbolsTyped == DOMAIN symbols \subseteq Token /\ \A t \in DOMAIN symbols : symbols[t] \in Int

LEMMA ValueTyped ==
  ASSUME SymbolsTyped, NEW t, Known(t)
  PROVE  ValueOf(t) \in Int
BY AssemblerAssumption DEF SymbolsTyped, Known, ValueOf

LEMMA NopFillTyped ==
  ASSUME NEW n \in Nat
  PROVE  NopFill(n) \in Seq(Emission) /\ Len(NopFill(n)) = n /\ \A k \in 1 .. n : NopFill(n)[k].op = "NOP"
<1>1. Emitted("NOP", 0, "") \in Emission
  BY DEF Emitted, Emission, Operand, CodeOps, PlainOps, BareOps
<1>2. NopFill(n) \in [1 .. n -> Emission]
  BY <1>1 DEF NopFill
<1>3. \A k \in 1 .. n : NopFill(n)[k] = Emitted("NOP", 0, "")
  BY DEF NopFill
<1>4. NopFill(n) \in Seq(Emission) /\ Len(NopFill(n)) = n
  BY <1>2, Tuple
<1>5. Emitted("NOP", 0, "").op = "NOP"
  BY DEF Emitted
<1> QED
  BY <1>3, <1>4, <1>5

LEMMA ByteBytesTyped ==
  ASSUME SymbolsTyped, NEW values \in Seq(Token), \A k \in DOMAIN values : Known(values[k])
  PROVE  ByteBytes(values) \in Seq(Byte) /\ Len(ByteBytes(values)) = Len(values)
<1>1. \A k \in 1 .. Len(values) : ValueOf(values[k]) \in Int
  BY ValueTyped
<1>2. \A k \in 1 .. Len(values) : ValueOf(values[k]) % B \in Byte
  BY <1>1, MemoryAssumption DEF Byte
<1>3. ByteBytes(values) \in [1 .. Len(values) -> Byte]
  BY <1>2 DEF ByteBytes
<1> QED
  BY <1>3, Tuple

LEMMA WordBytesTyped ==
  ASSUME SymbolsTyped, NEW values \in Seq(Token), \A k \in DOMAIN values : Known(values[k])
  PROVE  WordBytes(values) \in Seq(Byte) /\ Len(WordBytes(values)) = 4 * Len(values)
<1> DEFINE n == 4 * Len(values)
<1>1. n \in Nat
  OBVIOUS
<1>2. B4 \in Nat /\ B4 > 0
  <2>1. B * B \in Nat /\ B * B > 0
    BY MemoryAssumption
  <2>2. B2 * B2 \in Nat /\ B2 * B2 > 0
    BY <2>1 DEF B2
  <2> QED
    BY <2>2 DEF B4
<1>3. ASSUME NEW k \in 1 .. n
      PROVE  ByteOf(ValueOf(values[1 + ((k - 1) \div 4)]) % B4, (k - 1) % 4) \in Byte
  <2>1. 1 + ((k - 1) \div 4) \in DOMAIN values /\ (k - 1) % 4 \in 0 .. 3
    BY <1>3
  <2>2. ValueOf(values[1 + ((k - 1) \div 4)]) \in Int
    BY <2>1, ValueTyped
  <2>3. ValueOf(values[1 + ((k - 1) \div 4)]) % B4 \in Int
    BY <1>2, <2>2
  <2> QED
    BY <2>1, <2>3, ByteOfType
<1>4. WordBytes(values) \in [1 .. n -> Byte]
  BY <1>3 DEF WordBytes
<1> QED
  BY <1>1, <1>4, Tuple

LEMMA StatementFields ==
  ASSUME AsmInv, ~AtEnd
  PROVE  /\ Statement.op \in CodeOps \cup Directives \cup {"label", "malformed"}
         /\ Statement.arg \in Token /\ Statement.rest \in Seq(Token)
BY StatementTyped DEF Statements

LEMMA BindProperties ==
  ASSUME NEW f, NEW x, NEW v
  PROVE  /\ DOMAIN Bind(f, x, v) = DOMAIN f \cup {x}
         /\ Bind(f, x, v)[x] = v
         /\ \A y \in DOMAIN f : y # x => Bind(f, x, v)[y] = f[y]
BY DEF Bind

(* What the open patch is made of, and where it ends.                      *)
LEMMA OpenPatchTyped ==
  ASSUME AsmInv
  PROVE  /\ OpenPatch \in Patch
         /\ OpenPatch.address \in Nat /\ OpenPatch.bytes \in Seq(Byte)
         /\ Location \in Nat
<1>1. OpenPatch \in Patch
  BY DEF AsmInv, AsmTypeOK, OpenPatch, EmptyPatch, Patch
<1>2. OpenPatch.address \in Nat /\ OpenPatch.bytes \in Seq(Byte)
  BY <1>1 DEF Patch
<1> QED
  BY <1>1, <1>2 DEF Location

LEMMA FlushTyped ==
  ASSUME AsmInv
  PROVE  Flushed \in Seq(Patch) /\ FlushedAddress \in Nat
BY OpenPatchTyped DEF AsmInv, AsmTypeOK, Flushed, FlushedAddress

LEMMA EmptyPatchTyped == ASSUME NEW a \in Nat PROVE EmptyPatch(a) \in Patch
BY DEF EmptyPatch, Patch

(* The statements that leave code and fixups alone: data and names.        *)
LEMMA DataStep ==
  ASSUME AsmInv, \/ SectionDirective \/ OrgData \/ Data \/ WordDirective \/ ByteDirective
                 \/ DataLabel \/ CodeLabel \/ Equ
  PROVE  AsmInv'
<1>1. ~AtEnd /\ Accepted(Statement) /\ ReadOn /\ UNCHANGED <<source, status>>
  BY DEF SectionDirective, OrgData, Data, WordDirective, ByteDirective, DataLabel, CodeLabel, Equ, Reads, Assembling
<1>2. Statement.arg \in Token /\ Statement.rest \in Seq(Token)
  BY <1>1, StatementFields
<1>3. input' \in Seq([file : File, line : Nat \ {0}]) /\ input' # <<>>
  BY <1>1, ReadOnTyped
<1>4. UNCHANGED <<code, fixups>>
  BY DEF SectionDirective, OrgData, Data, WordDirective, ByteDirective, DataLabel, CodeLabel, Equ, EmitBytes
<1>5. SymbolsTyped
  BY DEF AsmInv, AsmTypeOK, SymbolsTyped
<1> DEFINE
  PatchesTyped == /\ segments \in Seq(Patch) /\ patch \in Patch /\ patch_active \in BOOLEAN
                  /\ next_data_address \in Nat
  NamesTyped == /\ DOMAIN symbols \subseteq Token /\ \A t \in DOMAIN symbols : symbols[t] \in Int
                /\ DOMAIN label_to_word \subseteq DOMAIN symbols
                /\ \A t \in DOMAIN label_to_word : label_to_word[t] \in 0 .. Len(code)
<1>6. section' \in {"code", "data"} /\ PatchesTyped'
  <2> USE DEF AsmInv, AsmTypeOK
  <2>1. CASE SectionDirective
    BY <2>1, FlushTyped, EmptyPatchTyped DEF SectionDirective, FlushDataPatch
  <2>2. CASE OrgData
    <3>1. ValueOf(Statement.arg) \in Nat
      BY <1>1, <1>5, <2>2, ValueTyped DEF OrgData, Reads, Assembling, Accepted
    <3> QED
      BY <2>2, <3>1, FlushTyped, EmptyPatchTyped DEF OrgData
  <2>3. CASE Data
    <3>1. ValueOf(Statement.arg) \in Nat
      BY <1>1, <1>5, <2>3, ValueTyped DEF Data, Reads, Assembling, Accepted
    <3>2. \A k \in DOMAIN Statement.rest : Known(Statement.rest[k])
      BY <1>1, <2>3 DEF Data, Reads, Assembling, Accepted, AllFit
    <3>3. ByteBytes(Statement.rest) \in Seq(Byte)
      BY <1>2, <1>5, <3>2, ByteBytesTyped
    <3>4. [address |-> ValueOf(Statement.arg), bytes |-> ByteBytes(Statement.rest)] \in Patch
      BY <3>1, <3>3 DEF Patch
    <3> QED
      BY <1>2, <2>3, <3>1, <3>4 DEF Data
  <2>4. ASSUME NEW bytes \in Seq(Byte), EmitBytes(bytes)
        PROVE  section' \in {"code", "data"} /\ PatchesTyped'
    <3>1. OpenPatch.bytes \o bytes \in Seq(Byte)
      BY OpenPatchTyped, ConcatProperties
    <3>2. [address |-> OpenPatch.address, bytes |-> OpenPatch.bytes \o bytes] \in Patch
      BY <3>1, OpenPatchTyped DEF Patch
    <3> QED
      BY <2>4, <3>2 DEF EmitBytes
  <2>5. CASE WordDirective
    <3>1. \A k \in DOMAIN Statement.rest : Known(Statement.rest[k])
      BY <1>1, <2>5 DEF WordDirective, Reads, Assembling, Accepted, AllFit
    <3> QED
      BY <1>2, <1>5, <2>4, <2>5, <3>1, WordBytesTyped DEF WordDirective
  <2>6. CASE ByteDirective
    <3>1. \A k \in DOMAIN Statement.rest : Known(Statement.rest[k])
      BY <1>1, <2>6 DEF ByteDirective, Reads, Assembling, Accepted, AllFit
    <3> QED
      BY <1>2, <1>5, <2>4, <2>6, <3>1, ByteBytesTyped DEF ByteDirective
  <2>7. CASE DataLabel
    BY <2>7, OpenPatchTyped DEF DataLabel
  <2>8. CASE CodeLabel \/ Equ
    BY <2>8 DEF CodeLabel, Equ, dataVars
  <2> QED
    BY <2>1, <2>2, <2>3, <2>5, <2>6, <2>7, <2>8
<1>7. NamesTyped'
  <2> USE DEF AsmInv, AsmTypeOK
  <2>1. CASE CodeLabel
    <3> DEFINE a == Statement.arg
    <3>1. /\ symbols' = Bind(symbols, a, 4 * Len(code))
          /\ label_to_word' = Bind(label_to_word, a, Len(code))
      BY <2>1 DEF CodeLabel
    <3>2. DOMAIN symbols' = DOMAIN symbols \cup {a} /\ DOMAIN label_to_word' = DOMAIN label_to_word \cup {a}
      BY <3>1 DEF Bind
    <3>3. symbols'[a] = 4 * Len(code) /\ label_to_word'[a] = Len(code) /\ Len(code) \in Nat
      BY <3>1 DEF Bind
    <3>4. /\ \A y \in DOMAIN symbols : y # a => symbols'[y] = symbols[y]
          /\ \A y \in DOMAIN label_to_word : y # a => label_to_word'[y] = label_to_word[y]
      BY <3>1 DEF Bind
    <3> QED
      BY <1>2, <1>4, <3>2, <3>3, <3>4
  <2>2. ASSUME NEW v \in Int, symbols' = Bind(symbols, Statement.arg, v), UNCHANGED label_to_word
        PROVE  NamesTyped'
    <3> DEFINE a == Statement.arg
    <3>1. DOMAIN symbols' = DOMAIN symbols \cup {a} /\ symbols'[a] = v
      BY <2>2 DEF Bind
    <3>2. \A y \in DOMAIN symbols : y # a => symbols'[y] = symbols[y]
      BY <2>2 DEF Bind
    <3> QED
      BY <1>2, <1>4, <2>2, <3>1, <3>2
  <2>5. CASE DataLabel
    BY <2>2, <2>5, OpenPatchTyped DEF DataLabel
  <2>3. CASE Equ
    <3>1. ValueOf(Statement.rest[1]) \in Int
      BY <1>1, <1>5, <2>3, ValueTyped DEF Equ, Reads, Assembling, Accepted, EquAccepted
    <3> QED
      BY <2>2, <2>3, <3>1 DEF Equ
  <2>4. CASE SectionDirective \/ OrgData \/ Data \/ WordDirective \/ ByteDirective
    <3>1. UNCHANGED <<label_to_word, symbols>>
      BY <2>4 DEF SectionDirective, OrgData, Data, WordDirective, ByteDirective, EmitBytes, nameVars
    <3> QED
      BY <1>4, <3>1
  <2> QED
    BY <2>1, <2>5, <2>3, <2>4
<1> QED
  BY <1>1, <1>3, <1>4, <1>6, <1>7 DEF AsmInv, AsmTypeOK, SourceTyped

(* Instructions, each with the operand it was given.                       *)
LEMMA EmittedTyped ==
  ASSUME NEW op \in CodeOps, NEW imm \in Int, NEW arg \in Operand
  PROVE  Emitted(op, imm, arg) \in Emission
BY DEF Emitted, Emission

(* An instruction that is read appends one word, and a fixup for that word *)
(* or none.                                                                *)
LEMMA AppendsTyped ==
  ASSUME AsmInv, NEW op \in CodeOps, NEW imm \in Int, NEW arg \in Token,
         (Emit(op, imm, arg) /\ UNCHANGED fixups) \/ EmitLater(op, arg)
  PROVE  /\ code' \in Seq(Emission) /\ Len(code') = Len(code) + 1
         /\ fixups' \in Seq([index : Nat, label : Token])
         /\ \A k \in DOMAIN fixups' : fixups'[k].index \in DOMAIN code'
<1>1. arg \in Operand
  BY DEF Operand
<1>2. code \in Seq(Emission) /\ fixups \in Seq([index : Nat, label : Token])
  BY DEF AsmInv
<1>3. \E v \in Int : code' = Append(code, Emitted(op, v, arg))
  BY DEF EmitLater, Emit
<1>4. PICK v \in Int : code' = Append(code, Emitted(op, v, arg))
  BY <1>3
<1>5. Emitted(op, v, arg) \in Emission
  BY <1>1, EmittedTyped
<1>6. code' \in Seq(Emission) /\ Len(code') = Len(code) + 1
  BY <1>2, <1>4, <1>5
<1>7. \A k \in DOMAIN fixups : fixups[k].index \in 1 .. Len(code)
  BY <1>2 DEF AsmInv, AsmTypeOK
<1>8. CASE UNCHANGED fixups
  BY <1>2, <1>6, <1>7, <1>8
<1>9. CASE EmitLater(op, arg)
  <2> DEFINE f == [index |-> Len(code) + 1, label |-> arg]
  <2>1. f \in [index : Nat, label : Token] /\ f.index = Len(code) + 1
    BY <1>2
  <2>2. fixups' = Append(fixups, f)
    BY <1>9 DEF EmitLater
  <2> HIDE DEF f
  <2>3. /\ fixups' \in Seq([index : Nat, label : Token])
        /\ Len(fixups') = Len(fixups) + 1 /\ fixups'[Len(fixups) + 1] = f
        /\ \A k \in 1 .. Len(fixups) : fixups'[k] = fixups[k]
    BY <1>2, <2>1, <2>2
  <2>4. ASSUME NEW k \in DOMAIN fixups' PROVE fixups'[k].index \in DOMAIN code'
    <3>1. k \in 1 .. Len(fixups) \/ k = Len(fixups) + 1
      BY <1>2, <2>3
    <3>2. Len(code) \in Nat /\ DOMAIN code' = 1 .. Len(code) + 1
      BY <1>2, <1>6
    <3>3. CASE k \in 1 .. Len(fixups)
      <4>1. k \in DOMAIN fixups /\ fixups'[k] = fixups[k]
        BY <1>2, <2>3, <3>3
      <4>2. fixups'[k].index \in 1 .. Len(code)
        BY <1>7, <4>1
      <4> QED
        BY <3>2, <4>2
    <3>4. CASE k = Len(fixups) + 1
      <4>1. fixups'[k].index = Len(code) + 1
        BY <2>1, <2>3, <3>4
      <4> QED
        BY <3>2, <4>1
    <3> QED
      BY <3>1, <3>3, <3>4
  <2> QED
    BY <1>6, <2>3, <2>4
<1> QED
  BY <1>8, <1>9

(* What every statement that appends to the code leaves alone.             *)
SameData == UNCHANGED <<section, dataVars, nameVars>>

LEMMA CodeInv ==
  ASSUME AsmInv, SameData, UNCHANGED source,
         status' \in {"assembling", "fixing", "done", "failed"},
         input' \in Seq([file : File, line : Nat \ {0}]), input' # <<>>,
         code' \in Seq(Emission), Len(code') >= Len(code),
         fixups' \in Seq([index : Nat, label : Token]),
         \A k \in DOMAIN fixups' : fixups'[k].index \in DOMAIN code'
  PROVE  AsmInv'
<1>1. \A t \in DOMAIN label_to_word : label_to_word[t] \in 0 .. Len(code')
  BY DEF AsmInv, AsmTypeOK
<1> QED
  BY <1>1 DEF AsmInv, AsmTypeOK, SameData, dataVars, nameVars, SourceTyped

LEMMA CodeStep ==
  ASSUME AsmInv, \/ OrgCode \/ Include \/ Movi
                 \/ \E op \in PlainOps : Plain(op)
                 \/ \E op \in ImmediateOps : Immediate(op)
                 \/ \E op \in BranchOps : BranchOrCall(op)
  PROVE  AsmInv'
<1>1. SymbolsTyped
  BY DEF AsmInv, AsmTypeOK, SymbolsTyped
<1>2. ASSUME NEW op \in CodeOps, NEW imm \in Int, NEW arg \in Token, Reads(op), SameData,
             (Emit(op, imm, arg) /\ UNCHANGED fixups) \/ EmitLater(op, arg)
      PROVE  AsmInv'
  <2>1. input' \in Seq([file : File, line : Nat \ {0}]) /\ input' # <<>>
    BY <1>2, ReadOnTyped DEF Reads
  <2>2. status' \in {"assembling", "fixing", "done", "failed"} /\ UNCHANGED source
    BY <1>2 DEF Reads, Assembling, AsmInv, AsmTypeOK
  <2>3. code \in Seq(Emission)
    BY DEF AsmInv
  <2>4. /\ code' \in Seq(Emission) /\ Len(code') = Len(code) + 1
        /\ fixups' \in Seq([index : Nat, label : Token])
        /\ \A k \in DOMAIN fixups' : fixups'[k].index \in DOMAIN code'
    BY <1>2, AppendsTyped
  <2>5. Len(code') >= Len(code)
    BY <2>3, <2>4
  <2> QED
    BY <1>2, <2>1, <2>2, <2>4, <2>5, CodeInv
<1>3. ASSUME NEW op \in CodeOps, Reads(op)
      PROVE  Statement.arg \in Token /\ Accepted(Statement) /\ Statement.op = op
  BY <1>3, StatementFields DEF Reads, Assembling
<1>4. CASE Movi
  <2>1. Reads("MOVI") /\ "MOVI" \in CodeOps /\ SameData
    BY <1>4 DEF Movi, CodeOps, SameData
  <2>2. CASE Known(Statement.arg) /\ Fits(ValueOf(Statement.arg), Far)
    BY <1>1, <1>2, <1>3, <1>4, <2>1, <2>2, ValueTyped DEF Movi
  <2>3. CASE ~(Known(Statement.arg) /\ Fits(ValueOf(Statement.arg), Far))
    <3>1. EmitLater("MOVI", Statement.arg)
      BY <1>4, <2>3 DEF Movi
    <3> QED
      BY <1>2, <1>3, <2>1, <3>1, 0 \in Int
  <2> QED
    BY <2>2, <2>3
<1>5. ASSUME NEW op \in BranchOps, BranchOrCall(op)
      PROVE  AsmInv'
  <2>1. Reads(op) /\ op \in CodeOps /\ SameData
    BY <1>5 DEF BranchOrCall, CodeOps, SameData
  <2>2. CASE Statement.arg \in DOMAIN label_to_word
    <3>1. label_to_word[Statement.arg] - (Len(code) + 1) \in Int
      BY <2>2 DEF AsmInv, AsmTypeOK
    <3> QED
      BY <1>2, <1>3, <1>5, <2>1, <2>2, <3>1 DEF BranchOrCall
  <2>3. CASE Statement.arg \notin DOMAIN label_to_word
    <3>1. EmitLater(op, Statement.arg)
      BY <1>5, <2>3 DEF BranchOrCall
    <3> QED
      BY <1>2, <1>3, <2>1, <3>1, 0 \in Int
  <2> QED
    BY <2>2, <2>3
<1>6. ASSUME NEW op \in CodeOps, NEW e \in Emission, Reads(op), SameData,
             code' = Append(code, e), UNCHANGED fixups
      PROVE  AsmInv'
  <2>1. input' \in Seq([file : File, line : Nat \ {0}]) /\ input' # <<>>
    BY <1>6, ReadOnTyped DEF Reads
  <2>2. status' \in {"assembling", "fixing", "done", "failed"} /\ UNCHANGED source
    BY <1>6 DEF Reads, Assembling, AsmInv, AsmTypeOK
  <2>3. code \in Seq(Emission) /\ fixups \in Seq([index : Nat, label : Token])
    BY DEF AsmInv
  <2>4. code' \in Seq(Emission) /\ Len(code') = Len(code) + 1
    BY <1>6, <2>3
  <2>5. \A k \in DOMAIN fixups : fixups[k].index \in 1 .. Len(code)
    BY <2>3 DEF AsmInv, AsmTypeOK
  <2>6. \A k \in DOMAIN fixups' : fixups'[k].index \in DOMAIN code'
    BY <1>6, <2>3, <2>4, <2>5
  <2>7. fixups' \in Seq([index : Nat, label : Token]) /\ Len(code') >= Len(code)
    BY <1>6, <2>3, <2>4
  <2> QED
    BY <1>6, <2>1, <2>2, <2>4, <2>6, <2>7, CodeInv
<1>7. ASSUME NEW op \in PlainOps, Plain(op) PROVE AsmInv'
  <2>1. op \in CodeOps /\ Reads(op) /\ SameData /\ UNCHANGED fixups
    BY <1>7 DEF Plain, CodeOps, SameData
  <2>2. Emitted(op, 0, "") \in Emission
    BY <2>1 DEF Emitted, Emission, Operand
  <2> QED
    BY <1>6, <1>7, <2>1, <2>2 DEF Plain, Emit
<1>8. ASSUME NEW op \in ImmediateOps, Immediate(op) PROVE AsmInv'
  <2>1. op \in CodeOps /\ Reads(op) /\ SameData /\ UNCHANGED fixups
    BY <1>8 DEF Immediate, CodeOps, SameData
  <2>2. ValueOf(Statement.arg) \in Int
    BY <1>1, <1>3, <2>1, ValueTyped DEF Accepted
  <2>3. Emitted(op, ValueOf(Statement.arg), "") \in Emission
    BY <2>1, <2>2, EmittedTyped DEF Operand
  <2> QED
    BY <1>6, <1>8, <2>1, <2>3 DEF Immediate, Emit
<1>9. CASE OrgCode
  <2> DEFINE n == (ValueOf(Statement.arg) \div 4) - Len(code)
  <2>1. ~AtEnd /\ Accepted(Statement) /\ Statement.op = ".org" /\ ReadOn
    BY <1>9 DEF OrgCode, Reads, Assembling
  <2>2. ValueOf(Statement.arg) \in Int
    BY <1>1, <2>1, ValueTyped DEF Accepted
  <2>3. n \in Nat /\ code \in Seq(Emission)
    BY <1>9, <2>1, <2>2 DEF Accepted, OrgFits, OrgCode, AsmInv
  <2>4. code' = code \o NopFill(n)
    BY <1>9 DEF OrgCode
  <2> HIDE DEF n
  <2>5. code' \in Seq(Emission) /\ Len(code') = Len(code) + n
    <3>1. NopFill(n) \in Seq(Emission) /\ Len(NopFill(n)) = n
      BY <2>3, NopFillTyped
    <3> QED
      BY <2>3, <2>4, <3>1, ConcatProperties
  <2>6. UNCHANGED fixups /\ SameData /\ UNCHANGED <<source, status>>
    BY <1>9 DEF OrgCode, SameData, Reads, Assembling
  <2>7. \A k \in DOMAIN fixups' : fixups'[k].index \in DOMAIN code'
    BY <2>3, <2>5, <2>6 DEF AsmInv, AsmTypeOK
  <2>8. fixups' \in Seq([index : Nat, label : Token]) /\ Len(code') >= Len(code)
    BY <2>3, <2>5, <2>6 DEF AsmInv
  <2>9. status' \in {"assembling", "fixing", "done", "failed"}
    BY <2>6 DEF AsmInv, AsmTypeOK
  <2> QED
    BY <2>1, <2>5, <2>6, <2>7, <2>8, <2>9, ReadOnTyped, CodeInv
<1>10. CASE Include
  <2> DEFINE inner == [file |-> Statement.arg, line |-> 1]
  <2>1. Statement.arg \in File
    BY <1>10 DEF Include, Assembling, Accepted
  <2>2. inner \in [file : File, line : Nat \ {0}]
    BY <2>1
  <2>3. Len(input) \in 1 .. Len(input)
    BY DEF AsmInv, AsmTypeOK
  <2>4. NextLine \in [file : File, line : Nat \ {0}]
    <3>1. Here \in [file : File, line : Nat \ {0}]
      BY <2>3, ElementOfSeq DEF AsmInv, AsmTypeOK, Here
    <3> QED
      BY <3>1 DEF NextLine
  <2>5. input' = Append([input EXCEPT ![Len(input)] = NextLine], inner)
    BY <1>10 DEF Include
  <2> HIDE DEF inner
  <2>6. input' \in Seq([file : File, line : Nat \ {0}]) /\ input' # <<>>
    BY <2>2, <2>3, <2>4, <2>5 DEF AsmInv, AsmTypeOK
  <2>7. UNCHANGED <<source, section, code, dataVars, nameVars, fixups, status>>
    BY <1>10 DEF Include, Assembling
  <2> QED
    BY <2>6, <2>7 DEF AsmInv, AsmTypeOK, SourceTyped, dataVars, nameVars
<1> QED
  BY <1>4, <1>5, <1>7, <1>8, <1>9, <1>10

LEMMA ResolvedTyped ==
  ASSUME NEW op, NEW target \in Int, NEW i \in Int
  PROVE  Resolved(op, target, i) \in Int
BY DEF Resolved, WordsOf

(* A fixup replaces the operand of one word.                               *)
LEMMA FixupTyped ==
  ASSUME AsmInv, ApplyFixup
  PROVE  /\ code' \in Seq(Emission) /\ Len(code') = Len(code)
         /\ Fixup.index \in 1 .. Len(code) /\ Fixup.label \in DOMAIN symbols
         /\ code'[Fixup.index] = Emitted(code[Fixup.index].op,
              Resolved(code[Fixup.index].op, symbols[Fixup.label], Fixup.index), code[Fixup.index].arg)
         /\ \A k \in 1 .. Len(code) : k # Fixup.index => code'[k] = code[k]
         /\ fixups' = Tail(fixups) /\ fixups # <<>>
<1> DEFINE e == Emitted(code[Fixup.index].op,
              Resolved(code[Fixup.index].op, symbols[Fixup.label], Fixup.index), code[Fixup.index].arg)
<1>1. code \in Seq(Emission) /\ fixups \in Seq([index : Nat, label : Token]) /\ fixups # <<>>
  BY DEF AsmInv, ApplyFixup
<1>2. 1 \in DOMAIN fixups
  BY <1>1
<1>3. Fixup.index \in 1 .. Len(code) /\ Fixup.index \in Int
  BY <1>1, <1>2 DEF Fixup, AsmInv, AsmTypeOK
<1>4. Fixup.label \in DOMAIN symbols /\ symbols[Fixup.label] \in Int
  BY DEF ApplyFixup, FixupFits, AsmInv, AsmTypeOK
<1>5. code[Fixup.index] \in Emission
  BY <1>1, <1>3, ElementOfSeq
<1>6. code[Fixup.index].op \in CodeOps /\ code[Fixup.index].arg \in Operand
  BY <1>5 DEF Emission
<1>7. Resolved(code[Fixup.index].op, symbols[Fixup.label], Fixup.index) \in Int
  BY <1>3, <1>4, ResolvedTyped
<1>8. e \in Emission
  BY <1>6, <1>7, EmittedTyped
<1>9. code' = [code EXCEPT ![Fixup.index] = e]
  BY DEF ApplyFixup
<1> HIDE DEF e
<1>10. /\ code' \in Seq(Emission) /\ Len(code') = Len(code)
       /\ \A k \in 1 .. Len(code) : code'[k] = IF k = Fixup.index THEN e ELSE code[k]
  BY <1>1, <1>3, <1>8, <1>9, ExceptSeq
<1>11. fixups' = Tail(fixups)
  BY DEF ApplyFixup
<1> QED
  BY <1>1, <1>3, <1>4, <1>10, <1>11 DEF e

LEMMA OtherStep ==
  ASSUME AsmInv, EndOfInclude \/ EndOfSource \/ Reject \/ ApplyFixup \/ RejectFixup \/ Finish
  PROVE  AsmInv'
<1>1. CASE EndOfInclude
  <2>1. Len(input) \in Nat /\ Len(input) > 1
    BY <1>1 DEF EndOfInclude, AsmInv, AsmTypeOK
  <2>2. \A k \in 1 .. Len(input) - 1 : input[k] \in [file : File, line : Nat \ {0}]
    <3>1. input \in Seq([file : File, line : Nat \ {0}])
      BY DEF AsmInv, AsmTypeOK
    <3>2. \A k \in 1 .. Len(input) : input[k] \in [file : File, line : Nat \ {0}]
      BY <3>1, ElementOfSeq
    <3> QED
      BY <2>1, <3>2
  <2>3. input' = SubSeq(input, 1, Len(input) - 1)
    BY <1>1 DEF EndOfInclude
  <2>4. input' \in Seq([file : File, line : Nat \ {0}]) /\ Len(input') = Len(input) - 1
    BY <2>1, <2>2, <2>3, SubSeqProperties
  <2>5. input' # <<>>
    BY <2>1, <2>4
  <2> QED
    BY <1>1, <2>4, <2>5 DEF EndOfInclude, AsmInv, AsmTypeOK, SourceTyped, dataVars, nameVars
<1>2. CASE EndOfSource
  BY <1>2, FlushTyped, EmptyPatchTyped
     DEF EndOfSource, FlushDataPatch, AsmInv, AsmTypeOK, SourceTyped, nameVars
<1>3. CASE Reject \/ RejectFixup \/ Finish
  BY <1>3 DEF Reject, RejectFixup, Finish, AsmInv, AsmTypeOK, SourceTyped, dataVars, nameVars
<1>4. CASE ApplyFixup
  <2>1. /\ code' \in Seq(Emission) /\ Len(code') = Len(code)
        /\ fixups' = Tail(fixups) /\ fixups # <<>>
    BY <1>4, FixupTyped
  <2>2. code \in Seq(Emission) /\ fixups \in Seq([index : Nat, label : Token])
    BY DEF AsmInv
  <2>3. /\ fixups' \in Seq([index : Nat, label : Token]) /\ Len(fixups') = Len(fixups) - 1
        /\ \A k \in 1 .. Len(fixups') : fixups'[k] = fixups[k + 1]
    BY <2>1, <2>2, HeadTailProperties
  <2>4. \A k \in 1 .. Len(fixups) : fixups[k].index \in 1 .. Len(code)
    BY <2>2 DEF AsmInv, AsmTypeOK
  <2>5. \A k \in DOMAIN fixups' : fixups'[k].index \in DOMAIN code'
    BY <2>1, <2>2, <2>3, <2>4
  <2>6. UNCHANGED <<source, input, section, dataVars, nameVars, status>>
    BY <1>4 DEF ApplyFixup
  <2> QED
    BY <2>1, <2>2, <2>3, <2>5, <2>6, CodeInv DEF SameData, AsmInv, AsmTypeOK
<1> QED
  BY <1>1, <1>2, <1>3, <1>4

LEMMA AsmStep == AsmInv /\ [AsmNext]_asmVars => AsmInv'
<1> SUFFICES ASSUME AsmInv, [AsmNext]_asmVars
             PROVE  AsmInv'
  OBVIOUS
<1>1. CASE UNCHANGED asmVars
  BY <1>1 DEF asmVars, dataVars, nameVars, AsmInv, AsmTypeOK, SourceTyped
<1> QED
  BY <1>1, DataStep, CodeStep, OtherStep DEF AsmNext

LEMMA AsmInitInv == AsmInit => AsmInv
<1> SUFFICES ASSUME AsmInit PROVE AsmInv
  OBVIOUS
<1>1. <<[file |-> Main, line |-> 1]>> \in Seq([file : File, line : Nat \ {0}])
  BY AssemblerAssumption
<1>2. EmptyPatch(0) \in Patch
  BY EmptyPatchTyped
<1>3. DOMAIN symbols = {} /\ DOMAIN label_to_word = {} /\ DOMAIN fixups = {}
  BY DEF AsmInit
<1>4. code = <<>> /\ fixups = <<>> /\ segments = <<>>
  BY DEF AsmInit
<1>5. SourceTyped
  BY AssemblerAssumption DEF AsmInit, SourceTyped
<1>6. AsmTypeOK
  <2>1. input \in Seq([file : File, line : Nat \ {0}])
    BY <1>1 DEF AsmInit
  <2>2. segments \in Seq(Patch) /\ patch \in Patch
    BY <1>2, <1>4 DEF AsmInit
  <2>3. \A k \in DOMAIN fixups : fixups[k].index \in DOMAIN code
    BY <1>3
  <2>4. /\ DOMAIN symbols \subseteq Token /\ \A t \in DOMAIN symbols : symbols[t] \in Int
        /\ DOMAIN label_to_word \subseteq DOMAIN symbols
        /\ \A t \in DOMAIN label_to_word : label_to_word[t] \in 0 .. Len(code)
    BY <1>3
  <2>5. /\ section \in {"code", "data"} /\ status \in {"assembling", "fixing", "done", "failed"}
        /\ patch_active \in BOOLEAN /\ next_data_address \in Nat
    BY DEF AsmInit
  <2> QED
    BY <2>1, <2>2, <2>3, <2>4, <2>5 DEF AsmTypeOK
<1>7. code \in Seq(Emission) /\ fixups \in Seq([index : Nat, label : Token])
  BY <1>4
<1>8. input # <<>>
  BY DEF AsmInit
<1> QED
  BY <1>5, <1>6, <1>7, <1>8 DEF AsmInv

(* The state of the assembler is well formed: patches hold bytes at        *)
(* addresses that are not negative, every label points into the code or    *)
(* just behind it, and every fixup is for an instruction that is there.    *)
THEOREM AsmTypeCorrect == Passes => []AsmTypeOK
<1> QED
  BY AsmInitInv, AsmStep, PTL DEF Passes, AsmInv
-----------------------------------------------------------------------------
(* Data is kept: a patch that is closed holds no bytes, so flush_data_patch*)
(* either hands the open patch over whole or has nothing to lose.          *)
PatchClosed == ~patch_active => patch.bytes = <<>>

(* The actions that leave the patch and the segments alone.                *)
Idle ==
  \/ CodeLabel \/ OrgCode \/ Equ \/ Include \/ Movi
  \/ (\E op \in PlainOps : Plain(op))
  \/ (\E op \in ImmediateOps : Immediate(op))
  \/ (\E op \in BranchOps : BranchOrCall(op))
  \/ EndOfInclude \/ Reject \/ ApplyFixup \/ RejectFixup \/ Finish

LEMMA IdleKeepsData ==
  ASSUME Idle
  PROVE  UNCHANGED <<segments, patch, patch_active, next_data_address>>
BY DEF Idle, CodeLabel, OrgCode, Equ, Include, Movi, Plain, Immediate, BranchOrCall,
       EndOfInclude, Reject, ApplyFixup, RejectFixup, Finish, dataVars

LEMMA EmptyPatchFields == ASSUME NEW a PROVE EmptyPatch(a).address = a /\ EmptyPatch(a).bytes = <<>>
BY DEF EmptyPatch

LEMMA PatchClosedStep == AsmInv /\ PatchClosed /\ [AsmNext]_asmVars => PatchClosed'
<1> SUFFICES ASSUME AsmInv, PatchClosed, [AsmNext]_asmVars
             PROVE  PatchClosed'
  OBVIOUS
<1> USE DEF PatchClosed
<1>1. CASE Idle
  BY <1>1, IdleKeepsData
<1>2. CASE UNCHANGED asmVars
  BY <1>2 DEF asmVars, dataVars
<1>3. CASE SectionDirective \/ EndOfSource
  BY <1>3, EmptyPatchFields DEF SectionDirective, EndOfSource, FlushDataPatch
<1>4. CASE DataLabel \/ OrgData \/ WordDirective \/ ByteDirective
  BY <1>4 DEF DataLabel, OrgData, WordDirective, ByteDirective, EmitBytes
<1>5. CASE Data
  BY <1>5 DEF Data
<1> QED
  BY <1>1, <1>2, <1>3, <1>4, <1>5 DEF AsmNext, Idle

InSegments(s, x) == \E k \in DOMAIN s : x \in BytesOf(s[k])

LEMMA PlacedMeans == \A x : x \in Placed <=> x \in BytesOf(patch) \/ InSegments(segments, x)
BY DEF Placed, InSegments

LEMMA PlacedMeansNext == \A x : x \in Placed' <=> x \in BytesOf(patch') \/ InSegments(segments', x)
BY DEF Placed, InSegments, BytesOf

LEMMA AppendKeeps ==
  ASSUME NEW s \in Seq(Patch), NEW p \in Patch
  PROVE  /\ \A x : InSegments(s, x) => InSegments(Append(s, p), x)
         /\ \A x \in BytesOf(p) : InSegments(Append(s, p), x)
<1>1. /\ Len(Append(s, p)) = Len(s) + 1 /\ DOMAIN Append(s, p) = 1 .. Len(s) + 1
      /\ \A k \in 1 .. Len(s) : Append(s, p)[k] = s[k]
      /\ Append(s, p)[Len(s) + 1] = p
  OBVIOUS
<1>2. DOMAIN s = 1 .. Len(s) /\ Len(s) \in Nat
  OBVIOUS
<1> QED
  BY <1>1, <1>2 DEF InSegments

(* The bytes of a patch stay where they are when more are appended.        *)
LEMMA LongerKeeps ==
  ASSUME NEW p \in Patch, NEW more \in Seq(Byte)
  PROVE  BytesOf(p) \subseteq BytesOf([address |-> p.address, bytes |-> p.bytes \o more])
<1> DEFINE q == [address |-> p.address, bytes |-> p.bytes \o more]
<1>1. p.bytes \in Seq(Byte) /\ q.address = p.address /\ q.bytes = p.bytes \o more
  BY DEF Patch
<1>2. \A k \in DOMAIN p.bytes : k \in DOMAIN q.bytes /\ q.bytes[k] = p.bytes[k]
  <2>1. Len(p.bytes \o more) = Len(p.bytes) + Len(more)
    BY <1>1, ConcatProperties
  <2>2. \A k \in 1 .. Len(p.bytes) + Len(more) :
          (p.bytes \o more)[k] = IF k <= Len(p.bytes) THEN p.bytes[k] ELSE more[k - Len(p.bytes)]
    BY <1>1, ConcatProperties
  <2>3. p.bytes \o more \in Seq(Byte)
    BY <1>1, ConcatProperties
  <2> QED
    BY <1>1, <2>1, <2>2, <2>3
<1> HIDE DEF q
<1> QED
  BY <1>1, <1>2 DEF BytesOf

LEMMA EmptyHasNone == ASSUME NEW p, p.bytes = <<>> PROVE BytesOf(p) = {}
<1>1. DOMAIN <<>> = {}
  OBVIOUS
<1> QED
  BY <1>1 DEF BytesOf

LEMMA FlushKeeps ==
  ASSUME AsmInv, PatchClosed
  PROVE  /\ \A x : InSegments(segments, x) => InSegments(Flushed, x)
         /\ \A x \in BytesOf(patch) : InSegments(Flushed, x)
<1>1. segments \in Seq(Patch) /\ patch \in Patch
  BY DEF AsmInv, AsmTypeOK
<1>2. CASE Flushable
  BY <1>1, <1>2, AppendKeeps DEF Flushed
<1>3. CASE ~Flushable
  <2>1. patch.bytes = <<>>
    BY <1>3 DEF PatchClosed, Flushable
  <2>2. BytesOf(patch) = {}
    BY <2>1, EmptyHasNone
  <2> QED
    BY <1>3, <2>2 DEF Flushed
<1> QED
  BY <1>2, <1>3

LEMMA DataKept ==
  ASSUME AsmInv, PatchClosed, [AsmNext]_asmVars
  PROVE  Placed \subseteq Placed'
<1> USE PlacedMeans, PlacedMeansNext
<1>1. segments \in Seq(Patch) /\ patch \in Patch
  BY DEF AsmInv, AsmTypeOK
<1>2. CASE Idle \/ UNCHANGED asmVars
  BY <1>2, IdleKeepsData DEF asmVars, dataVars
<1>3. CASE SectionDirective \/ EndOfSource \/ OrgData
  <2>1. segments' = Flushed
    BY <1>3 DEF SectionDirective, EndOfSource, OrgData, FlushDataPatch
  <2> QED
    BY <2>1, FlushKeeps
<1>4. CASE Data
  <2>1. /\ segments' = Append(segments, [address |-> ValueOf(Statement.arg), bytes |-> ByteBytes(Statement.rest)])
        /\ patch' = patch
    BY <1>4 DEF Data
  <2>2. segments' \in Seq(Patch)
    BY AsmStep DEF AsmInv, AsmTypeOK
  <2>3. [address |-> ValueOf(Statement.arg), bytes |-> ByteBytes(Statement.rest)] \in Patch
    <3>1. ~AtEnd /\ Accepted(Statement) /\ Statement.op = ".data" /\ SymbolsTyped
      BY <1>4 DEF Data, Reads, Assembling, AsmInv, AsmTypeOK, SymbolsTyped
    <3>2. Statement.rest \in Seq(Token) /\ ValueOf(Statement.arg) \in Nat
      BY <3>1, StatementFields, ValueTyped DEF Accepted
    <3>3. ByteBytes(Statement.rest) \in Seq(Byte)
      BY <3>1, <3>2, ByteBytesTyped DEF Accepted, AllFit
    <3> QED
      BY <3>2, <3>3 DEF Patch
  <2> QED
    BY <1>1, <2>1, <2>3, AppendKeeps
<1>5. CASE DataLabel
  <2>1. segments' = segments /\ patch' = OpenPatch
    BY <1>5 DEF DataLabel
  <2>2. BytesOf(patch) \subseteq BytesOf(OpenPatch)
    BY EmptyHasNone DEF OpenPatch, PatchClosed
  <2> QED
    BY <2>1, <2>2
<1>6. ASSUME NEW bytes \in Seq(Byte), EmitBytes(bytes) PROVE Placed \subseteq Placed'
  <2>1. segments' = segments /\ patch' = [address |-> OpenPatch.address, bytes |-> OpenPatch.bytes \o bytes]
    BY <1>6 DEF EmitBytes
  <2>2. BytesOf(patch) \subseteq BytesOf(OpenPatch)
    BY EmptyHasNone DEF OpenPatch, PatchClosed
  <2>3. BytesOf(OpenPatch) \subseteq BytesOf(patch')
    BY <2>1, OpenPatchTyped, LongerKeeps
  <2> QED
    BY <2>1, <2>2, <2>3
<1>7. CASE WordDirective \/ ByteDirective
  <2>1. ~AtEnd /\ Accepted(Statement) /\ SymbolsTyped /\ Statement.op \in {".word", ".byte"}
    BY <1>7 DEF WordDirective, ByteDirective, Reads, Assembling, AsmInv, AsmTypeOK, SymbolsTyped
  <2>2. Statement.rest \in Seq(Token) /\ \A k \in DOMAIN Statement.rest : Known(Statement.rest[k])
    BY <2>1, StatementFields DEF Accepted, AllFit
  <2> QED
    BY <1>6, <1>7, <2>1, <2>2, WordBytesTyped, ByteBytesTyped DEF WordDirective, ByteDirective
<1> QED
  BY <1>2, <1>3, <1>4, <1>5, <1>7 DEF AsmNext, Idle

(* Only a fixup changes an instruction that has been emitted.              *)
LEMMA CodeGrows ==
  ASSUME AsmInv, [AsmNext]_asmVars, ~ApplyFixup
  PROVE  \A k \in 1 .. Len(code) : k \in 1 .. Len(code') /\ code'[k] = code[k]
<1>1. code \in Seq(Emission) /\ Len(code) \in Nat
  BY DEF AsmInv
<1>2. CASE UNCHANGED code
  BY <1>1, <1>2
<1>3. ASSUME NEW e, code' = Append(code, e)
      PROVE  \A k \in 1 .. Len(code) : k \in 1 .. Len(code') /\ code'[k] = code[k]
  BY <1>1, <1>3
<1>4. CASE Movi
  BY <1>3, <1>4 DEF Movi, Emit, EmitLater
<1>5. ASSUME NEW op, Plain(op) \/ Immediate(op) \/ BranchOrCall(op)
      PROVE  \A k \in 1 .. Len(code) : k \in 1 .. Len(code') /\ code'[k] = code[k]
  <2>1. \E e : code' = Append(code, e)
    BY <1>5 DEF Plain, Immediate, BranchOrCall, Emit, EmitLater
  <2> QED
    BY <1>3, <2>1
<1>6. CASE OrgCode
  <2> DEFINE n == (ValueOf(Statement.arg) \div 4) - Len(code)
  <2>1. ~AtEnd /\ Accepted(Statement) /\ Statement.op = ".org" /\ section = "code" /\ SymbolsTyped
    BY <1>6 DEF OrgCode, Reads, Assembling, AsmInv, AsmTypeOK, SymbolsTyped
  <2>2. ValueOf(Statement.arg) \in Int
    BY <2>1, ValueTyped DEF Accepted
  <2>3. n \in Nat /\ code' = code \o NopFill(n)
    BY <1>1, <1>6, <2>1, <2>2 DEF Accepted, OrgFits, OrgCode
  <2> HIDE DEF n
  <2>4. NopFill(n) \in Seq(Emission) /\ Len(NopFill(n)) = n
    BY <2>3, NopFillTyped
  <2> QED
    BY <1>1, <2>3, <2>4, ConcatProperties
<1>7. CASE \/ CodeLabel \/ DataLabel \/ SectionDirective \/ OrgData \/ Data \/ WordDirective
           \/ ByteDirective \/ Equ \/ Include \/ EndOfInclude \/ EndOfSource \/ Reject
           \/ RejectFixup \/ Finish \/ UNCHANGED asmVars
  <2>1. UNCHANGED code
    BY <1>7 DEF CodeLabel, DataLabel, SectionDirective, OrgData, Data, WordDirective, ByteDirective,
       EmitBytes, Equ, Include, EndOfInclude, EndOfSource, Reject, RejectFixup, Finish, asmVars
  <2> QED
    BY <1>2, <2>1
<1> QED
  BY <1>4, <1>5, <1>6, <1>7 DEF AsmNext

LEMMA OperationsKept ==
  ASSUME AsmInv, [AsmNext]_asmVars
  PROVE  \A k \in DOMAIN code : k \in DOMAIN code' /\ code'[k].op = code[k].op
<1>1. code \in Seq(Emission) /\ code' \in Seq(Emission)
  BY AsmStep DEF AsmInv
<1>2. DOMAIN code = 1 .. Len(code) /\ DOMAIN code' = 1 .. Len(code')
  BY <1>1
<1>3. CASE ~ApplyFixup
  BY <1>2, <1>3, CodeGrows
<1>4. CASE ApplyFixup
  <2>1. code'[Fixup.index].op = code[Fixup.index].op
    BY <1>4, FixupTyped DEF Emitted
  <2> QED
    BY <1>2, <1>4, <2>1, FixupTyped
<1> QED
  BY <1>3, <1>4

(* No byte of data and no instruction that has been emitted is ever        *)
(* dropped or moved, for every source: the patches handed over, the open   *)
(* one, and those .data pushes past it.                                    *)
THEOREM NothingLostCorrect == Passes => NothingLost
<1>1. AsmInit => AsmInv /\ PatchClosed
  BY AsmInitInv DEF AsmInit, PatchClosed, EmptyPatch
<1>2. AsmInv /\ PatchClosed /\ [AsmNext]_asmVars => AsmInv' /\ PatchClosed'
  BY AsmStep, PatchClosedStep
<1>3. AsmInv /\ PatchClosed /\ [AsmNext]_asmVars
        => [ /\ Placed \subseteq Placed'
             /\ \A i \in DOMAIN code : i \in DOMAIN code' /\ code'[i].op = code[i].op ]_asmVars
  BY DataKept, OperationsKept
<1> QED
  BY <1>1, <1>2, <1>3, PTL DEF Passes, NothingLost
-----------------------------------------------------------------------------
(* The location counter of the data section.                               *)
LEMMA LocationOf ==
  /\ patch_active => Location = patch.address + Len(patch.bytes)
  /\ ~patch_active => Location = next_data_address + Len(<<>>)
BY DEF Location, OpenPatch, EmptyPatch

LEMMA LocationNext ==
  /\ patch_active' => Location' = patch'.address + Len(patch'.bytes)
  /\ ~patch_active' => Location' = next_data_address' + Len(<<>>)
BY DEF Location, OpenPatch, EmptyPatch

LEMMA EmptyLength == Len(<<>>) = 0
OBVIOUS

(* What a step does to it when nothing displaces it.                       *)
LocationMoves == ~Displaced => Location' = Location + (IF status' = "failed" THEN 0 ELSE Appended)

(* Closing the open patch loses no byte of it, and a patch without a byte  *)
(* only when the next one goes to the same address.                        *)
LEMMA CloseStays ==
  ASSUME AsmInv, SectionDirective \/ EndOfSource, ~Displaced
  PROVE  Location' = Location + 0
<1>1. Location \in Nat /\ next_data_address \in Nat /\ patch.address \in Nat /\ patch.bytes \in Seq(Byte)
  BY OpenPatchTyped DEF AsmInv, AsmTypeOK, Patch
<1>2. ~patch_active' /\ next_data_address' = FlushedAddress
  BY DEF SectionDirective, EndOfSource, FlushDataPatch
<1>3. FlushedAddress = Location
  <2>1. CASE Flushable
    BY <2>1 DEF FlushedAddress
  <2>2. CASE ~patch_active
    BY <1>1, <2>2, LocationOf, EmptyLength DEF FlushedAddress, Flushable
  <2>3. CASE patch_active /\ patch.bytes = <<>>
    <3>1. status = "assembling" /\ (IF AtEnd THEN Len(input) = 1 ELSE Statement.op = ".section")
      BY DEF SectionDirective, EndOfSource, Reads, Assembling
    <3>2. patch.address = next_data_address
      BY <2>3, <3>1 DEF Displaced
    <3>3. Location = patch.address
      BY <1>1, <2>3, LocationOf, EmptyLength
    <3> QED
      BY <2>3, <3>2, <3>3 DEF FlushedAddress, Flushable
  <2> QED
    BY <2>1, <2>2, <2>3 DEF Flushable
<1> QED
  BY <1>1, <1>2, <1>3, LocationNext, EmptyLength

LEMMA LocationStep ==
  ASSUME AsmInv, [AsmNext]_asmVars
  PROVE  [LocationMoves]_asmVars
<1> SUFFICES ASSUME AsmNext, ~Displaced
             PROVE  Location' = Location + (IF status' = "failed" THEN 0 ELSE Appended)
  BY DEF LocationMoves
<1>1. /\ Location \in Nat /\ Location = OpenPatch.address + Len(OpenPatch.bytes)
      /\ OpenPatch.address \in Nat /\ OpenPatch.bytes \in Seq(Byte)
  BY OpenPatchTyped DEF Location
<1>2. ASSUME NEW n \in Nat, Location' = Location + n, status' # "failed", Appended = n
      PROVE  Location' = Location + (IF status' = "failed" THEN 0 ELSE Appended)
  BY <1>2
<1>3. ASSUME UNCHANGED <<patch, patch_active, next_data_address>>
      PROVE  Location' = Location + 0
  BY <1>1, <1>3, LocationOf, LocationNext
<1>4. CASE Reject \/ RejectFixup
  BY <1>3, <1>4 DEF Reject, RejectFixup, dataVars
<1>5. CASE ApplyFixup \/ Finish \/ EndOfInclude
  <2>1. Appended = 0 /\ UNCHANGED <<patch, patch_active, next_data_address>>
    BY <1>5 DEF ApplyFixup, Finish, EndOfInclude, dataVars, Appended
  <2> QED
    BY <1>3, <2>1
<1>6. CASE SectionDirective \/ EndOfSource
  <2>1. Location' = Location + 0
    BY <1>6, CloseStays
  <2>2. Appended = 0
    BY <1>6 DEF SectionDirective, EndOfSource, Reads, Assembling, Appended
  <2> QED
    BY <2>1, <2>2
<1>7. ASSUME NEW op, Assembling(op), op \notin {".word", ".byte"}, Location' = Location + 0
      PROVE  Location' = Location + (IF status' = "failed" THEN 0 ELSE Appended)
  <2>1. Appended = 0
    BY <1>7 DEF Assembling, Appended
  <2> QED
    BY <1>7, <2>1
<1>8. CASE CodeLabel \/ OrgCode \/ Equ \/ Include \/ Movi
  <2>1. UNCHANGED <<patch, patch_active, next_data_address>>
    BY <1>8 DEF CodeLabel, OrgCode, Equ, Include, Movi, dataVars
  <2>2. PICK op : Assembling(op) /\ op \notin {".word", ".byte"}
    BY <1>8 DEF CodeLabel, OrgCode, Equ, Include, Movi, Reads
  <2> QED
    BY <1>3, <1>7, <2>1, <2>2
<1>9. ASSUME NEW op \in CodeOps, Plain(op) \/ Immediate(op) \/ BranchOrCall(op)
       PROVE  Location' = Location + (IF status' = "failed" THEN 0 ELSE Appended)
  <2>1. UNCHANGED <<patch, patch_active, next_data_address>> /\ Assembling(op)
    BY <1>9 DEF Plain, Immediate, BranchOrCall, dataVars, Reads
  <2>2. op \notin {".word", ".byte"}
    BY DEF CodeOps, PlainOps, BareOps, SingleOps, PairOps, TripleOps, ImmediateOps, BranchOps, LoadOps
  <2> QED
    BY <1>3, <1>7, <2>1, <2>2
<1>10. CASE OrgData
  BY <1>10 DEF OrgData, Reads, Assembling, Displaced
<1>11. ASSUME NEW bytes \in Seq(Byte), EmitBytes(bytes)
       PROVE  Location' = Location + Len(bytes)
  <2>1. patch'.address = OpenPatch.address /\ patch'.bytes = OpenPatch.bytes \o bytes /\ patch_active'
    BY <1>11 DEF EmitBytes
  <2>2. Len(OpenPatch.bytes \o bytes) = Len(OpenPatch.bytes) + Len(bytes)
    BY <1>1, ConcatProperties
  <2> QED
    BY <1>1, <2>1, <2>2, LocationNext
<1>12. CASE WordDirective \/ ByteDirective
  <2>1. /\ ~AtEnd /\ Accepted(Statement) /\ SymbolsTyped /\ status = "assembling" /\ status' = status
        /\ WordDirective => Statement.op = ".word"
        /\ ByteDirective => Statement.op = ".byte"
    BY <1>12 DEF WordDirective, ByteDirective, Reads, Assembling, AsmInv, AsmTypeOK, SymbolsTyped
  <2>2. Statement.rest \in Seq(Token)
    BY <2>1, StatementFields
  <2>3. \A k \in DOMAIN Statement.rest : Known(Statement.rest[k])
    BY <1>12, <2>1 DEF Accepted, AllFit
  <2>4. CASE WordDirective
    <3>1. WordBytes(Statement.rest) \in Seq(Byte) /\ Len(WordBytes(Statement.rest)) = 4 * Len(Statement.rest)
      BY <2>1, <2>2, <2>3, WordBytesTyped
    <3>2. Appended = 4 * Len(Statement.rest)
      BY <2>1, <2>4 DEF Appended
    <3>3. Location' = Location + Len(WordBytes(Statement.rest))
      BY <1>11, <2>4, <3>1 DEF WordDirective
    <3> QED
      BY <2>1, <3>1, <3>2, <3>3
  <2>5. CASE ByteDirective
    <3>1. ByteBytes(Statement.rest) \in Seq(Byte) /\ Len(ByteBytes(Statement.rest)) = Len(Statement.rest)
      BY <2>1, <2>2, <2>3, ByteBytesTyped
    <3>2. Appended = Len(Statement.rest)
      BY <2>1, <2>5 DEF Appended
    <3>3. Location' = Location + Len(ByteBytes(Statement.rest))
      BY <1>11, <2>5, <3>1 DEF ByteDirective
    <3> QED
      BY <2>1, <3>1, <3>2, <3>3
  <2> QED
    BY <1>12, <2>4, <2>5
<1>13. CASE DataLabel
  <2>1. patch' = OpenPatch /\ patch_active'
    BY <1>13 DEF DataLabel
  <2>2. Location' = Location + 0
    BY <1>1, <2>1, LocationNext
  <2>3. Assembling("label")
    BY <1>13 DEF DataLabel, Reads
  <2> QED
    BY <1>7, <2>2, <2>3
<1>14. CASE Data
  <2>1. Assembling(".data") /\ UNCHANGED <<patch, patch_active>>
    BY <1>14 DEF Data, Reads
  <2>2. patch_active
    BY <2>1 DEF Assembling, Displaced
  <2>3. Location' = Location + 0
    BY <1>1, <2>1, <2>2, LocationOf, LocationNext
  <2> QED
    BY <1>7, <2>1, <2>3
<1>15. PlainOps \cup ImmediateOps \cup BranchOps \subseteq CodeOps
  BY DEF CodeOps
<1> QED
  BY <1>4, <1>5, <1>6, <1>8, <1>9, <1>10, <1>12, <1>13, <1>14, <1>15 DEF AsmNext

(* The location of the data section moves by what is appended and by       *)
(* nothing else, for every source, except where Displaced says: at .org, at *)
(* a .data line with no patch open, and where a patch without a byte that  *)
(* such a line has left behind is closed.                                  *)
THEOREM DataContinuesCorrect == Passes => DataContinues
<1>1. AsmInv /\ [AsmNext]_asmVars
        => [ ~Displaced => Location' = Location + (IF status' = "failed" THEN 0 ELSE Appended) ]_asmVars
  BY LocationStep DEF LocationMoves
<1> QED
  BY <1>1, AsmInitInv, AsmStep, PTL DEF Passes, DataContinues
-----------------------------------------------------------------------------
(* Operands.  A label of the code has four times its word as its value, so *)
(* the fixup of a branch through the symbols and a branch through the      *)
(* labels agree; names are bound once, so what is settled stays settled.   *)
Pending(k) == \E n \in 1 .. Len(fixups) : fixups[n].index = k
SettledAs(e, k) ==
  /\ e.op \in BranchOps => e.arg \in DOMAIN symbols /\ e.imm = WordsOf(symbols[e.arg]) - k
  /\ e.op = "MOVI" => \/ e.arg \in DOMAIN symbols /\ e.imm = symbols[e.arg]
                      \/ e.arg \in DOMAIN Literal /\ e.imm = Literal[e.arg]

NamesAgree  == \A t \in DOMAIN label_to_word : symbols[t] = 4 * label_to_word[t]
FixupsNamed == \A n \in 1 .. Len(fixups) : fixups[n].label = code[fixups[n].index].arg
AllSettled  == \A k \in 1 .. Len(code) : Pending(k) \/ SettledAs(code[k], k)
DoneFixed   == status = "done" => fixups = <<>>

ResolveInv == NamesAgree /\ FixupsNamed /\ AllSettled /\ DoneFixed

LEMMA WordsOfLabel == ASSUME NEW w \in Nat PROVE WordsOf(4 * w) = w
BY DEF WordsOf

LEMMA BranchesAreNotMovi == "MOVI" \notin BranchOps
BY DEF BranchOps

LEMMA NamesBoundOnce ==
  ASSUME AsmInv, [AsmNext]_asmVars
  PROVE  \A t \in DOMAIN symbols : t \in DOMAIN symbols' /\ symbols'[t] = symbols[t]
<1>1. CASE UNCHANGED symbols
  BY <1>1
<1>2. CASE CodeLabel \/ DataLabel
  <2>1. Statement.arg \notin DOMAIN symbols
    BY <1>2 DEF CodeLabel, DataLabel, Reads, Assembling, Accepted
  <2>2. \E v : symbols' = Bind(symbols, Statement.arg, v)
    BY <1>2 DEF CodeLabel, DataLabel
  <2> QED
    BY <2>1, <2>2 DEF Bind
<1>3. CASE Equ
  <2>1. Statement.arg \notin DOMAIN symbols
    BY <1>3 DEF Equ, Reads, Assembling, Accepted, EquAccepted
  <2>2. \E v : symbols' = Bind(symbols, Statement.arg, v)
    BY <1>3 DEF Equ
  <2> QED
    BY <2>1, <2>2 DEF Bind
<1> QED
  BY <1>1, <1>2, <1>3
     DEF AsmNext, SectionDirective, OrgCode, OrgData, Data, WordDirective, ByteDirective, EmitBytes,
         Include, Movi, Plain, Immediate, BranchOrCall, EndOfInclude, EndOfSource, Reject,
         ApplyFixup, RejectFixup, Finish, asmVars, nameVars

LEMMA NamesAgreeStep ==
  ASSUME AsmInv, NamesAgree, [AsmNext]_asmVars
  PROVE  NamesAgree'
<1> USE DEF NamesAgree
<1>1. DOMAIN label_to_word \subseteq DOMAIN symbols
  BY DEF AsmInv, AsmTypeOK
<1>2. CASE UNCHANGED label_to_word
  BY <1>1, <1>2, NamesBoundOnce
<1>3. CASE CodeLabel
  <2> DEFINE a == Statement.arg
  <2>1. symbols' = Bind(symbols, a, 4 * Len(code)) /\ label_to_word' = Bind(label_to_word, a, Len(code))
    BY <1>3 DEF CodeLabel
  <2>2. /\ DOMAIN label_to_word' = DOMAIN label_to_word \cup {a}
        /\ label_to_word'[a] = Len(code) /\ symbols'[a] = 4 * Len(code)
        /\ \A y \in DOMAIN label_to_word : y # a => label_to_word'[y] = label_to_word[y]
    BY <2>1 DEF Bind
  <2> QED
    BY <1>1, <2>2, NamesBoundOnce
<1> QED
  BY <1>2, <1>3
     DEF AsmNext, DataLabel, SectionDirective, OrgCode, OrgData, Data, WordDirective, ByteDirective, EmitBytes,
         Equ, Include, Movi, Plain, Immediate, BranchOrCall, EndOfInclude, EndOfSource, Reject,
         ApplyFixup, RejectFixup, Finish, asmVars, nameVars

(* A word that stays and is settled stays settled; and so does a pending   *)
(* one while the fixups only grow.                                         *)
LEMMA StaysSettled ==
  ASSUME AsmInv, AllSettled, [AsmNext]_asmVars, NEW k \in 1 .. Len(code), code'[k] = code[k],
         \A n \in 1 .. Len(fixups) : n \in 1 .. Len(fixups') /\ fixups'[n] = fixups[n]
  PROVE  (Pending(k) \/ SettledAs(code[k], k))'
<1>1. CASE Pending(k)
  BY <1>1 DEF Pending
<1>2. CASE SettledAs(code[k], k)
  BY <1>2, NamesBoundOnce DEF SettledAs
<1> QED
  BY <1>1, <1>2 DEF AllSettled

(* A word that is appended comes settled or with its fixup.                *)
LEMMA AppendSettles ==
  ASSUME AsmInv, FixupsNamed, AllSettled, [AsmNext]_asmVars, NEW e, code' = Append(code, e),
         \/ UNCHANGED fixups /\ SettledAs(e, Len(code) + 1) /\ UNCHANGED symbols
         \/ fixups' = Append(fixups, [index |-> Len(code) + 1, label |-> e.arg])
  PROVE  FixupsNamed' /\ AllSettled'
<1>1. code \in Seq(Emission) /\ fixups \in Seq([index : Nat, label : Token]) /\ Len(code) \in Nat /\ Len(fixups) \in Nat
  BY DEF AsmInv
<1>2. /\ Len(code') = Len(code) + 1 /\ code'[Len(code) + 1] = e
      /\ \A k \in 1 .. Len(code) : code'[k] = code[k]
  BY <1>1
<1>3. \A n \in 1 .. Len(fixups) : fixups[n].index \in 1 .. Len(code)
  BY <1>1 DEF AsmInv, AsmTypeOK
<1>4. CASE UNCHANGED fixups /\ SettledAs(e, Len(code) + 1) /\ UNCHANGED symbols
  <2>1. FixupsNamed'
    BY <1>1, <1>2, <1>3, <1>4 DEF FixupsNamed
  <2>3. ASSUME NEW k \in 1 .. Len(code') PROVE (Pending(k) \/ SettledAs(code[k], k))'
    <3>1. CASE k \in 1 .. Len(code)
      BY <1>1, <1>2, <1>4, <3>1, StaysSettled
    <3>2. CASE k = Len(code) + 1
      BY <1>1, <1>2, <1>4, <3>2 DEF SettledAs
    <3> QED
      BY <1>1, <1>2, <3>1, <3>2
  <2> QED
    BY <2>1, <2>3 DEF AllSettled
<1>5. CASE fixups' = Append(fixups, [index |-> Len(code) + 1, label |-> e.arg])
  <2> DEFINE f == [index |-> Len(code) + 1, label |-> e.arg]
  <2>1. f.index = Len(code) + 1 /\ f.label = e.arg
    OBVIOUS
  <2>2. fixups' = Append(fixups, f)
    BY <1>5
  <2> HIDE DEF f
  <2>3. /\ Len(fixups') = Len(fixups) + 1 /\ fixups'[Len(fixups) + 1] = f
        /\ \A n \in 1 .. Len(fixups) : fixups'[n] = fixups[n]
    BY <1>1, <2>2
  <2>4. ASSUME NEW n \in 1 .. Len(fixups') PROVE fixups'[n].label = code'[fixups'[n].index].arg
    <3>1. CASE n \in 1 .. Len(fixups)
      BY <1>1, <1>2, <1>3, <2>3, <3>1 DEF FixupsNamed
    <3>2. CASE n = Len(fixups) + 1
      BY <1>1, <1>2, <2>1, <2>3, <3>2
    <3>3. n \in 1 .. Len(fixups) \/ n = Len(fixups) + 1
      BY <1>1, <2>3
    <3> QED
      BY <3>1, <3>2, <3>3
  <2>5. ASSUME NEW k \in 1 .. Len(code') PROVE (Pending(k) \/ SettledAs(code[k], k))'
    <3>1. CASE k \in 1 .. Len(code)
      BY <1>1, <1>2, <2>3, <3>1, StaysSettled
    <3>2. CASE k = Len(code) + 1
      BY <1>1, <2>1, <2>3, <3>2 DEF Pending
    <3> QED
      BY <1>1, <1>2, <3>1, <3>2
  <2> QED
    BY <2>4, <2>5 DEF AllSettled, FixupsNamed
<1> QED
  BY <1>4, <1>5

LEMMA ResolveByFixup ==
  ASSUME AsmInv, FixupsNamed, AllSettled, ApplyFixup
  PROVE  FixupsNamed' /\ AllSettled'
<1>a. Fixup.index \in 1 .. Len(code)
  BY FixupTyped
<1>j. PICK j \in 1 .. Len(code) : j = Fixup.index
  BY <1>a
<1>x. PICK x : x = Fixup.label
  OBVIOUS
<1>1. code \in Seq(Emission) /\ fixups \in Seq([index : Nat, label : Token]) /\ Len(code) \in Nat
  BY DEF AsmInv
<1>2. /\ Len(code') = Len(code) /\ j \in 1 .. Len(code) /\ x \in DOMAIN symbols
      /\ code'[j] = Emitted(code[j].op, Resolved(code[j].op, symbols[x], j), code[j].arg)
      /\ \A k \in 1 .. Len(code) : k # j => code'[k] = code[k]
      /\ fixups' = Tail(fixups) /\ fixups # <<>>
  BY <1>j, <1>x, FixupTyped
<1>3. /\ code'[j].op = code[j].op /\ code'[j].arg = code[j].arg
      /\ code'[j].imm = Resolved(code[j].op, symbols[x], j)
  BY <1>2 DEF Emitted
<1>4. Len(fixups) \in Nat /\ Len(fixups) >= 1
  BY <1>1, <1>2
<1>5. Len(fixups') = Len(fixups) - 1 /\ \A n \in 1 .. Len(fixups') : fixups'[n] = fixups[n + 1]
  BY <1>1, <1>2, HeadTailProperties
<1>6. x = code[j].arg
  BY <1>4, <1>j, <1>x DEF FixupsNamed, Fixup
<1>7. UNCHANGED symbols
  BY DEF ApplyFixup, nameVars
<1>8. \A n \in 1 .. Len(fixups) : fixups[n].index \in 1 .. Len(code)
  BY <1>1 DEF AsmInv, AsmTypeOK
<1>9. \A k \in 1 .. Len(code) : code'[k].arg = code[k].arg
  BY <1>2, <1>3
<1>10. FixupsNamed'
  <2> SUFFICES ASSUME NEW n \in 1 .. Len(fixups')
               PROVE  fixups'[n].label = code'[fixups'[n].index].arg
    BY DEF FixupsNamed
  <2>1. n + 1 \in 1 .. Len(fixups) /\ fixups'[n] = fixups[n + 1]
    BY <1>4, <1>5
  <2>2. fixups[n + 1].index \in 1 .. Len(code) /\ fixups[n + 1].label = code[fixups[n + 1].index].arg
    BY <1>8, <2>1 DEF FixupsNamed
  <2> QED
    BY <1>9, <2>1, <2>2
<1>11. SettledAs(code[j], j)'
  <2>1. code'[j].op \in BranchOps => code'[j].imm = WordsOf(symbols'[x]) - j
    BY <1>3, <1>7, BranchesAreNotMovi DEF Resolved
  <2>2. code'[j].op = "MOVI" => code'[j].imm = symbols'[x]
    BY <1>3, <1>7 DEF Resolved
  <2> QED
    BY <1>2, <1>3, <1>6, <1>7, <2>1, <2>2 DEF SettledAs
<1>12. ASSUME NEW k \in 1 .. Len(code') PROVE (Pending(k) \/ SettledAs(code[k], k))'
  <2>1. CASE k = j
    BY <1>11, <2>1
  <2>2. CASE k # j /\ Pending(k)
    <3>1. PICK n \in 1 .. Len(fixups) : fixups[n].index = k
      BY <2>2 DEF Pending
    <3>2. n # 1
      BY <1>j, <2>2, <3>1 DEF Fixup
    <3>3. n - 1 \in 1 .. Len(fixups') /\ fixups'[n - 1] = fixups[n]
      BY <1>4, <1>5, <3>1, <3>2
    <3> QED
      BY <3>1, <3>3 DEF Pending
  <2>3. CASE k # j /\ SettledAs(code[k], k)
    <3>1. code'[k] = code[k]
      BY <1>2, <2>3
    <3> QED
      BY <1>7, <2>3, <3>1 DEF SettledAs
  <2> QED
    BY <1>2, <2>1, <2>2, <2>3 DEF AllSettled
<1> QED
  BY <1>10, <1>12 DEF AllSettled

LEMMA MoviSettles ==
  ASSUME AsmInv, FixupsNamed, AllSettled, Movi
  PROVE  FixupsNamed' /\ AllSettled'
<1> DEFINE a == Statement.arg
<1>1. UNCHANGED symbols /\ [AsmNext]_asmVars
  BY DEF Movi, nameVars, AsmNext
<1>2. CASE Known(a) /\ Fits(ValueOf(a), Far)
  <2> DEFINE e == Emitted("MOVI", ValueOf(a), a)
  <2>1. code' = Append(code, e) /\ UNCHANGED fixups
    BY <1>2 DEF Movi, Emit
  <2>2. e.op = "MOVI" /\ e.imm = ValueOf(a) /\ e.arg = a
    BY DEF Emitted
  <2> HIDE DEF e
  <2>3. SettledAs(e, Len(code) + 1)
    BY <1>2, <2>2, BranchesAreNotMovi DEF SettledAs, Known, ValueOf
  <2> QED
    BY <1>1, <2>1, <2>3, AppendSettles
<1>3. CASE ~(Known(a) /\ Fits(ValueOf(a), Far))
  <2> DEFINE e == Emitted("MOVI", 0, a)
  <2>1. /\ code' = Append(code, e)
        /\ fixups' = Append(fixups, [index |-> Len(code) + 1, label |-> a])
    BY <1>3 DEF Movi, EmitLater, Emit
  <2>2. e.arg = a
    BY DEF Emitted
  <2> HIDE DEF e
  <2> QED
    BY <1>1, <2>1, <2>2, AppendSettles
<1> QED
  BY <1>2, <1>3

LEMMA BranchSettles ==
  ASSUME AsmInv, NamesAgree, FixupsNamed, AllSettled, NEW op \in BranchOps, BranchOrCall(op)
  PROVE  FixupsNamed' /\ AllSettled'
<1> DEFINE a == Statement.arg
<1>1. UNCHANGED symbols /\ [AsmNext]_asmVars
  BY DEF BranchOrCall, nameVars, AsmNext
<1>2. CASE a \in DOMAIN label_to_word
  <2> DEFINE e == Emitted(op, label_to_word[a] - (Len(code) + 1), a)
  <2>1. code' = Append(code, e) /\ UNCHANGED fixups
    BY <1>2 DEF BranchOrCall, Emit
  <2>2. e.op = op /\ e.imm = label_to_word[a] - (Len(code) + 1) /\ e.arg = a
    BY DEF Emitted
  <2>3. label_to_word[a] \in Nat /\ a \in DOMAIN symbols
    BY <1>2 DEF AsmInv, AsmTypeOK
  <2>4. WordsOf(symbols[a]) = label_to_word[a]
    BY <1>2, <2>3, WordsOfLabel DEF NamesAgree
  <2> HIDE DEF e
  <2>5. SettledAs(e, Len(code) + 1)
    BY <2>2, <2>3, <2>4, BranchesAreNotMovi DEF SettledAs
  <2> QED
    BY <1>1, <2>1, <2>5, AppendSettles
<1>3. CASE a \notin DOMAIN label_to_word
  <2> DEFINE e == Emitted(op, 0, a)
  <2>1. /\ code' = Append(code, e)
        /\ fixups' = Append(fixups, [index |-> Len(code) + 1, label |-> a])
    BY <1>3 DEF BranchOrCall, EmitLater, Emit
  <2>2. e.arg = a
    BY DEF Emitted
  <2> HIDE DEF e
  <2> QED
    BY <1>1, <2>1, <2>2, AppendSettles
<1> QED
  BY <1>2, <1>3

LEMMA OthersSettle ==
  ASSUME AsmInv, FixupsNamed, AllSettled, NEW op,
         (op \in PlainOps /\ Plain(op)) \/ (op \in ImmediateOps /\ Immediate(op))
  PROVE  FixupsNamed' /\ AllSettled'
<1>1. PICK imm : code' = Append(code, Emitted(op, imm, ""))
  BY DEF Plain, Immediate, Emit
<1> DEFINE e == Emitted(op, imm, "")
<1>2. e.op = op
  BY DEF Emitted
<1>3. op \notin BranchOps /\ op # "MOVI"
  BY DEF PlainOps, BareOps, SingleOps, PairOps, TripleOps, ImmediateOps, LoadOps, BranchOps
<1>4. UNCHANGED symbols /\ UNCHANGED fixups
  BY DEF Plain, Immediate, nameVars
<1>5. [AsmNext]_asmVars
  BY DEF AsmNext
<1>6. code' = Append(code, e)
  BY <1>1
<1> HIDE DEF e
<1>7. SettledAs(e, Len(code) + 1)
  BY <1>2, <1>3 DEF SettledAs
<1> QED
  BY <1>4, <1>5, <1>6, <1>7, AppendSettles

(* The words that .org leaves out are filled with NOPs, which have no      *)
(* operand to settle.                                                      *)
LEMMA FillSettles ==
  ASSUME AsmInv, FixupsNamed, AllSettled, OrgCode
  PROVE  FixupsNamed' /\ AllSettled'
<1> DEFINE n == (ValueOf(Statement.arg) \div 4) - Len(code)
<1>1. ~AtEnd /\ Accepted(Statement) /\ Statement.op = ".org" /\ section = "code" /\ SymbolsTyped
  BY DEF OrgCode, Reads, Assembling, AsmInv, AsmTypeOK, SymbolsTyped
<1>2. ValueOf(Statement.arg) \in Int /\ code \in Seq(Emission) /\ Len(code) \in Nat
  BY <1>1, ValueTyped DEF Accepted, AsmInv
<1>3. n \in Nat /\ code' = code \o NopFill(n)
  BY <1>1, <1>2 DEF Accepted, OrgFits, OrgCode
<1> HIDE DEF n
<1>4. /\ NopFill(n) \in Seq(Emission) /\ Len(NopFill(n)) = n
      /\ \A k \in 1 .. n : NopFill(n)[k].op = "NOP"
  BY <1>3, NopFillTyped
<1>5. /\ Len(code') = Len(code) + n
      /\ \A k \in 1 .. Len(code) + n :
           code'[k] = IF k <= Len(code) THEN code[k] ELSE NopFill(n)[k - Len(code)]
  BY <1>2, <1>3, <1>4, ConcatProperties
<1>6. UNCHANGED fixups /\ [AsmNext]_asmVars
  BY DEF OrgCode, AsmNext
<1>7. fixups \in Seq([index : Nat, label : Token])
  BY DEF AsmInv
<1>8. \A m \in 1 .. Len(fixups) : fixups[m].index \in 1 .. Len(code)
  BY <1>2, <1>7 DEF AsmInv, AsmTypeOK
<1>9. FixupsNamed'
  BY <1>2, <1>3, <1>5, <1>6, <1>8 DEF FixupsNamed
<1>10. ASSUME NEW k \in 1 .. Len(code') PROVE (Pending(k) \/ SettledAs(code[k], k))'
  <2>1. CASE k \in 1 .. Len(code)
    <3>1. code'[k] = code[k]
      BY <1>2, <1>3, <1>5, <2>1
    <3> QED
      BY <1>6, <2>1, <3>1, StaysSettled
  <2>2. CASE k \notin 1 .. Len(code)
    <3>1. k - Len(code) \in 1 .. n /\ code'[k] = NopFill(n)[k - Len(code)]
      BY <1>2, <1>3, <1>5, <2>2
    <3>2. code'[k].op = "NOP"
      BY <1>4, <3>1
    <3>3. "NOP" \notin BranchOps
      BY DEF BranchOps
    <3> QED
      BY <3>2, <3>3 DEF SettledAs
  <2> QED
    BY <2>1, <2>2
<1> QED
  BY <1>9, <1>10 DEF AllSettled

LEMMA SettleStep ==
  ASSUME AsmInv, NamesAgree, FixupsNamed, AllSettled, [AsmNext]_asmVars
  PROVE  FixupsNamed' /\ AllSettled'
<1>1. CASE UNCHANGED <<code, fixups>>
  <2>1. FixupsNamed'
    BY <1>1 DEF FixupsNamed
  <2>2. ASSUME NEW k \in 1 .. Len(code') PROVE (Pending(k) \/ SettledAs(code[k], k))'
    BY <1>1, StaysSettled
  <2> QED
    BY <2>1, <2>2 DEF AllSettled
<1>2. CASE Movi
  BY <1>2, MoviSettles
<1>3. CASE OrgCode
  BY <1>3, FillSettles
<1>4. CASE ApplyFixup
  BY <1>4, ResolveByFixup
<1>5. ASSUME NEW op \in BranchOps, BranchOrCall(op) PROVE FixupsNamed' /\ AllSettled'
  BY <1>5, BranchSettles
<1>6. ASSUME NEW op, (op \in PlainOps /\ Plain(op)) \/ (op \in ImmediateOps /\ Immediate(op))
      PROVE  FixupsNamed' /\ AllSettled'
  BY <1>6, OthersSettle
<1>7. CASE \/ CodeLabel \/ DataLabel \/ SectionDirective \/ OrgData \/ Data \/ WordDirective
           \/ ByteDirective \/ Equ \/ Include \/ EndOfInclude \/ EndOfSource \/ Reject
           \/ RejectFixup \/ Finish \/ UNCHANGED asmVars
  <2>1. UNCHANGED <<code, fixups>>
    BY <1>7 DEF CodeLabel, DataLabel, SectionDirective, OrgData, Data, WordDirective, ByteDirective,
       EmitBytes, Equ, Include, EndOfInclude, EndOfSource, Reject, RejectFixup, Finish, asmVars
  <2> QED
    BY <1>1, <2>1
<1>8. CASE (\E op \in PlainOps : Plain(op)) \/ (\E op \in ImmediateOps : Immediate(op))
  <2>1. CASE \E op \in PlainOps : Plain(op)
    <3>1. PICK op \in PlainOps : Plain(op)
      BY <2>1
    <3>2. (op \in PlainOps /\ Plain(op)) \/ (op \in ImmediateOps /\ Immediate(op))
      BY <3>1
    <3> QED
      BY <1>6, <3>2
  <2>2. CASE \E op \in ImmediateOps : Immediate(op)
    <3>1. PICK op \in ImmediateOps : Immediate(op)
      BY <2>2
    <3>2. (op \in PlainOps /\ Plain(op)) \/ (op \in ImmediateOps /\ Immediate(op))
      BY <3>1
    <3> QED
      BY <1>6, <3>2
  <2> QED
    BY <1>8, <2>1, <2>2
<1>9. CASE \E op \in BranchOps : BranchOrCall(op)
  BY <1>5, <1>9
<1> QED
  BY <1>2, <1>3, <1>4, <1>7, <1>8, <1>9 DEF AsmNext

LEMMA DoneStep ==
  ASSUME AsmInv, DoneFixed, [AsmNext]_asmVars
  PROVE  DoneFixed'
<1> USE DEF DoneFixed
<1>1. CASE UNCHANGED <<status, fixups>>
  BY <1>1
<1>2. CASE status' \in {"assembling", "fixing", "failed"}
  BY <1>2
<1>3. CASE Finish
  BY <1>3 DEF Finish
<1>4. status \in {"assembling", "fixing", "done", "failed"}
  BY DEF AsmInv, AsmTypeOK
<1>5. ASSUME NEW op, Assembling(op) PROVE status' = "assembling"
  BY <1>5 DEF Assembling
<1>6. CASE \/ CodeLabel \/ DataLabel \/ SectionDirective \/ OrgCode \/ OrgData \/ Data \/ WordDirective
           \/ ByteDirective \/ Equ \/ Include \/ Movi
  BY <1>2, <1>5, <1>6 DEF CodeLabel, DataLabel, SectionDirective, OrgCode, OrgData, Data, WordDirective,
     ByteDirective, Equ, Include, Movi, Reads
<1>7. ASSUME NEW op, Plain(op) \/ Immediate(op) \/ BranchOrCall(op) PROVE DoneFixed'
  BY <1>2, <1>5, <1>7 DEF Plain, Immediate, BranchOrCall, Reads
<1>8. CASE EndOfInclude \/ EndOfSource \/ Reject \/ RejectFixup \/ ApplyFixup
  BY <1>2, <1>8 DEF EndOfInclude, EndOfSource, Reject, RejectFixup, ApplyFixup
<1>9. CASE UNCHANGED asmVars
  BY <1>1, <1>9 DEF asmVars
<1> QED
  BY <1>3, <1>6, <1>7, <1>8, <1>9 DEF AsmNext

LEMMA ResolveStep == AsmInv /\ ResolveInv /\ [AsmNext]_asmVars => ResolveInv'
BY NamesAgreeStep, SettleStep, DoneStep DEF ResolveInv

LEMMA ResolveInit == AsmInit => ResolveInv
<1> SUFFICES ASSUME AsmInit PROVE ResolveInv
  OBVIOUS
<1>1. Len(code) = 0 /\ Len(fixups) = 0 /\ DOMAIN label_to_word = {} /\ status # "done"
  BY DEF AsmInit
<1> QED
  BY <1>1 DEF ResolveInv, NamesAgree, FixupsNamed, AllSettled, DoneFixed

LEMMA SettledMeansAlike == AsmInv /\ ResolveInv => ResolvedAlike
<1> SUFFICES ASSUME AsmInv, ResolveInv, status = "done", NEW k \in DOMAIN code,
                    code[k].op \in BranchOps \cup {"MOVI"}, code[k].arg \notin DOMAIN Literal \cap DOMAIN symbols
             PROVE  code[k].imm = Meaning(k)
  BY DEF ResolvedAlike
<1> DEFINE t == code[k].arg
<1>1. code \in Seq(Emission) /\ k \in 1 .. Len(code)
  BY DEF AsmInv
<1>2. Len(fixups) = 0
  BY DEF ResolveInv, DoneFixed
<1>3. SettledAs(code[k], k)
  BY <1>1, <1>2 DEF ResolveInv, AllSettled, Pending
<1>4. CASE code[k].op \in BranchOps /\ t \in DOMAIN label_to_word
  <2>1. label_to_word[t] \in Nat /\ symbols[t] = 4 * label_to_word[t]
    BY <1>4 DEF AsmInv, AsmTypeOK, ResolveInv, NamesAgree
  <2>2. WordsOf(symbols[t]) = label_to_word[t]
    BY <2>1, WordsOfLabel
  <2>3. Meaning(k) = label_to_word[t] - k
    BY <1>4, BranchesAreNotMovi DEF Meaning
  <2> QED
    BY <1>3, <1>4, <2>2, <2>3 DEF SettledAs
<1>5. CASE code[k].op \in BranchOps /\ t \notin DOMAIN label_to_word
  <2>1. Meaning(k) = WordsOf(symbols[t]) - k
    BY <1>5, BranchesAreNotMovi DEF Meaning
  <2> QED
    BY <1>3, <1>5, <2>1 DEF SettledAs
<1>6. CASE code[k].op = "MOVI"
  <2>1. Meaning(k) = ValueOf(t)
    BY <1>6, BranchesAreNotMovi DEF Meaning
  <2> QED
    BY <1>3, <1>6, <2>1 DEF SettledAs, ValueOf
<1> QED
  BY <1>4, <1>5, <1>6

(* Whatever the order of definitions and uses, a branch, a CALL or a MOVI  *)
(* ends up with the value its operand has at the end of the source.        *)
THEOREM ResolvedAlikeCorrect == Passes => []ResolvedAlike
BY AsmInitInv, AsmStep, ResolveInit, ResolveStep, SettledMeansAlike, PTL DEF Passes
-----------------------------------------------------------------------------
(* The fields of a word.                                                   *)
LEMMA QuotientAndRest ==
  ASSUME NEW d \in Nat, d > 0, NEW q \in Nat, NEW r \in 0 .. d - 1, NEW w, w = q * d + r
  PROVE  w \in Nat /\ w \div d = q /\ w % d = r
<1>1. w \in Nat
  <2>1. q * d \in Nat
    OBVIOUS
  <2> QED
    BY <2>1
<1>2. PICK p \in Nat : p = w \div d
  BY <1>1
<1>3. PICK s \in 0 .. d - 1 : s = w % d
  BY <1>1
<1>4. w = d * p + s
  BY <1>1, <1>2, <1>3
<1>5. ~(q >= p + 1)
  <2> SUFFICES ASSUME q >= p + 1 PROVE FALSE
    OBVIOUS
  <2>1. d * q >= d * (p + 1) /\ d * (p + 1) = d * p + d /\ q * d = d * q
    OBVIOUS
  <2> QED
    BY <1>4, <2>1
<1>6. ~(p >= q + 1)
  <2> SUFFICES ASSUME p >= q + 1 PROVE FALSE
    OBVIOUS
  <2>1. d * p >= d * (q + 1) /\ d * (q + 1) = d * q + d /\ q * d = d * q
    OBVIOUS
  <2> QED
    BY <1>4, <2>1
<1>7. p = q
  BY <1>5, <1>6
<1>8. s = r
  <2>1. d * p = q * d
    BY <1>7
  <2> QED
    BY <1>4, <2>1
<1> QED
  BY <1>1, <1>2, <1>3, <1>7, <1>8

LEMMA FieldBounds ==
  ASSUME NEW n \in Nat, NEW d \in Nat, d > 0, NEW a \in 0 .. n - 1, NEW r \in 0 .. d - 1
  PROVE  a * d + r \in 0 .. n * d - 1
<1>1. a * d \in Nat /\ n * d \in Nat
  OBVIOUS
<1>2. (a + 1) * d <= n * d /\ (a + 1) * d = a * d + d
  OBVIOUS
<1> QED
  BY <1>1, <1>2

LEMMA Units ==
  /\ Registers \in Nat /\ Registers >= 2
  /\ RmUnit \in Nat /\ RmUnit > 0 /\ RnUnit \in Nat /\ RnUnit > 0
  /\ RdUnit \in Nat /\ RdUnit > 0 /\ OpUnit \in Nat /\ OpUnit > 0
<1>1. \A x \in Nat : x > 0 => Registers * x \in Nat /\ Registers * x > 0
  BY EncodingAssumption
<1>2. RmUnit \in Nat /\ RmUnit > 0
  BY EncodingAssumption DEF RmUnit
<1>3. RnUnit \in Nat /\ RnUnit > 0
  BY <1>1, <1>2 DEF RnUnit
<1>4. RdUnit \in Nat /\ RdUnit > 0
  BY <1>1, <1>3 DEF RdUnit
<1>5. OpUnit \in Nat /\ OpUnit > 0
  BY <1>1, <1>4 DEF OpUnit
<1> QED
  BY <1>2, <1>3, <1>4, <1>5, EncodingAssumption

(* A register between what lies above it and what lies below.              *)
LEMMA Field ==
  ASSUME NEW h \in Nat, NEW a \in Register, NEW d \in Nat, d > 0, NEW r \in 0 .. d - 1,
         NEW w, w = (h * Registers + a) * d + r
  PROVE  w \in Nat /\ (w \div d) % Registers = a /\ w % d = r
<1>1. Registers \in Nat /\ Registers > 0 /\ a \in 0 .. Registers - 1
  BY Units DEF Register
<1>2. h * Registers + a \in Nat /\ (h * Registers + a) % Registers = a
  <2> DEFINE v == h * Registers + a
  <2>1. v = h * Registers + a
    OBVIOUS
  <2> HIDE DEF v
  <2>2. v \in Nat /\ v % Registers = a
    BY <1>1, <2>1, QuotientAndRest
  <2> QED
    BY <2>1, <2>2
<1> DEFINE q == h * Registers + a
<1>3. q \in Nat /\ w = q * d + r /\ q % Registers = a
  BY <1>2
<1> HIDE DEF q
<1>4. w \in Nat /\ w \div d = q /\ w % d = r
  BY <1>3, QuotientAndRest
<1> QED
  BY <1>3, <1>4

(* What lies above and below the three registers of a word.                *)
LEMMA UpperFields ==
  ASSUME NEW n \in Nat, NEW a \in Register, NEW low \in 0 .. RdUnit - 1,
         NEW w, w = n * OpUnit + a * RdUnit + low
  PROVE  w \in Nat /\ OpcodeIn(w) = n /\ RegisterIn(w, 1) = a /\ w % RdUnit = low
<1>1. a * RdUnit + low \in 0 .. OpUnit - 1
  BY Units, FieldBounds DEF Register, OpUnit
<1>2. w \in Nat /\ w \div OpUnit = n
  <2> DEFINE r == a * RdUnit + low
  <2>1. r \in 0 .. OpUnit - 1 /\ n * OpUnit \in Nat /\ w = n * OpUnit + r
    <3>1. a * RdUnit \in Nat /\ n * OpUnit \in Nat
      BY Units DEF Register
    <3> QED
      BY <1>1, <3>1
  <2> HIDE DEF r
  <2> QED
    BY <2>1, Units, QuotientAndRest
<1>3. w = (n * Registers + a) * RdUnit + low
  <2>1. n * OpUnit = (n * Registers) * RdUnit
    BY Units DEF OpUnit
  <2>2. (n * Registers + a) * RdUnit = (n * Registers) * RdUnit + a * RdUnit
    BY Units DEF Register
  <2> QED
    BY <2>1, <2>2
<1>4. (w \div RdUnit) % Registers = a /\ w % RdUnit = low
  BY <1>3, Units, Field
<1> QED
  BY <1>2, <1>4 DEF OpcodeIn, RegisterIn, FieldUnits

LEMMA SecondField ==
  ASSUME NEW n \in Nat, NEW a \in Register, NEW b \in Register, NEW low \in 0 .. RnUnit - 1,
         NEW w, w = n * OpUnit + a * RdUnit + b * RnUnit + low
  PROVE  /\ w \in Nat /\ OpcodeIn(w) = n /\ RegisterIn(w, 1) = a /\ RegisterIn(w, 2) = b
         /\ w % RnUnit = low
<1> DEFINE g == n * Registers + a
<1>0. a \in Nat /\ b \in Nat /\ b \in 0 .. Registers - 1
  BY Units DEF Register
<1>1. b * RnUnit + low \in 0 .. RdUnit - 1
  BY <1>0, Units, FieldBounds DEF RdUnit
<1>2. n * OpUnit \in Nat /\ a * RdUnit \in Nat /\ b * RnUnit \in Nat /\ g \in Nat
  BY <1>0, Units
<1>3. w = n * OpUnit + a * RdUnit + (b * RnUnit + low)
  BY <1>2
<1>4. w \in Nat /\ OpcodeIn(w) = n /\ RegisterIn(w, 1) = a
  <2> DEFINE r == b * RnUnit + low
  <2>1. r \in 0 .. RdUnit - 1 /\ w = n * OpUnit + a * RdUnit + r
    BY <1>1, <1>3
  <2> HIDE DEF r
  <2> QED
    BY <2>1, UpperFields
<1>5. w = (g * Registers + b) * RnUnit + low
  <2>1. n * OpUnit = ((n * Registers) * Registers) * RnUnit
    BY Units DEF OpUnit, RdUnit
  <2>2. a * RdUnit = (a * Registers) * RnUnit
    BY <1>0, Units DEF RdUnit
  <2>3. g * Registers = (n * Registers) * Registers + a * Registers
    BY <1>0, Units
  <2>4. (g * Registers + b) * RnUnit = ((n * Registers) * Registers) * RnUnit + (a * Registers) * RnUnit + b * RnUnit
    BY <2>3, <1>0, Units
  <2> QED
    BY <2>1, <2>2, <2>4
<1>6. g \in Nat /\ RnUnit \in Nat /\ RnUnit > 0
  BY <1>2, Units
<1> HIDE DEF g
<1>7. (w \div RnUnit) % Registers = b /\ w % RnUnit = low
  BY <1>5, <1>6, Field
<1> QED
  BY <1>4, <1>7 DEF RegisterIn, FieldUnits

LEMMA ThirdField ==
  ASSUME NEW n \in Nat, NEW a \in Register, NEW b \in Register, NEW c \in Register,
         NEW w, w = n * OpUnit + a * RdUnit + b * RnUnit + c * RmUnit
  PROVE  /\ w \in Nat /\ OpcodeIn(w) = n
         /\ RegisterIn(w, 1) = a /\ RegisterIn(w, 2) = b /\ RegisterIn(w, 3) = c
<1> DEFINE g == (n * Registers + a) * Registers + b
<1>0. a \in Nat /\ b \in Nat /\ c \in Nat /\ c \in 0 .. Registers - 1
  BY Units DEF Register
<1>1. c * RmUnit \in 0 .. RnUnit - 1
  <2>1. c * RmUnit + 0 \in 0 .. RnUnit - 1
    BY <1>0, Units, FieldBounds DEF RnUnit
  <2> QED
    BY <1>0, <2>1, Units
<1>2. w \in Nat /\ OpcodeIn(w) = n /\ RegisterIn(w, 1) = a /\ RegisterIn(w, 2) = b
  <2> DEFINE r == c * RmUnit
  <2>1. r \in 0 .. RnUnit - 1 /\ w = n * OpUnit + a * RdUnit + b * RnUnit + r
    BY <1>1
  <2> HIDE DEF r
  <2> QED
    BY <2>1, SecondField
<1>3. w = (g * Registers + c) * RmUnit + 0
  <2>1. n * OpUnit = (((n * Registers) * Registers) * Registers) * RmUnit
    BY Units DEF OpUnit, RdUnit, RnUnit
  <2>2. a * RdUnit = ((a * Registers) * Registers) * RmUnit /\ b * RnUnit = (b * Registers) * RmUnit
    BY <1>0, Units DEF RdUnit, RnUnit
  <2>3. g * Registers = ((n * Registers) * Registers) * Registers + (a * Registers) * Registers + b * Registers
    BY <1>0, Units
  <2>4. (g * Registers + c) * RmUnit
          = (((n * Registers) * Registers) * Registers) * RmUnit
            + ((a * Registers) * Registers) * RmUnit + (b * Registers) * RmUnit + c * RmUnit
    BY <2>3, <1>0, Units
  <2> QED
    BY <1>2, <2>1, <2>2, <2>4
<1>4. g \in Nat /\ RmUnit \in Nat /\ RmUnit > 0
  BY <1>0, Units
<1> HIDE DEF g
<1>5. (w \div RmUnit) % Registers = c
  BY <1>3, <1>4, Field
<1> QED
  BY <1>2, <1>5 DEF RegisterIn, FieldUnits

(* Beside two registers, an immediate under the place of the third.        *)
LEMMA LowestField ==
  ASSUME NEW n \in Nat, NEW a \in Register, NEW b \in Register, NEW low \in 0 .. RmUnit - 1,
         NEW w, w = n * OpUnit + a * RdUnit + b * RnUnit + low
  PROVE  /\ w \in Nat /\ OpcodeIn(w) = n /\ RegisterIn(w, 1) = a /\ RegisterIn(w, 2) = b
         /\ w % RmUnit = low
<1> DEFINE g == ((n * Registers + a) * Registers + b) * Registers
<1>0. a \in Nat /\ b \in Nat
  BY Units DEF Register
<1>1. low \in 0 .. RnUnit - 1
  <2>1. 0 * RmUnit + low \in 0 .. RnUnit - 1
    BY Units, FieldBounds DEF RnUnit
  <2> QED
    BY <2>1, Units
<1>2. w \in Nat /\ OpcodeIn(w) = n /\ RegisterIn(w, 1) = a /\ RegisterIn(w, 2) = b
  BY <1>1, SecondField
<1>3. w = g * RmUnit + low
  <2>1. n * OpUnit = (((n * Registers) * Registers) * Registers) * RmUnit
    BY Units DEF OpUnit, RdUnit, RnUnit
  <2>2. a * RdUnit = ((a * Registers) * Registers) * RmUnit /\ b * RnUnit = (b * Registers) * RmUnit
    BY <1>0, Units DEF RdUnit, RnUnit
  <2>3. g = ((n * Registers) * Registers) * Registers + (a * Registers) * Registers + b * Registers
    BY <1>0, Units
  <2>4. g * RmUnit
          = (((n * Registers) * Registers) * Registers) * RmUnit
            + ((a * Registers) * Registers) * RmUnit + (b * Registers) * RmUnit
    BY <2>3, <1>0, Units
  <2> QED
    BY <2>1, <2>2, <2>4
<1>4. g \in Nat /\ RmUnit \in Nat /\ RmUnit > 0
  BY <1>0, Units
<1> HIDE DEF g
<1>5. w % RmUnit = low
  BY <1>3, <1>4, QuotientAndRest
<1> QED
  BY <1>2, <1>5

(* An immediate that fits comes back with its sign.                        *)
LEMMA SignReturns ==
  ASSUME NEW half \in Nat, half > 0, NEW imm \in Int, Fits(imm, half)
  PROVE  imm % (2 * half) \in 0 .. 2 * half - 1 /\ SignExtended(imm % (2 * half), half) = imm
<1> DEFINE v == imm % (2 * half)
<1>1. CASE imm >= 0
  <2>1. v = imm
    BY <1>1, QuotientAndRest DEF Fits
  <2> QED
    BY <1>1, <2>1 DEF Fits, SignExtended
<1>2. CASE imm < 0
  <2> DEFINE d == 2 * half
  <2>1. PICK q \in Int : q = imm \div d
    OBVIOUS
  <2>2. v \in 0 .. 2 * half - 1 /\ imm = (2 * half) * q + v
    <3>1. d \in Nat /\ d > 0 /\ v = imm % d
      OBVIOUS
    <3> HIDE DEF d, v
    <3>2. v \in 0 .. d - 1 /\ imm = d * q + v
      BY <2>1, <3>1
    <3> QED
      BY <3>2 DEF d
  <2>3. q = -1
    <3>1. ~(q >= 0)
      <4> SUFFICES ASSUME q >= 0 PROVE FALSE
        OBVIOUS
      <4>1. (2 * half) * q >= 0
        OBVIOUS
      <4> QED
        BY <1>2, <2>2, <4>1
    <3>2. ~(q <= -2)
      <4> SUFFICES ASSUME q <= -2 PROVE FALSE
        OBVIOUS
      <4>1. (2 * half) * q <= -4 * half
        OBVIOUS
      <4> QED
        BY <2>2, <4>1 DEF Fits
    <3> QED
      BY <3>1, <3>2
  <2>4. v = imm + 2 * half
    BY <2>2, <2>3
  <2> QED
    BY <1>2, <2>4 DEF Fits, SignExtended
<1> QED
  BY <1>1, <1>2

LEMMA Opcodes ==
  \A op \in CodeOps : OpcodeNumber[op] \in 0 .. 63
                     /\ \A o \in CodeOps : OpcodeNumber[o] = OpcodeNumber[op] => o = op
BY DEF CodeOps, PlainOps, BareOps, SingleOps, PairOps, TripleOps, ImmediateOps, LoadOps, BranchOps, OpcodeNumber

(* The operands a line has when its statement is accepted.                 *)
OperandsFit(op, named, imm) ==
  /\ named \in Seq(Register) /\ RegistersUsed(op) \subseteq 1 .. Len(named)
  /\ imm \in Int /\ (op \notin PlainOps => Fits(imm, IF op \in LoadOps THEN Near ELSE Far))

LEMMA GivenTyped ==
  ASSUME NEW named \in Seq(Register), NEW k \in Nat \ {0}
  PROVE  /\ Given(named, k) \in Register
         /\ k \in 1 .. Len(named) => k \in DOMAIN named /\ named[k] = Given(named, k)
<1>1. 0 \in Register
  BY Units DEF Register
<1>2. k <= Len(named) => k \in 1 .. Len(named) /\ named[k] \in Register
  BY ElementOfSeq
<1> QED
  BY <1>1, <1>2 DEF Given

(* The word of an operation means that operation and its operands.         *)
LEMMA EncodedExecutes ==
  ASSUME NEW op \in CodeOps, NEW named, NEW imm, OperandsFit(op, named, imm)
  PROVE  Encode(op, named, imm) \in Nat /\ ExecutesAs(op, named, imm, Encode(op, named, imm))
<1> DEFINE w == Encode(op, named, imm)
           n == OpcodeNumber[op]
           a == Given(named, 1)
           b == Given(named, 2)
           c == Given(named, 3)
<1>1. n \in Nat /\ a \in Register /\ b \in Register /\ c \in Register
  <2>1. n \in 0 .. 63
    BY Opcodes
  <2> HIDE DEF n
  <2> QED
    BY <2>1, GivenTyped DEF OperandsFit
<1>2. \A k \in RegistersUsed(op) :
        k \in DOMAIN named /\ named[k] = Given(named, k) /\ k \in {1, 2, 3}
  <2>1. RegistersUsed(op) \subseteq {1, 2, 3}
    BY DEF RegistersUsed, CodeOps, PlainOps, BareOps, SingleOps, PairOps, TripleOps, ImmediateOps, LoadOps, BranchOps
  <2> QED
    BY <2>1, GivenTyped DEF OperandsFit
<1>3. OpcodeIn(w) = n => {o \in CodeOps : OpcodeNumber[o] = OpcodeIn(w)} = {op}
  BY Opcodes
<1>4. CASE op \in PlainOps
  <2>1. w = n * OpUnit + a * RdUnit + b * RnUnit + c * RmUnit
    <3>1. op \notin LoadOps \cup {"ADDI", "SUBI", "MOVI"} \cup BranchOps
      BY <1>4 DEF LoadOps, PlainOps, BareOps, SingleOps, PairOps, TripleOps, BranchOps
    <3>2. w = EncodeR(op, a, b, c)
      BY <1>4, <3>1, Zenon DEF Encode
    <3> QED
      BY <3>2 DEF EncodeR
  <2> HIDE DEF w, n, a, b, c
  <2>2. w \in Nat /\ OpcodeIn(w) = n /\ RegisterIn(w, 1) = a /\ RegisterIn(w, 2) = b /\ RegisterIn(w, 3) = c
    BY <1>1, <2>1, ThirdField
  <2> QED
    BY <1>2, <1>3, <1>4, <2>2 DEF ExecutesAs, w, a, b, c
<1>5. CASE op \in LoadOps
  <2>1. op \notin PlainOps /\ RegistersUsed(op) = {1, 2}
    BY <1>5 DEF LoadOps, PlainOps, BareOps, SingleOps, PairOps, TripleOps, RegistersUsed, BranchOps
  <2>2. w = n * OpUnit + a * RdUnit + b * RnUnit + (imm % RmUnit)
    <3>1. op \notin {"ADDI", "SUBI", "MOVI"} \cup BranchOps
      BY <1>5 DEF LoadOps, BranchOps
    <3>2. w = EncodeMem(op, a, b, imm)
      BY <1>5, <2>1, <3>1, Zenon DEF Encode
    <3> QED
      BY <3>2 DEF EncodeMem
  <2>3. imm % RmUnit \in 0 .. RmUnit - 1 /\ SignExtended(imm % RmUnit, Near) = imm
    BY <1>5, <2>1, SignReturns, EncodingAssumption DEF RmUnit, OperandsFit
  <2> HIDE DEF w, n, a, b, c
  <2>4. w \in Nat /\ OpcodeIn(w) = n /\ RegisterIn(w, 1) = a /\ RegisterIn(w, 2) = b /\ w % RmUnit = imm % RmUnit
    BY <1>1, <2>2, <2>3, LowestField
  <2>5. ImmediateIn(op, w) = imm
    BY <1>5, <2>3, <2>4 DEF ImmediateIn
  <2> QED
    BY <1>2, <1>3, <2>1, <2>4, <2>5 DEF ExecutesAs, w, a, b
<1>6. CASE op \in {"ADDI", "SUBI", "MOVI"} \cup BranchOps
  <2>1. op \notin PlainOps /\ op \notin LoadOps /\ RegistersUsed(op) \subseteq {1}
    BY <1>6 DEF LoadOps, PlainOps, BareOps, SingleOps, PairOps, TripleOps, RegistersUsed, BranchOps
  <2>2. w = n * OpUnit + a * RdUnit + (imm % RdUnit)
    <3>1. w = EncodeI(op, a, imm)
      BY <1>6, <2>1, Zenon DEF Encode
    <3> QED
      BY <3>1 DEF EncodeI
  <2>3. imm % RdUnit \in 0 .. RdUnit - 1 /\ SignExtended(imm % RdUnit, Far) = imm
    <3>1. Far \in Nat /\ Far > 0 /\ RdUnit = 2 * Far /\ Fits(imm, Far) /\ imm \in Int
      BY <2>1, Units, EncodingAssumption DEF OperandsFit
    <3> QED
      BY <3>1, SignReturns
  <2> HIDE DEF w, n, a, b, c
  <2>4. w \in Nat /\ OpcodeIn(w) = n /\ RegisterIn(w, 1) = a /\ w % RdUnit = imm % RdUnit
    BY <1>1, <2>2, <2>3, UpperFields
  <2>5. ImmediateIn(op, w) = imm
    BY <2>1, <2>3, <2>4 DEF ImmediateIn
  <2> QED
    BY <1>2, <1>3, <2>1, <2>4, <2>5 DEF ExecutesAs, w, a
<1> QED
  BY <1>4, <1>5, <1>6 DEF CodeOps, ImmediateOps

(* The bits that a MOVI keeps when it is filled in are those of rd.        *)
LEMMA KeptOfRd ==
  ASSUME NEW h \in Nat
  PROVE  KeptBits(h * RdUnit) = (h % 2) * RdUnit
<1>1. PICK half \in Nat : half > 0 /\ Registers = 2 * half
  BY EncodingAssumption
<1> DEFINE u == 2 * RnUnit
<1>2. u \in Nat /\ u > 0
  BY Units
<1>3. RdUnit = half * u
  BY <1>1, Units DEF RdUnit
<1>4. PICK m \in Nat, e \in {0, 1} : h = 2 * m + e /\ h % 2 = e
  <2>1. h % 2 \in {0, 1} /\ h \div 2 \in Nat /\ h = 2 * (h \div 2) + (h % 2)
    OBVIOUS
  <2> QED
    BY <2>1
<1> HIDE DEF u
<1>5. h * RdUnit = (h * half) * u + 0 /\ h * half \in Nat
  BY <1>1, <1>2, <1>3
<1>6. (h * RdUnit) \div u = h * half
  BY <1>2, <1>5, QuotientAndRest
<1>7. h * half = m * Registers + e * half /\ e * half \in 0 .. Registers - 1
  BY <1>1, <1>4
<1>8. (h * half) % Registers = e * half
  <2> DEFINE r == e * half
             v == h * half
  <2>1. v = m * Registers + r /\ r \in 0 .. Registers - 1
    BY <1>7
  <2> HIDE DEF r, v
  <2>2. v % Registers = r
    BY <2>1, Units, QuotientAndRest
  <2> QED
    BY <2>2 DEF r, v
<1>9. KeptBits(h * RdUnit) = (e * half) * u
  BY <1>6, <1>8 DEF KeptBits, u
<1>10. (e * half) * u = e * RdUnit
  BY <1>1, <1>2, <1>3, <1>4
<1> QED
  BY <1>4, <1>9, <1>10

LEMMA RefilledFresh ==
  ASSUME NEW op \in BranchOps \cup {"MOVI"}, NEW named, NEW imm, OperandsFit(op, named, imm)
  PROVE  Refilled(op, named, imm, Encode(op, named, 0)) = Encode(op, named, imm)
<1>1. CASE op # "MOVI"
  BY <1>1 DEF Refilled
<1>2. CASE op = "MOVI"
  <2> DEFINE n == OpcodeNumber[op]
             a == Given(named, 1)
             h == n * Registers + a
  <2>1. op \in CodeOps /\ op \notin PlainOps /\ op \notin LoadOps
    BY <1>2 DEF CodeOps, PlainOps, BareOps, SingleOps, PairOps, TripleOps, LoadOps
  <2>2. n \in 0 .. 63
    BY <2>1, Opcodes
  <2>3. a \in 0 .. Registers - 1
    BY GivenTyped DEF OperandsFit, Register
  <2>4. \A i \in Int : Encode(op, named, i) = n * OpUnit + a * RdUnit + (i % RdUnit)
    <3>1. \A i \in Int : Encode(op, named, i) = EncodeI(op, a, i)
      BY <1>2, <2>1, Zenon DEF Encode
    <3> QED
      BY <3>1 DEF EncodeI
  <2> HIDE DEF n, a
  <2>5. h \in 0 .. 64 * Registers - 1
    <3>1. h \in 0 .. 64 * Registers - 1
      BY <2>2, <2>3, Units, FieldBounds
    <3> QED
      BY <3>1
  <2>6. n * OpUnit + a * RdUnit = h * RdUnit
    <3>1. n * OpUnit = (n * Registers) * RdUnit
      BY <2>2, Units DEF OpUnit
    <3>2. h * RdUnit = (n * Registers) * RdUnit + a * RdUnit
      BY <2>2, <2>3, Units
    <3> QED
      BY <3>1, <3>2
  <2> HIDE DEF h
  <2>7. \A i \in Int : Encode(op, named, i) = h * RdUnit + (i % RdUnit) /\ i % RdUnit \in 0 .. RdUnit - 1
    BY <2>4, <2>6, Units
  <2>8. Encode(op, named, 0) = h * RdUnit
    <3>1. 0 % RdUnit = 0
      BY Units, QuotientAndRest
    <3>2. h * RdUnit \in Nat
      BY <2>5, Units
    <3> QED
      BY <2>7, <3>1, <3>2
  <2>9. KeptBits(Encode(op, named, 0)) = (h % 2) * RdUnit
    BY <2>5, <2>8, Units, KeptOfRd
  <2>10. imm \in Int
    BY DEF OperandsFit
  <2> DEFINE low == imm % RdUnit
  <2>11. low \in 0 .. RdUnit - 1 /\ Encode(op, named, imm) = h * RdUnit + low
    BY <2>7, <2>10
  <2> HIDE DEF low
  <2>12. OrWords(h * RdUnit + low, (h % 2) * RdUnit) = h * RdUnit + low
    BY <2>5, <2>11, OrAssumption
  <2> QED
    BY <1>2, <2>9, <2>11, <2>12 DEF Refilled
<1> QED
  BY <1>1, <1>2

-----------------------------------------------------------------------------
(* The words.  Every word is the encoding of its instruction: of the words *)
(* that wait for a fixup it is known that their immediate is still zero,   *)
(* and no two fixups are for the same word.                                *)
FixupsFresh ==
  /\ \A k \in 1 .. Len(fixups) :
       code[fixups[k].index].op \in BranchOps \cup {"MOVI"} /\ code[fixups[k].index].imm = 0
  /\ \A k, l \in 1 .. Len(fixups) : k # l => fixups[k].index # fixups[l].index

WordInv ==
  /\ words \in Seq(Nat) /\ Len(words) = Len(code)
  /\ operands \in Seq(Seq(Register)) /\ Len(operands) = Len(code)
  /\ \A i \in 1 .. Len(code) :
       /\ OperandsFit(code[i].op, operands[i], code[i].imm)
       /\ words[i] = Encode(code[i].op, operands[i], code[i].imm)

LEMMA RegistersSuffice ==
  \A op \in CodeOps : /\ RegistersOf(op) \in Nat
                      /\ RegistersUsed(op) \subseteq 1 .. RegistersOf(op)
                      /\ op \in {"NOP", "HALT"} => RegistersUsed(op) = {}
BY DEF RegistersUsed, RegistersOf, CodeOps, PlainOps, BareOps, SingleOps, PairOps, TripleOps,
       ImmediateOps, LoadOps, BranchOps

LEMMA NamedSuffice ==
  ASSUME AsmInv, ~AtEnd, Accepted(Statement), Statement.op \in CodeOps
  PROVE  Named \in Seq(Register) /\ RegistersUsed(Statement.op) \subseteq 1 .. Len(Named)
<1>1. Statement.regs \in Seq(Register)
  BY StatementTyped DEF Statements
<1>2. Statement.op # ".org"
  BY DEF CodeOps, PlainOps, BareOps, SingleOps, PairOps, TripleOps, ImmediateOps, LoadOps, BranchOps
<1>3. CASE Statement.op \in {"NOP", "HALT"}
  BY <1>3, RegistersSuffice DEF Named
<1>4. CASE Statement.op \notin {"NOP", "HALT"}
  <2>1. Named = Statement.regs
    BY <1>2, <1>4 DEF Named
  <2>2. Len(Statement.regs) = RegistersOf(Statement.op)
    BY <1>4 DEF Accepted
  <2> QED
    BY <1>1, <2>1, <2>2, RegistersSuffice
<1> QED
  BY <1>3, <1>4

LEMMA ZeroFits == Fits(0, Near) /\ Fits(0, Far)
<1>1. Far \in Nat /\ Far > 0
  BY Units, EncodingAssumption
<1> QED
  BY <1>1, EncodingAssumption DEF Fits

(* What a step emits has the registers of its line and an immediate that   *)
(* fits.                                                                   *)
LEMMA EmittedFits ==
  ASSUME AsmInv, [AsmNext]_asmVars, ~ApplyFixup
  PROVE  \A k \in Len(code) + 1 .. Len(code') :
           code'[k].op \in CodeOps /\ OperandsFit(code'[k].op, Named, code'[k].imm)
<1>1. code \in Seq(Emission) /\ Len(code) \in Nat
  BY DEF AsmInv
<1>2. CASE UNCHANGED code
  BY <1>1, <1>2
<1>3. ASSUME NEW op \in CodeOps, NEW imm \in Int, NEW arg, Reads(op), Emit(op, imm, arg),
             op \notin PlainOps => Fits(imm, IF op \in LoadOps THEN Near ELSE Far)
      PROVE  \A k \in Len(code) + 1 .. Len(code') :
               code'[k].op \in CodeOps /\ OperandsFit(code'[k].op, Named, code'[k].imm)
  <2> DEFINE e == Emitted(op, imm, arg)
  <2>1. e.op = op /\ e.imm = imm /\ code' = Append(code, e)
    BY <1>3 DEF Emitted, Emit
  <2> HIDE DEF e
  <2>2. Len(code') = Len(code) + 1 /\ code'[Len(code) + 1] = e
    BY <1>1, <2>1
  <2>3. ~AtEnd /\ Accepted(Statement) /\ Statement.op = op
    BY <1>3 DEF Reads, Assembling
  <2>4. OperandsFit(op, Named, imm)
    BY <1>3, <2>3, NamedSuffice DEF OperandsFit
  <2>5. \A k \in Len(code) + 1 .. Len(code') : code'[k] = e
    BY <1>1, <2>2
  <2> QED
    BY <1>3, <2>1, <2>4, <2>5
<1>4. SymbolsTyped
  BY DEF AsmInv, AsmTypeOK, SymbolsTyped
<1>5. CASE Movi
  <2> DEFINE t == Statement.arg
  <2>1. "MOVI" \in CodeOps /\ "MOVI" \notin LoadOps /\ Reads("MOVI")
    BY <1>5 DEF Movi, CodeOps, LoadOps
  <2>2. CASE Known(t) /\ Fits(ValueOf(t), Far)
    <3>1. ValueOf(t) \in Int /\ Emit("MOVI", ValueOf(t), t)
      BY <1>4, <1>5, <2>2, ValueTyped DEF Movi
    <3> QED
      BY <1>3, <2>1, <2>2, <3>1
  <2>3. CASE ~(Known(t) /\ Fits(ValueOf(t), Far))
    <3>1. Emit("MOVI", 0, t)
      BY <1>5, <2>3 DEF Movi, EmitLater
    <3> QED
      BY <1>3, <2>1, <3>1, ZeroFits
  <2> QED
    BY <2>2, <2>3
<1>6. ASSUME NEW op \in PlainOps, Plain(op)
      PROVE  \A k \in Len(code) + 1 .. Len(code') :
               code'[k].op \in CodeOps /\ OperandsFit(code'[k].op, Named, code'[k].imm)
  <2>1. op \in CodeOps /\ Reads(op) /\ Emit(op, 0, "")
    BY <1>6 DEF Plain, CodeOps
  <2>2. PICK arg : arg = ""
    OBVIOUS
  <2>3. PICK imm \in Int : imm = 0
    OBVIOUS
  <2>4. op \in CodeOps /\ Reads(op) /\ Emit(op, imm, arg)
    BY <2>1, <2>2, <2>3
  <2> QED
    BY <1>3, <1>6, <2>4
<1>7. ASSUME NEW op \in ImmediateOps, Immediate(op)
      PROVE  \A k \in Len(code) + 1 .. Len(code') :
               code'[k].op \in CodeOps /\ OperandsFit(code'[k].op, Named, code'[k].imm)
  <2>1. op \in CodeOps /\ Reads(op) /\ Emit(op, ValueOf(Statement.arg), "")
    BY <1>7 DEF Immediate, CodeOps
  <2>2. Accepted(Statement) /\ Statement.op = op
    BY <2>1 DEF Reads, Assembling
  <2>3. /\ ValueOf(Statement.arg) \in Int
        /\ Fits(ValueOf(Statement.arg), IF op \in LoadOps THEN Near ELSE Far)
    BY <1>4, <1>7, <2>2, ValueTyped DEF Accepted
  <2> QED
    BY <1>3, <2>1, <2>3
<1>8. ASSUME NEW op \in BranchOps, BranchOrCall(op)
      PROVE  \A k \in Len(code) + 1 .. Len(code') :
               code'[k].op \in CodeOps /\ OperandsFit(code'[k].op, Named, code'[k].imm)
  <2> DEFINE t == Statement.arg
  <2>1. op \in CodeOps /\ op \notin LoadOps /\ Reads(op)
    BY <1>8 DEF BranchOrCall, CodeOps, LoadOps, BranchOps
  <2>2. CASE t \in DOMAIN label_to_word
    <3>1. Accepted(Statement) /\ Statement.op = op
      BY <2>1 DEF Reads, Assembling
    <3>2. Fits(label_to_word[t] - (Len(code) + 1), Far)
      BY <1>8, <2>2, <3>1 DEF Accepted
    <3>4. label_to_word[t] - (Len(code) + 1) \in Int
      BY <1>1, <2>2 DEF AsmInv, AsmTypeOK
    <3>3. Emit(op, label_to_word[t] - (Len(code) + 1), t)
      BY <1>8, <2>2 DEF BranchOrCall
    <3> QED
      BY <1>3, <2>1, <3>2, <3>3, <3>4
  <2>3. CASE t \notin DOMAIN label_to_word
    <3>1. Emit(op, 0, t)
      BY <1>8, <2>3 DEF BranchOrCall, EmitLater
    <3> QED
      BY <1>3, <2>1, <3>1, ZeroFits
  <2> QED
    BY <2>2, <2>3
<1>9. CASE OrgCode
  <2> DEFINE n == (ValueOf(Statement.arg) \div 4) - Len(code)
  <2>1. ~AtEnd /\ Accepted(Statement) /\ Statement.op = ".org" /\ section = "code"
    BY <1>9 DEF OrgCode, Reads, Assembling
  <2>2. ValueOf(Statement.arg) \in Int
    BY <1>4, <2>1, ValueTyped DEF Accepted
  <2>3. n \in Nat /\ code' = code \o NopFill(n)
    BY <1>1, <1>9, <2>1, <2>2 DEF Accepted, OrgFits, OrgCode
  <2> HIDE DEF n
  <2>4. NopFill(n) \in Seq(Emission) /\ Len(NopFill(n)) = n /\ \A k \in 1 .. n : NopFill(n)[k] = Emitted("NOP", 0, "")
    BY <2>3, NopFillTyped DEF NopFill
  <2>5. \A k \in Len(code) + 1 .. Len(code') : code'[k] = Emitted("NOP", 0, "")
    <3>1. /\ Len(code') = Len(code) + n
          /\ \A k \in 1 .. Len(code) + n :
               code'[k] = IF k <= Len(code) THEN code[k] ELSE NopFill(n)[k - Len(code)]
      BY <1>1, <2>3, <2>4, ConcatProperties
    <3>2. ASSUME NEW k \in Len(code) + 1 .. Len(code') PROVE code'[k] = NopFill(n)[k - Len(code)] /\ k - Len(code) \in 1 .. n
      BY <1>1, <2>3, <3>1
    <3> QED
      BY <2>4, <3>2
  <2>6. Emitted("NOP", 0, "").op = "NOP" /\ Emitted("NOP", 0, "").imm = 0
    BY DEF Emitted
  <2>7. "NOP" \in CodeOps /\ "NOP" \in PlainOps
    BY DEF CodeOps, PlainOps, BareOps
  <2>8. OperandsFit("NOP", Named, 0)
    BY <2>1, <2>7, RegistersSuffice DEF Named, OperandsFit
  <2> QED
    BY <2>5, <2>6, <2>7, <2>8
<1>10. CASE \/ CodeLabel \/ DataLabel \/ SectionDirective \/ OrgData \/ Data \/ WordDirective
            \/ ByteDirective \/ Equ \/ Include \/ EndOfInclude \/ EndOfSource \/ Reject
            \/ RejectFixup \/ Finish \/ UNCHANGED asmVars
  <2>1. UNCHANGED code
    BY <1>10 DEF CodeLabel, DataLabel, SectionDirective, OrgData, Data, WordDirective, ByteDirective,
       EmitBytes, Equ, Include, EndOfInclude, EndOfSource, Reject, RejectFixup, Finish, asmVars
  <2> QED
    BY <1>2, <2>1
<1> QED
  BY <1>5, <1>6, <1>7, <1>8, <1>9, <1>10 DEF AsmNext

(* A word that waits for a fixup is not touched before.                    *)
LEMMA FreshAppend ==
  ASSUME AsmInv, FixupsFresh, NEW e, code' = Append(code, e), NEW label,
         e.op \in BranchOps \cup {"MOVI"}, e.imm = 0,
         fixups' = Append(fixups, [index |-> Len(code) + 1, label |-> label])
  PROVE  FixupsFresh'
<1>1. code \in Seq(Emission) /\ fixups \in Seq([index : Nat, label : Token]) /\ Len(code) \in Nat /\ Len(fixups) \in Nat
  BY DEF AsmInv
<1>2. code'[Len(code) + 1] = e /\ \A k \in 1 .. Len(code) : code'[k] = code[k]
  BY <1>1
<1>3. \A n \in 1 .. Len(fixups) : fixups[n].index \in 1 .. Len(code)
  BY <1>1 DEF AsmInv, AsmTypeOK
<1> DEFINE f == [index |-> Len(code) + 1, label |-> label]
<1>4. f.index = Len(code) + 1 /\ fixups' = Append(fixups, f)
  OBVIOUS
<1> HIDE DEF f
<1>5. /\ Len(fixups') = Len(fixups) + 1 /\ fixups'[Len(fixups) + 1] = f
      /\ \A n \in 1 .. Len(fixups) : fixups'[n] = fixups[n]
  BY <1>1, <1>4
<1>6. \A n \in 1 .. Len(fixups') : n \in 1 .. Len(fixups) \/ n = Len(fixups) + 1
  BY <1>1, <1>5
<1>7. ASSUME NEW k \in 1 .. Len(fixups')
      PROVE  code'[fixups'[k].index].op \in BranchOps \cup {"MOVI"} /\ code'[fixups'[k].index].imm = 0
  <2>1. CASE k \in 1 .. Len(fixups)
    BY <1>2, <1>3, <1>5, <2>1 DEF FixupsFresh
  <2>2. CASE k = Len(fixups) + 1
    BY <1>2, <1>4, <1>5, <2>2
  <2> QED
    BY <1>6, <2>1, <2>2
<1>8. ASSUME NEW k \in 1 .. Len(fixups'), NEW l \in 1 .. Len(fixups'), k # l
      PROVE  fixups'[k].index # fixups'[l].index
  <2>1. CASE k \in 1 .. Len(fixups) /\ l \in 1 .. Len(fixups)
    BY <1>5, <1>8, <2>1 DEF FixupsFresh
  <2>2. CASE k = Len(fixups) + 1 /\ l \in 1 .. Len(fixups)
    BY <1>1, <1>3, <1>4, <1>5, <2>2
  <2>3. CASE k \in 1 .. Len(fixups) /\ l = Len(fixups) + 1
    BY <1>1, <1>3, <1>4, <1>5, <2>3
  <2> QED
    BY <1>6, <1>8, <2>1, <2>2, <2>3
<1> QED
  BY <1>7, <1>8 DEF FixupsFresh

LEMMA FreshStep == AsmInv /\ FixupsFresh /\ [AsmNext]_asmVars => FixupsFresh'
<1> SUFFICES ASSUME AsmInv, FixupsFresh, [AsmNext]_asmVars
             PROVE  FixupsFresh'
  OBVIOUS
<1>1. code \in Seq(Emission) /\ fixups \in Seq([index : Nat, label : Token]) /\ Len(fixups) \in Nat
  BY DEF AsmInv
<1>2. \A n \in 1 .. Len(fixups) : fixups[n].index \in 1 .. Len(code)
  BY <1>1 DEF AsmInv, AsmTypeOK
<1>3. CASE UNCHANGED fixups /\ ~ApplyFixup
  BY <1>2, <1>3, CodeGrows DEF FixupsFresh
<1>4. CASE ApplyFixup
  <2>1. Len(fixups') = Len(fixups) - 1 /\ \A k \in 1 .. Len(fixups') : fixups'[k] = fixups[k + 1]
    <3>1. fixups' = Tail(fixups) /\ fixups # <<>>
      BY <1>4, FixupTyped
    <3> QED
      BY <1>1, <3>1, HeadTailProperties
  <2>2. \A k \in 1 .. Len(fixups') : k + 1 \in 1 .. Len(fixups) /\ k + 1 # 1 /\ 1 \in 1 .. Len(fixups)
    BY <1>1, <2>1
  <2>3. \A k \in 1 .. Len(fixups') : fixups'[k].index # Fixup.index /\ fixups'[k].index \in 1 .. Len(code)
    BY <1>2, <2>1, <2>2 DEF FixupsFresh, Fixup
  <2>4. \A k \in 1 .. Len(fixups') : code'[fixups'[k].index] = code[fixups[k + 1].index]
    BY <1>4, <2>1, <2>3, FixupTyped
  <2>5. ASSUME NEW k \in 1 .. Len(fixups')
        PROVE  code'[fixups'[k].index].op \in BranchOps \cup {"MOVI"} /\ code'[fixups'[k].index].imm = 0
    BY <2>2, <2>4 DEF FixupsFresh
  <2>6. ASSUME NEW k \in 1 .. Len(fixups'), NEW l \in 1 .. Len(fixups'), k # l
        PROVE  fixups'[k].index # fixups'[l].index
    <3>1. k + 1 # l + 1 /\ k + 1 \in 1 .. Len(fixups) /\ l + 1 \in 1 .. Len(fixups)
      BY <2>2, <2>6
    <3> QED
      BY <2>1, <3>1 DEF FixupsFresh
  <2> QED
    BY <2>5, <2>6 DEF FixupsFresh
<1>5. ASSUME NEW op \in BranchOps \cup {"MOVI"}, NEW label, EmitLater(op, label)
      PROVE  FixupsFresh'
  <2> DEFINE e == Emitted(op, 0, label)
  <2>1. e.op = op /\ e.imm = 0
    BY DEF Emitted
  <2>2. code' = Append(code, e) /\ fixups' = Append(fixups, [index |-> Len(code) + 1, label |-> label])
    BY <1>5 DEF EmitLater, Emit
  <2> HIDE DEF e
  <2> QED
    BY <2>1, <2>2, FreshAppend
<1>6. CASE Movi
  <2>1. ~ApplyFixup /\ (UNCHANGED fixups \/ EmitLater("MOVI", Statement.arg))
    BY <1>6 DEF Movi, Reads, Assembling, ApplyFixup
  <2> QED
    BY <1>3, <1>5, <2>1
<1>7. CASE \E op \in BranchOps : BranchOrCall(op)
  <2>1. PICK op \in BranchOps : BranchOrCall(op)
    BY <1>7
  <2>2. ~ApplyFixup /\ (UNCHANGED fixups \/ EmitLater(op, Statement.arg))
    BY <2>1 DEF BranchOrCall, Reads, Assembling, ApplyFixup
  <2> QED
    BY <1>3, <1>5, <2>2
<1>8. CASE \/ CodeLabel \/ DataLabel \/ SectionDirective \/ OrgCode \/ OrgData \/ Data \/ WordDirective
           \/ ByteDirective \/ Equ \/ Include \/ EndOfInclude \/ EndOfSource \/ Reject
           \/ RejectFixup \/ Finish \/ UNCHANGED asmVars
           \/ (\E op \in PlainOps : Plain(op)) \/ (\E op \in ImmediateOps : Immediate(op))
  <2>1. UNCHANGED fixups
    BY <1>8 DEF CodeLabel, DataLabel, SectionDirective, OrgCode, OrgData, Data, WordDirective, ByteDirective,
       EmitBytes, Equ, Include, EndOfInclude, EndOfSource, Reject, RejectFixup, Finish, asmVars, Plain, Immediate
  <2> QED
    BY <1>3, <1>4, <2>1
<1> QED
  BY <1>4, <1>6, <1>7, <1>8 DEF AsmNext

(* The two ways in which words change.                                     *)
LEMMA WordsPatched ==
  ASSUME AsmInv, FixupsFresh, WordInv, ApplyFixup, PatchWord
  PROVE  WordInv'
<1> DEFINE i == Fixup.index
           imm == Resolved(code[i].op, symbols[Fixup.label], i)
<1>1. /\ i \in 1 .. Len(code) /\ Len(code') = Len(code) /\ code'[i] = Emitted(code[i].op, imm, code[i].arg)
      /\ \A k \in 1 .. Len(code) : k # i => code'[k] = code[k]
  BY FixupTyped
<1>2. code'[i].op = code[i].op /\ code'[i].imm = imm
  BY <1>1 DEF Emitted
<1>3. code[i].op \in BranchOps \cup {"MOVI"} /\ code[i].imm = 0
  <2>1. 1 \in 1 .. Len(fixups)
    BY DEF AsmInv, ApplyFixup
  <2> QED
    BY <2>1 DEF FixupsFresh, Fixup
<1>4. Fits(imm, Far)
  BY DEF ApplyFixup, FixupFits
<1>5. imm \in Int
  <2>1. symbols[Fixup.label] \in Int
    BY FixupTyped DEF AsmInv, AsmTypeOK
  <2>2. i \in Int
    BY <1>1
  <2> QED
    BY <2>1, <2>2, ResolvedTyped
<1> HIDE DEF i, imm
<1>6. OperandsFit(code[i].op, operands[i], 0) /\ words[i] = Encode(code[i].op, operands[i], 0)
  BY <1>1, <1>3 DEF WordInv
<1>7. code[i].op \notin LoadOps
  BY <1>3 DEF LoadOps, BranchOps
<1>8. OperandsFit(code[i].op, operands[i], imm)
  BY <1>4, <1>5, <1>6, <1>7 DEF OperandsFit
<1>9. code[i].op \in CodeOps
  BY <1>3 DEF CodeOps
<1>10. Encode(code[i].op, operands[i], imm) \in Nat
  BY <1>8, <1>9, EncodedExecutes
<1>11. words' = [words EXCEPT ![i] = Encode(code[i].op, operands[i], imm)] /\ operands' = operands
  <2>1. words' = [words EXCEPT ![i] = Refilled(code'[i].op, operands[i], code'[i].imm, words[i])] /\ operands' = operands
    BY DEF PatchWord, i
  <2> QED
    BY <1>2, <1>3, <1>6, <1>8, <2>1, RefilledFresh
<1>12. words \in Seq(Nat) /\ Len(words) = Len(code)
  BY DEF WordInv
<1>13. /\ words' \in Seq(Nat) /\ Len(words') = Len(words)
       /\ \A k \in 1 .. Len(words) : words'[k] = IF k = i THEN Encode(code[i].op, operands[i], imm) ELSE words[k]
  BY <1>1, <1>10, <1>11, <1>12, ExceptSeq
<1>14. ASSUME NEW k \in 1 .. Len(code')
       PROVE  /\ OperandsFit(code'[k].op, operands'[k], code'[k].imm)
              /\ words'[k] = Encode(code'[k].op, operands'[k], code'[k].imm)
  <2>1. CASE k = i
    BY <1>1, <1>2, <1>8, <1>11, <1>12, <1>13, <2>1
  <2>2. CASE k # i
    BY <1>1, <1>11, <1>12, <1>13, <2>2 DEF WordInv
  <2> QED
    BY <2>1, <2>2
<1> QED
  BY <1>1, <1>11, <1>12, <1>13, <1>14 DEF WordInv

LEMMA WordsAppended ==
  ASSUME AsmInv, WordInv, [AsmNext]_asmVars, ~ApplyFixup, EmitWords
  PROVE  WordInv'
<1> DEFINE n == Len(code') - Len(code)
           new == [k \in 1 .. n |-> Encode(code'[Len(code) + k].op, Named, code'[Len(code) + k].imm)]
           regs == [k \in 1 .. n |-> Named]
<1>1. code \in Seq(Emission) /\ Len(code) \in Nat /\ code' \in Seq(Emission) /\ Len(code') \in Nat
  BY AsmStep DEF AsmInv
<1>2. \A k \in 1 .. Len(code) : k \in 1 .. Len(code') /\ code'[k] = code[k]
  BY CodeGrows
<1>3. n \in Nat /\ Len(code') = Len(code) + n
  <2>1. Len(code) <= Len(code')
    <3>1. CASE Len(code) = 0
      BY <1>1, <3>1
    <3>2. CASE Len(code) # 0
      BY <1>1, <1>2, <3>2
    <3> QED
      BY <3>1, <3>2
  <2> QED
    BY <1>1, <2>1
<1>4. words' = words \o new /\ operands' = operands \o regs
  BY DEF EmitWords
<1> HIDE DEF n
<1>5. ASSUME NEW k \in 1 .. n
      PROVE  /\ OperandsFit(code'[Len(code) + k].op, Named, code'[Len(code) + k].imm)
             /\ Encode(code'[Len(code) + k].op, Named, code'[Len(code) + k].imm) \in Nat
             /\ Named \in Seq(Register)
  <2>1. Len(code) + k \in Len(code) + 1 .. Len(code')
    BY <1>1, <1>3
  <2>2. /\ code'[Len(code) + k].op \in CodeOps
        /\ OperandsFit(code'[Len(code) + k].op, Named, code'[Len(code) + k].imm)
    BY <2>1, EmittedFits
  <2> QED
    BY <2>2, EncodedExecutes DEF OperandsFit
<1>6. new \in Seq(Nat) /\ Len(new) = n
  <2>1. new \in [1 .. n -> Nat]
    BY <1>5
  <2> QED
    BY <1>3, <2>1, Tuple
<1>7. regs \in Seq(Seq(Register)) /\ Len(regs) = n
  <2>1. regs \in [1 .. n -> Seq(Register)]
    BY <1>5
  <2> QED
    BY <1>3, <2>1, Tuple
<1>8. /\ \A k \in 1 .. n : new[k] = Encode(code'[Len(code) + k].op, Named, code'[Len(code) + k].imm)
      /\ \A k \in 1 .. n : regs[k] = Named
  OBVIOUS
<1> HIDE DEF new, regs
<1>9. words \in Seq(Nat) /\ Len(words) = Len(code) /\ operands \in Seq(Seq(Register)) /\ Len(operands) = Len(code)
  BY DEF WordInv
<1>10. /\ words' \in Seq(Nat) /\ Len(words') = Len(code')
       /\ \A k \in 1 .. Len(code') : words'[k] = IF k <= Len(code) THEN words[k] ELSE new[k - Len(code)]
  <2>1. /\ words' \in Seq(Nat) /\ Len(words') = Len(words) + Len(new)
        /\ \A k \in 1 .. Len(words) + Len(new) :
             words'[k] = IF k <= Len(words) THEN words[k] ELSE new[k - Len(words)]
    BY <1>4, <1>6, <1>9, ConcatProperties
  <2> QED
    BY <1>3, <1>6, <1>9, <2>1
<1>11. /\ operands' \in Seq(Seq(Register)) /\ Len(operands') = Len(code')
       /\ \A k \in 1 .. Len(code') : operands'[k] = IF k <= Len(code) THEN operands[k] ELSE regs[k - Len(code)]
  <2>1. /\ operands' \in Seq(Seq(Register)) /\ Len(operands') = Len(operands) + Len(regs)
        /\ \A k \in 1 .. Len(operands) + Len(regs) :
             operands'[k] = IF k <= Len(operands) THEN operands[k] ELSE regs[k - Len(operands)]
    BY <1>4, <1>7, <1>9, ConcatProperties
  <2> QED
    BY <1>3, <1>7, <1>9, <2>1
<1>12. ASSUME NEW k \in 1 .. Len(code')
       PROVE  /\ OperandsFit(code'[k].op, operands'[k], code'[k].imm)
              /\ words'[k] = Encode(code'[k].op, operands'[k], code'[k].imm)
  <2>1. CASE k <= Len(code)
    <3>1. k \in 1 .. Len(code) /\ words'[k] = words[k] /\ operands'[k] = operands[k]
      BY <1>1, <1>10, <1>11, <2>1
    <3>2. code'[k] = code[k]
      BY <1>2, <3>1
    <3> QED
      BY <3>1, <3>2 DEF WordInv
  <2>2. CASE ~(k <= Len(code))
    <3>0. k - Len(code) \in 1 .. n /\ k = Len(code) + (k - Len(code))
      BY <1>1, <1>3, <2>2
    <3>1. PICK j \in 1 .. n : k = Len(code) + j /\ k - Len(code) = j
      BY <3>0
    <3>2. words'[k] = new[j] /\ operands'[k] = regs[j]
      BY <1>10, <1>11, <2>2, <3>1
    <3> QED
      BY <1>5, <1>8, <3>1, <3>2
  <2> QED
    BY <2>1, <2>2
<1> QED
  BY <1>10, <1>11, <1>12 DEF WordInv

LEMMA AssemblyStep == AsmInv /\ FixupsFresh /\ WordInv /\ [AssemblyNext]_assemblyVars
                        => [AsmNext]_asmVars /\ WordInv'
<1> SUFFICES ASSUME AsmInv, FixupsFresh, WordInv, [AssemblyNext]_assemblyVars
             PROVE  [AsmNext]_asmVars /\ WordInv'
  OBVIOUS
<1>1. CASE ApplyFixup /\ PatchWord
  BY <1>1, WordsPatched DEF AsmNext
<1>2. CASE AsmNext /\ ~Fixing /\ EmitWords
  <2>1. ~ApplyFixup
    BY <1>2 DEF ApplyFixup, Fixing
  <2> QED
    BY <1>2, <2>1, WordsAppended
<1>3. CASE UNCHANGED assemblyVars
  BY <1>3 DEF assemblyVars, asmVars, wordVars, WordInv
<1> QED
  BY <1>1, <1>2, <1>3 DEF AssemblyNext

LEMMA WordInvMeans == AsmInv /\ WordInv => WordsAsWritten
<1> SUFFICES ASSUME AsmInv, WordInv PROVE WordsAsWritten
  OBVIOUS
<1>1. code \in Seq(Emission) /\ DOMAIN words = 1 .. Len(code) /\ DOMAIN code = 1 .. Len(code)
  BY DEF AsmInv, WordInv
<1>2. \A i \in 1 .. Len(code) : code[i].op \in CodeOps
  <2>1. \A i \in 1 .. Len(code) : code[i] \in Emission
    BY <1>1, ElementOfSeq
  <2> QED
    BY <2>1 DEF Emission
<1> QED
  BY <1>1, <1>2, EncodedExecutes DEF WordInv, WordsAsWritten

EncodedInv == AsmInv /\ FixupsFresh /\ WordInv

LEMMA EncodedInit == AssemblyInit => EncodedInv
<1> SUFFICES ASSUME AssemblyInit PROVE EncodedInv
  OBVIOUS
<1>1. AsmInv
  BY AsmInitInv DEF AssemblyInit
<1>2. code = <<>> /\ fixups = <<>> /\ words = <<>> /\ operands = <<>>
  BY DEF AssemblyInit, AsmInit
<1>3. FixupsFresh
  BY <1>2 DEF FixupsFresh
<1>4. WordInv
  BY <1>2 DEF WordInv
<1> QED
  BY <1>1, <1>3, <1>4 DEF EncodedInv

LEMMA EncodedStep == EncodedInv /\ [AssemblyNext]_assemblyVars => [AsmNext]_asmVars /\ EncodedInv'
BY AssemblyStep, AsmStep, FreshStep DEF EncodedInv

(* For every source, every number of registers and every width of the      *)
(* immediates: execute() finds in every word the operation, the registers  *)
(* and the immediate that the source means, before and after its fixup.    *)
THEOREM WordsCorrect == AssemblySpec => []WordsAsWritten
<1>1. EncodedInv => WordsAsWritten
  BY WordInvMeans DEF EncodedInv
<1> QED
  BY <1>1, EncodedInit, EncodedStep, PTL DEF AssemblySpec

(* The words follow the assembler and do not lead it: what is shown of     *)
(* Passes is so of AssemblySpec (run, emit_instruction, apply_fixups).     *)
THEOREM WordsFollow == AssemblySpec => Passes
<1>1. AssemblyInit => AsmInit
  BY DEF AssemblyInit
<1> QED
  BY <1>1, EncodedInit, EncodedStep, PTL DEF AssemblySpec, Passes
-----------------------------------------------------------------------------
(* The files that are open, and how far they are read.                     *)
FrameRead(k) == input[k].line <= Len(source[input[k].file]) + 1
OpenInv == Len(input) <= MaxOpen + 1 /\ \A k \in 1 .. Len(input) : FrameRead(k)

Frame == [file : File, line : Nat \ {0}]

LEMMA FramesTyped ==
  ASSUME AsmInv
  PROVE  /\ input \in Seq(Frame) /\ Len(input) \in Nat \ {0} /\ DOMAIN input = 1 .. Len(input)
         /\ Here = input[Len(input)]
         /\ \A f \in File : Len(source[f]) \in Nat
         /\ \A k \in 1 .. Len(input) : input[k] \in Frame
<1>1. input \in Seq(Frame) /\ input # <<>>
  BY DEF AsmInv, AsmTypeOK, Frame
<1>2. \A f \in File : Len(source[f]) \in Nat
  BY LenProperties DEF AsmInv, SourceTyped
<1>3. Len(input) \in Nat \ {0} /\ DOMAIN input = 1 .. Len(input)
  BY <1>1, LenProperties, EmptySeq
<1> QED BY <1>1, <1>2, <1>3, ElementOfSeq DEF Here

(* What a step does to the open files.                                     *)
LinesRead == /\ status = "assembling" /\ status' = status /\ ~AtEnd /\ ReadOn
FileOpened ==
  /\ status = "assembling" /\ status' = status /\ ~AtEnd /\ Len(input) <= MaxOpen
  /\ Statement.arg \in File
  /\ input' = Append([input EXCEPT ![Len(input)] = NextLine], [file |-> Statement.arg, line |-> 1])
FileClosed ==
  /\ status = "assembling" /\ status' = status /\ Len(input) > 1
  /\ input' = SubSeq(input, 1, Len(input) - 1)
FixupDone == status = "fixing" /\ status' = status /\ input' = input /\ fixups # <<>> /\ fixups' = Tail(fixups)
PassDone ==
  /\ \/ status = "assembling" /\ status' \in {"fixing", "failed"}
     \/ status = "fixing" /\ status' \in {"done", "failed"}
  /\ input' = input

LEMMA Moves ==
  ASSUME AsmNext
  PROVE  /\ source' = source
         /\ LinesRead \/ FileOpened \/ FileClosed \/ FixupDone \/ PassDone
<1>1. ASSUME NEW op, Reads(op) PROVE source' = source /\ LinesRead
  BY <1>1 DEF Reads, Assembling, LinesRead
<1>2. CASE \/ CodeLabel \/ DataLabel \/ SectionDirective \/ OrgCode \/ OrgData \/ Data \/ WordDirective
           \/ ByteDirective \/ Equ \/ Movi
  BY <1>1, <1>2 DEF CodeLabel, DataLabel, SectionDirective, OrgCode, OrgData, Data, WordDirective,
     ByteDirective, Equ, Movi
<1>3. ASSUME NEW op, Plain(op) \/ Immediate(op) \/ BranchOrCall(op) PROVE source' = source /\ LinesRead
  BY <1>1, <1>3 DEF Plain, Immediate, BranchOrCall
<1>4. CASE Include
  BY <1>4 DEF Include, Assembling, Accepted, FileOpened
<1>5. CASE EndOfInclude
  BY <1>5 DEF EndOfInclude, FileClosed
<1>6. CASE EndOfSource \/ Reject \/ RejectFixup \/ Finish
  BY <1>6 DEF EndOfSource, Reject, RejectFixup, Finish, PassDone
<1>7. CASE ApplyFixup
  BY <1>7 DEF ApplyFixup, FixupDone
<1> QED
  BY <1>2, <1>3, <1>4, <1>5, <1>6, <1>7 DEF AsmNext

(* The line that is read, and the frames that are not.                     *)
InputRead == [input EXCEPT ![Len(input)] = NextLine]

LEMMA HereRead ==
  ASSUME AsmInv, OpenInv, ~AtEnd
  PROVE  /\ Len(input) \in 1 .. Len(input) /\ InputRead \in Seq(Frame)
         /\ Len(InputRead) = Len(input)
         /\ InputRead[Len(input)].file = input[Len(input)].file
         /\ InputRead[Len(input)].line = input[Len(input)].line + 1
         /\ InputRead[Len(input)].line \in Nat /\ input[Len(input)].line \in Nat
         /\ Len(source[input[Len(input)].file]) \in Nat
         /\ InputRead[Len(input)].line <= Len(source[input[Len(input)].file]) + 1
         /\ \A k \in 1 .. Len(input) - 1 : InputRead[k] = input[k]
<1>0. PICK n : n = Len(input)
  OBVIOUS
<1>1. n \in 1 .. n /\ n \in 1 .. Len(input) /\ input[n] \in Frame /\ Here = input[n] /\ input \in Seq(Frame)
  BY <1>0, FramesTyped
<1>2. /\ input[n].file \in File /\ input[n].line \in Nat /\ Len(source[input[n].file]) \in Nat
      /\ input[n].line <= Len(source[input[n].file])
  BY <1>1, FramesTyped DEF AtEnd, Frame
<1>3. NextLine \in Frame /\ NextLine.file = input[n].file /\ NextLine.line = input[n].line + 1
  BY <1>1, <1>2 DEF NextLine, Frame
<1>4. InputRead = [input EXCEPT ![n] = NextLine]
  BY <1>0 DEF InputRead
<1>5. /\ InputRead \in Seq(Frame) /\ Len(InputRead) = n /\ InputRead[n] = NextLine
      /\ \A k \in 1 .. n - 1 : InputRead[k] = input[k]
  BY <1>0, <1>1, <1>3, <1>4, ExceptSeq
<1>6. InputRead[n].line \in Nat /\ InputRead[n].line <= Len(source[input[n].file]) + 1
  BY <1>2, <1>3, <1>5
<1> QED BY <1>0, <1>1, <1>2, <1>3, <1>5, <1>6

(* What an .include does to the open files.                                *)
LEMMA Opens ==
  ASSUME AsmInv, OpenInv, FileOpened, NEW n, n = Len(input)
  PROVE  /\ n \in 1 .. Len(input) /\ Len(input') = n + 1
         /\ input'[n].file = input[n].file /\ input'[n].line = input[n].line + 1
         /\ input'[n].line \in Nat /\ input[n].line \in Nat /\ Len(source[input[n].file]) \in Nat
         /\ input'[n].line <= Len(source[input[n].file]) + 1
         /\ \A k \in 1 .. n - 1 : input'[k] = input[k]
         /\ input'[n + 1].file \in File /\ input'[n + 1].line = 1
<1> DEFINE s == InputRead
           f == [file |-> Statement.arg, line |-> 1]
<1>1. ~AtEnd
  BY DEF FileOpened
<1>2. /\ n \in 1 .. Len(input) /\ s \in Seq(Frame) /\ Len(s) = n
      /\ s[n].file = input[n].file /\ s[n].line = input[n].line + 1
      /\ s[n].line \in Nat /\ input[n].line \in Nat /\ Len(source[input[n].file]) \in Nat
      /\ s[n].line <= Len(source[input[n].file]) + 1
      /\ \A k \in 1 .. n - 1 : s[k] = input[k]
  BY <1>1, HereRead
<1>3. f \in Frame /\ f.file \in File /\ f.line = 1
  BY DEF FileOpened, Frame
<1>4. input' = Append(s, f)
  BY DEF FileOpened, InputRead
<1> HIDE DEF s, f
<1>5. Len(input') = n + 1 /\ input'[n + 1] = f /\ \A k \in 1 .. n : input'[k] = s[k]
  BY <1>2, <1>3, <1>4, AppendProperties
<1>6. n \in 1 .. n /\ \A k \in 1 .. n - 1 : k \in 1 .. n
  BY <1>2
<1> QED BY <1>2, <1>3, <1>5, <1>6

LEMMA Closes ==
  ASSUME AsmInv, FileClosed, NEW n, n = Len(input)
  PROVE  /\ n \in Nat /\ n > 1 /\ Len(input') = n - 1
         /\ \A k \in 1 .. n - 1 : input'[k] = input[k]
<1>1. n \in Nat /\ n > 1 /\ input \in Seq(Frame) /\ input' = SubSeq(input, 1, n - 1)
  BY FramesTyped DEF FileClosed
<1>2. \A k \in 1 .. n - 1 : input[k] \in Frame
  BY <1>1, FramesTyped
<1> QED BY <1>1, <1>2, SubSeqProperties

LEMMA OpenStep ==
  ASSUME AsmInv, OpenInv, [AsmNext]_asmVars
  PROVE  OpenInv'
<1>1. CASE UNCHANGED asmVars
  BY <1>1 DEF OpenInv, FrameRead, asmVars
<1> SUFFICES ASSUME AsmNext PROVE OpenInv'
  BY <1>1
<1>0. PICK n \in Nat \ {0} : n = Len(input)
  BY FramesTyped
<1>2. n \in 1 .. n /\ n \in Nat /\ n <= MaxOpen + 1 /\ source' = source
  BY <1>0, Moves DEF OpenInv
<1>3. MaxOpen \in Nat
  BY AssemblerAssumption
<1>4. CASE LinesRead
  <2> DEFINE s == InputRead
  <2>0. input' = s /\ ~AtEnd
    BY <1>4 DEF LinesRead, ReadOn, InputRead
  <2>1. /\ input' = s /\ Len(s) = n /\ s[n].file = input[n].file
        /\ s[n].line <= Len(source[input[n].file]) + 1
        /\ \A k \in 1 .. n - 1 : s[k] = input[k]
    BY <1>0, <2>0, HereRead
  <2> HIDE DEF s
  <2>2. \A k \in 1 .. n : k = n \/ k \in 1 .. n - 1
    BY <1>2
  <2>3. \A k \in 1 .. n : FrameRead(k)'
    BY <1>0, <1>2, <2>1, <2>2 DEF OpenInv, FrameRead
  <2> QED BY <1>0, <1>2, <2>1, <2>3 DEF OpenInv
<1>5. CASE FileOpened
  <2>0. n <= MaxOpen
    BY <1>0, <1>5 DEF FileOpened
  <2>1. /\ Len(input') = n + 1 /\ input'[n].file = input[n].file
        /\ input'[n].line <= Len(source[input[n].file]) + 1
        /\ \A k \in 1 .. n - 1 : input'[k] = input[k]
        /\ input'[n + 1].file \in File /\ input'[n + 1].line = 1
    BY <1>0, <1>5, Opens
  <2>2. \A k \in 1 .. n + 1 : k = n + 1 \/ k = n \/ k \in 1 .. n - 1
    BY <1>2
  <2>3. Len(source[input'[n + 1].file]) \in Nat
    BY <2>1, FramesTyped
  <2>4. FrameRead(n + 1)'
    BY <1>2, <2>1, <2>3 DEF FrameRead
  <2>5. FrameRead(n)'
    BY <1>2, <2>1 DEF FrameRead
  <2>6. \A k \in 1 .. n - 1 : FrameRead(k)'
    <3>1. \A k \in 1 .. n - 1 : k \in 1 .. Len(input)
      BY <1>0
    <3> QED BY <1>2, <2>1, <3>1 DEF OpenInv, FrameRead
  <2>7. \A k \in 1 .. n + 1 : FrameRead(k)'
    <3> SUFFICES ASSUME NEW k \in 1 .. n + 1 PROVE FrameRead(k)'
      OBVIOUS
    <3> QED BY <2>2, <2>4, <2>5, <2>6
  <2> QED BY <1>2, <1>3, <2>0, <2>1, <2>7 DEF OpenInv
<1>6. CASE FileClosed
  <2>1. Len(input') = n - 1 /\ \A k \in 1 .. n - 1 : input'[k] = input[k]
    BY <1>0, <1>6, Closes
  <2>2. \A k \in 1 .. n - 1 : k \in 1 .. n
    BY <1>2
  <2>3. \A k \in 1 .. n - 1 : FrameRead(k)'
    BY <1>0, <1>2, <2>1, <2>2 DEF OpenInv, FrameRead
  <2> QED BY <1>2, <1>3, <2>1, <2>3 DEF OpenInv
<1>7. CASE FixupDone \/ PassDone
  <2>1. input' = input
    BY <1>7 DEF FixupDone, PassDone
  <2> QED BY <1>2, <2>1 DEF OpenInv, FrameRead
<1> QED BY <1>4, <1>5, <1>6, <1>7, Moves

LEMMA OpenInit == AsmInit => OpenInv
<1> SUFFICES ASSUME AsmInit PROVE OpenInv
  OBVIOUS
<1>1. input = <<[file |-> Main, line |-> 1]>> /\ AsmInv /\ Main \in File /\ MaxOpen \in Nat
  BY AssemblerAssumption, AsmInitInv DEF AsmInit
<1>2. Len(source[Main]) \in Nat
  BY <1>1, FramesTyped
<1>3. Len(input) = 1 /\ input[1].file = Main /\ input[1].line = 1
  BY <1>1
<1> QED BY <1>1, <1>2, <1>3 DEF OpenInv, FrameRead

(* The rank, by its parts.                                                 *)
LeftSound ==
  /\ DOMAIN AssemblyLeft = 1 .. MaxOpen + 3 /\ MaxOpen \in Nat
  /\ AssemblyLeft[1] = PassesLeft /\ PassesLeft \in Nat
  /\ AssemblyLeft[MaxOpen + 3] = Len(fixups) /\ Len(fixups) \in Nat
  /\ \A k \in 1 .. MaxOpen + 1 : AssemblyLeft[k + 1] = LinesLeft(k) /\ LinesLeft(k) \in Nat
  /\ \A k \in 1 .. Len(input) : LinesLeft(k) >= 1
  /\ IsRank(AssemblyLeft)

LEMMA LeftParts ==
  ASSUME AsmInv, OpenInv
  PROVE  LeftSound
<1>1. MaxOpen \in Nat
  BY AssemblerAssumption
<1>2. PassesLeft \in Nat
  BY DEF PassesLeft
<1>3. Len(fixups) \in Nat
  BY LenProperties DEF AsmInv
<1>4. Len(input) \in Nat /\ \A k \in 1 .. Len(input) : LinesLeft(k) \in Nat /\ LinesLeft(k) >= 1
  <2>1. Len(input) \in Nat
    BY FramesTyped
  <2> SUFFICES ASSUME NEW k \in 1 .. Len(input) PROVE LinesLeft(k) \in Nat /\ LinesLeft(k) >= 1
    BY <2>1
  <2>2. input[k] \in Frame /\ Len(source[input[k].file]) \in Nat
    BY FramesTyped DEF Frame
  <2>3. input[k].line \in Nat /\ input[k].line <= Len(source[input[k].file]) + 1
    BY <2>2 DEF OpenInv, FrameRead, Frame
  <2> QED BY <2>1, <2>2, <2>3 DEF LinesLeft
<1>5. \A k \in 1 .. MaxOpen + 1 : LinesLeft(k) \in Nat
  <2> TAKE k \in 1 .. MaxOpen + 1
  <2>1. CASE k > Len(input)
    BY <2>1 DEF LinesLeft
  <2>2. CASE k <= Len(input)
    BY <1>1, <1>4, <2>2
  <2> QED BY <1>1, <1>4, <2>1, <2>2
<1>6. DOMAIN AssemblyLeft = 1 .. MaxOpen + 3
  BY DEF AssemblyLeft
<1>7. AssemblyLeft[1] = PassesLeft /\ AssemblyLeft[MaxOpen + 3] = Len(fixups)
  BY <1>1 DEF AssemblyLeft
<1>8. \A k \in 1 .. MaxOpen + 1 : AssemblyLeft[k + 1] = LinesLeft(k)
  BY <1>1 DEF AssemblyLeft
<1>9. IsRank(AssemblyLeft)
  <2> SUFFICES ASSUME NEW j \in 1 .. MaxOpen + 3 PROVE AssemblyLeft[j] \in Nat
    BY <1>6 DEF IsRank
  <2>1. j = 1 \/ j = MaxOpen + 3 \/ (j - 1 \in 1 .. MaxOpen + 1 /\ j = (j - 1) + 1)
    BY <1>1
  <2> QED BY <1>2, <1>3, <1>5, <1>7, <1>8, <2>1
<1> QED BY <1>1, <1>2, <1>3, <1>4, <1>5, <1>6, <1>7, <1>8, <1>9 DEF LeftSound

LEMMA LeftPartsNext == AsmInv' /\ OpenInv' => LeftSound'
<1>1. (AsmInv /\ OpenInv => LeftSound)'
  BY LeftParts, PTL
<1> QED BY <1>1

(* One open file has less left, and those around it as much.               *)
LEMMA FrameDescends ==
  ASSUME AsmInv, OpenInv, AsmInv', OpenInv', PassesLeft' = PassesLeft,
         NEW n \in 1 .. MaxOpen + 1, LinesLeft(n)' < LinesLeft(n),
         \A k \in 1 .. n - 1 : LinesLeft(k)' = LinesLeft(k)
  PROVE  Descends(AssemblyLeft, AssemblyLeft')
<1> DEFINE r == AssemblyLeft
           s == AssemblyLeft'
<1>1. /\ DOMAIN r = 1 .. MaxOpen + 3 /\ MaxOpen \in Nat /\ DOMAIN s = DOMAIN r
      /\ IsRank(r) /\ r[1] = PassesLeft /\ s[1] = PassesLeft'
      /\ \A k \in 1 .. MaxOpen + 1 : r[k + 1] = LinesLeft(k) /\ s[k + 1] = LinesLeft(k)'
  BY LeftParts, LeftPartsNext DEF LeftSound
<1>2. IsRank(s)
  BY LeftPartsNext DEF LeftSound, IsRank
<1> HIDE DEF r, s
<1>3. n + 1 \in DOMAIN r /\ s[n + 1] < r[n + 1]
  BY <1>1
<1>4. ASSUME NEW j \in DOMAIN r, j < n + 1 PROVE s[j] = r[j]
  <2>1. j = 1 \/ (j - 1 \in 1 .. n - 1 /\ j = (j - 1) + 1 /\ j - 1 \in 1 .. MaxOpen + 1)
    BY <1>1, <1>4
  <2> QED BY <1>1, <2>1
<1>5. Descends(r, s)
  BY <1>1, <1>2, <1>3, <1>4 DEF Descends
<1> QED BY <1>5 DEF r, s

LEMMA StepShrinks ==
  ASSUME AsmInv, OpenInv, AsmNext
  PROVE  Descends(AssemblyLeft, AssemblyLeft')
<1>1. AsmInv' /\ OpenInv' /\ source' = source
  BY AsmStep, OpenStep, Moves
<1>0. PICK n \in Nat : n = Len(input)
  BY FramesTyped
<1>2. n \in Nat /\ n >= 1 /\ n <= MaxOpen + 1 /\ MaxOpen \in Nat /\ n \in 1 .. MaxOpen + 1
  BY <1>0, FramesTyped, AssemblerAssumption DEF OpenInv
<1>3. CASE LinesRead
  <2> DEFINE s == InputRead
  <2>0. input' = s /\ ~AtEnd
    BY <1>3 DEF LinesRead, ReadOn, InputRead
  <2>1. /\ input' = s /\ Len(s) = n
        /\ s[n].file = input[n].file /\ s[n].line = input[n].line + 1
        /\ input[n].line \in Nat /\ Len(source[input[n].file]) \in Nat
        /\ \A k \in 1 .. n - 1 : s[k] = input[k]
    BY <1>0, <2>0, HereRead
  <2>2. PassesLeft' = PassesLeft
    BY <1>3 DEF LinesRead, PassesLeft
  <2> HIDE DEF s
  <2>3. LinesLeft(n)' < LinesLeft(n)
    BY <1>0, <1>1, <1>2, <2>1 DEF LinesLeft
  <2>4. \A k \in 1 .. n - 1 : LinesLeft(k)' = LinesLeft(k)
    BY <1>0, <1>1, <1>2, <2>1 DEF LinesLeft
  <2> QED BY <1>1, <1>2, <2>2, <2>3, <2>4, FrameDescends
<1>4. CASE FileOpened
  <2>1. /\ Len(input') = n + 1
        /\ input'[n].file = input[n].file /\ input'[n].line = input[n].line + 1
        /\ input[n].line \in Nat /\ Len(source[input[n].file]) \in Nat
        /\ \A k \in 1 .. n - 1 : input'[k] = input[k]
    BY <1>0, <1>4, Opens
  <2>2. PassesLeft' = PassesLeft
    BY <1>4 DEF FileOpened, PassesLeft
  <2>3. LinesLeft(n)' < LinesLeft(n)
    BY <1>0, <1>1, <1>2, <2>1 DEF LinesLeft
  <2>4. \A k \in 1 .. n - 1 : LinesLeft(k)' = LinesLeft(k)
    BY <1>0, <1>1, <1>2, <2>1 DEF LinesLeft
  <2> QED BY <1>1, <1>2, <2>2, <2>3, <2>4, FrameDescends
<1>5. CASE FileClosed
  <2>1. Len(input') = n - 1 /\ \A k \in 1 .. n - 1 : input'[k] = input[k]
    BY <1>0, <1>5, Closes
  <2>2. PassesLeft' = PassesLeft
    BY <1>5 DEF FileClosed, PassesLeft
  <2>3. LinesLeft(n)' = 0 /\ LinesLeft(n) >= 1 /\ LinesLeft(n) \in Nat
    BY <1>0, <1>2, <2>1, LeftParts DEF LeftSound, LinesLeft
  <2>4. \A k \in 1 .. n - 1 : LinesLeft(k)' = LinesLeft(k)
    BY <1>0, <1>1, <1>2, <2>1 DEF LinesLeft
  <2> QED BY <1>1, <1>2, <2>2, <2>3, <2>4, FrameDescends
<1>6. CASE FixupDone
  <2> DEFINE r == AssemblyLeft
             s == AssemblyLeft'
             m == MaxOpen + 3
  <2>1. /\ DOMAIN r = 1 .. m /\ DOMAIN s = DOMAIN r /\ IsRank(r)
        /\ r[1] = PassesLeft /\ s[1] = PassesLeft' /\ r[m] = Len(fixups) /\ s[m] = Len(fixups')
        /\ \A k \in 1 .. MaxOpen + 1 : r[k + 1] = LinesLeft(k) /\ s[k + 1] = LinesLeft(k)'
    BY <1>1, LeftParts, LeftPartsNext DEF LeftSound
  <2>2. IsRank(s)
    BY <1>1, LeftPartsNext DEF LeftSound, IsRank
  <2>3. PassesLeft' = PassesLeft /\ \A k : LinesLeft(k)' = LinesLeft(k)
    BY <1>1, <1>6 DEF FixupDone, PassesLeft, LinesLeft
  <2>4. Len(fixups') = Len(fixups) - 1 /\ Len(fixups) \in Nat
    BY <1>6, HeadTailProperties, LenProperties DEF FixupDone, AsmInv
  <2> HIDE DEF r, s
  <2>5. m \in DOMAIN r /\ s[m] < r[m]
    BY <1>2, <2>1, <2>4
  <2>6. ASSUME NEW j \in DOMAIN r, j < m PROVE s[j] = r[j]
    <3>1. j = 1 \/ (j = (j - 1) + 1 /\ j - 1 \in 1 .. MaxOpen + 1)
      BY <1>2, <2>1, <2>6
    <3> QED BY <2>1, <2>3, <3>1
  <2>7. Descends(r, s)
    BY <2>1, <2>2, <2>5, <2>6 DEF Descends
  <2> QED BY <2>7 DEF r, s
<1>7. CASE PassDone
  <2> DEFINE r == AssemblyLeft
             s == AssemblyLeft'
  <2>1. /\ DOMAIN r = 1 .. MaxOpen + 3 /\ DOMAIN s = DOMAIN r /\ IsRank(r)
        /\ r[1] = PassesLeft /\ s[1] = PassesLeft'
    BY <1>1, LeftParts, LeftPartsNext DEF LeftSound
  <2>2. IsRank(s)
    BY <1>1, LeftPartsNext DEF LeftSound, IsRank
  <2>3. PassesLeft' < PassesLeft
    BY <1>7 DEF PassDone, PassesLeft
  <2> HIDE DEF r, s
  <2>4. 1 \in DOMAIN r /\ s[1] < r[1] /\ \A j \in DOMAIN r : ~(j < 1)
    BY <1>2, <2>1, <2>3
  <2>5. Descends(r, s)
    BY <2>1, <2>2, <2>4 DEF Descends
  <2> QED BY <2>5 DEF r, s
<1> QED BY <1>3, <1>4, <1>5, <1>6, <1>7, Moves

(* Every step of the assembler leaves less to do, whatever files include   *)
(* each other.                                                             *)
THEOREM AssemblyCorrect == Passes => AssemblyShrinks
<1>1. AsmInv /\ OpenInv /\ [AsmNext]_asmVars => [Descends(AssemblyLeft, AssemblyLeft')]_asmVars
  BY StepShrinks
<1>2. AsmInv /\ OpenInv /\ [AsmNext]_asmVars => OpenInv'
  BY OpenStep
<1> QED BY <1>1, <1>2, AsmInitInv, AsmStep, OpenInit, PTL DEF Passes, AssemblyShrinks
-----------------------------------------------------------------------------
(* A branch whose operand is a label of the code holds the distance to it, *)
(* and execute() finds that distance in its word.                          *)
LEMMA ArrivesMeans ==
  ASSUME AsmInv, ResolveInv, WordsAsWritten
  PROVE  LabelsArrive
<1> SUFFICES ASSUME status = "done", NEW k \in DOMAIN words,
                    code[k].op \in BranchOps, code[k].arg \in DOMAIN label_to_word
             PROVE  /\ 4 * TargetWord(k) = symbols[code[k].arg]
                    /\ TargetWord(k) \in 0 .. Len(words)
  BY DEF LabelsArrive
<1> DEFINE w == label_to_word[code[k].arg]
<1>1. code \in Seq(Emission) /\ DOMAIN words = DOMAIN code /\ DOMAIN code = 1 .. Len(code) /\ Len(code) \in Nat
  BY LenProperties DEF AsmInv, WordsAsWritten
<1>2. Len(fixups) = 0
  BY DEF ResolveInv, DoneFixed
<1>3. SettledAs(code[k], k)
  BY <1>1, <1>2 DEF ResolveInv, AllSettled, Pending
<1>4. w \in 0 .. Len(code) /\ symbols[code[k].arg] = 4 * w
  BY DEF AsmInv, AsmTypeOK, ResolveInv, NamesAgree
<1>5. code[k].imm = w - k
  <2>1. code[k].imm = WordsOf(symbols[code[k].arg]) - k
    BY <1>3 DEF SettledAs
  <2>2. WordsOf(4 * w) = w
    BY <1>4, WordsOfLabel
  <2> QED BY <1>4, <2>1, <2>2
<1>6. code[k].op \notin PlainOps
  BY DEF BranchOps, PlainOps, BareOps, SingleOps, PairOps, TripleOps
<1>7. ImmediateIn(code[k].op, words[k]) = w - k
  BY <1>5, <1>6 DEF WordsAsWritten, ExecutesAs
<1>8. TargetWord(k) = w
  BY <1>1, <1>4, <1>7 DEF TargetWord
<1>9. Len(words) = Len(code)
  BY <1>1
<1> QED BY <1>4, <1>8, <1>9

(* A branch or a CALL to a label arrives at the label, for every source:   *)
(* the two passes, the encoding and the decoding taken together.           *)
THEOREM ArrivalCorrect == AssemblySpec => []LabelsArrive
<1>1. EncodedInv => AsmInv /\ WordsAsWritten
  BY WordInvMeans DEF EncodedInv
<1>2. AssemblyInit => ResolveInv
  BY ResolveInit DEF AssemblyInit
<1>3. EncodedInv /\ ResolveInv /\ [AssemblyNext]_assemblyVars => ResolveInv'
  BY <1>1, EncodedStep, ResolveStep
<1> QED
  BY <1>1, <1>2, <1>3, ArrivesMeans, EncodedInit, EncodedStep, PTL DEF AssemblySpec

(* What is shown of the two passes holds beside the words they emit: no    *)
(* byte or instruction is lost, data goes on where it ended, operands mean *)
(* the same before and after their definition, and every step leaves less  *)
(* to do.                                                                  *)
THEOREM AssemblyKeeps ==
  AssemblySpec =>
    [](AsmTypeOK /\ ResolvedAlike) /\ NothingLost /\ DataContinues /\ AssemblyShrinks
BY WordsFollow, AsmTypeCorrect, ResolvedAlikeCorrect, NothingLostCorrect, DataContinuesCorrect,
   AssemblyCorrect, PTL
=============================================================================
