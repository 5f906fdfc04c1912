---------------------------- MODULE MCAssembler -----------------------------
(***************************************************************************)
(* Small sources: all of up to three statements, and longer ones where     *)
(* data, code and includes meet.  Bytes have four values, and there are    *)
(* four registers; immediates reach from -16 to 15, offsets of loads from  *)
(* -1 to 0.                                                                *)
(***************************************************************************)
EXTENDS Assembly, Bitwise, TLC

BitOr(a, b) == a | b

Names    == {"a", "b"}
Numbers  == "0" :> 0 @@ "1" :> 1 @@ "4" :> 4 @@ "6" :> 6 @@ "8" :> 8 @@ "-1" :> -1 @@ "-2" :> -2 @@ "200" :> 200
Sections == {"CODE", "DATA", "TEXT", "BSS"}
Tokens   == Names \cup DOMAIN Numbers \cup Sections \cup {"", "inc", "self", "code", "none", "rect_desc", "palette+8"}
Files    == {"<memory>", "inc", "self", "code"}

(* A line with these registers, a directive, and an instruction with as    *)
(* many registers as it takes.                                             *)
L(op, regs, arg) == [op |-> op, regs |-> regs, arg |-> arg, rest |-> <<>>]
D(op, arg, rest) == [op |-> op, regs |-> <<>>, arg |-> arg, rest |-> rest]
S(op, arg) == L(op, IF op \in CodeOps THEN SubSeq(<<3, 1, 2>>, 1, RegistersOf(op)) ELSE <<>>, arg)

(* inc and code leave the section changed; self includes itself.           *)
Included ==
  "inc"  :> <<S(".section", "DATA"), D(".byte", "", <<"1">>)>> @@
  "code" :> <<S(".section", "CODE")>> @@
  "self" :> <<S(".include", "self")>>
WithMain(main) == "<memory>" :> main @@ Included

All ==
  { S("label", "a"), S("label", "b"), S(".section", "CODE"), S(".section", "DATA"), S(".section", "BSS"),
    S(".org", "4"), S(".org", "6"), S(".org", "-2"), D(".data", "1", <<"1", "0">>), D(".data", "a", <<"4">>),
    D(".word", "", <<"a", "200">>), D(".byte", "", <<"-2", "1">>), D(".byte", "", <<"1">>),
    S(".include", "inc"), S(".include", "code"), S(".include", "self"), S(".include", "none"),
    D(".equ", "a", <<"6">>), D(".equ", "a", <<"200">>), D(".equ", "b", <<"a">>),
    D(".equ", "200", <<"4">>), S("malformed", ""),
    S("ADD", ""), L("CMP", <<1, 2>>, ""), L("NOP", <<1>>, ""), S("ADDI", "-2"), S("LOAD", "-1"),
    S("STORE", "4"), S("MOVI", "a"), S("MOVI", "200"),
    S("BRANCH", "a"), S("BRANCHGT", "b"), S("CALL", "a") }
Short == UNION {[1 .. n -> All] : n \in 0 .. 3}

(* Longer, of data.                                                        *)
DataOnly ==
  { S("label", "a"), S(".section", "DATA"), S(".org", "4"), D(".data", "1", <<"1", "0">>),
    D(".word", "", <<"1">>), D(".byte", "", <<"1">>), S(".include", "inc") }
LongData == {<<S(".section", "DATA")>> \o s : s \in [1 .. 5 -> DataOnly]}

(* Longer, of code.                                                        *)
CodeOnly ==
  { S("label", "a"), S("label", "b"), D(".equ", "a", <<"6">>), S(".org", "8"),
    S("BRANCHNZ", "a"), S("CALL", "b"), S("MOVI", "a"), S("NOT", "") }
LongCode == [1 .. 5 -> CodeOnly]

(* Each operation, with each register.                                     *)
EachOp ==
  { <<S(".section", "DATA"), S("label", "a"), S(".section", "CODE"),
      L(op, [k \in 1 .. RegistersOf(op) |-> (r + k) % 4], arg)>> :
    op \in CodeOps, r \in Register, arg \in {"a", "0", "-1"} }

MCSources == {WithMain(s) : s \in Short \cup LongData \cup LongCode \cup EachOp}
=============================================================================
