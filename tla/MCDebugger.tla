----------------------------- MODULE MCDebugger -----------------------------
(***************************************************************************)
(* A session on a few programs, with the bytes and the layout of MCCPU     *)
(* (vectors at 32, window at 64 .. 135, memory to 167).                    *)
(***************************************************************************)
EXTENDS Debugger, Bitwise

I(op, rd, rn, rm, imm) == [op |-> op, rd |-> rd, rn |-> rn, rm |-> rm, imm |-> imm]

Table == <<
  I("NOP", 0, 0, 0, 0),    I("HALT", 0, 0, 0, 0),     I("MOVI", 1, 0, 0, 24),
  I("STORE", 0, 1, 0, 0),  I("LOADB", 0, 1, 0, 4),    I("BRANCH", 0, 0, 0, -2),
  I("INT", 1, 0, 0, 0),    I("POP", 2, 0, 0, 0),      I("RET", 0, 0, 0, 0),
  I("LOAD", 0, 0, 0, -2) >>

DecodeTable ==
  [w \in Word |-> IF w < Len(Table) THEN Table[w + 1] ELSE I("UNKNOWN", 0, 0, 0, 0)]

TwoBitAnd == [p \in Byte \X Byte |-> p[1] & p[2]]
TwoBitOr  == [p \in Byte \X Byte |-> p[1] | p[2]]
TwoBitXor == [p \in Byte \X Byte |-> p[1] ^^ p[2]]

SessionPrograms ==
  { <<2, 3, 4, 1>>,   \* MOVI; STORE; LOADB; HALT
    <<6, 1, 7, 8>>,   \* INT; HALT; handler at 8: POP; RET
    <<2, 3, 5>>,      \* MOVI; STORE, for ever
    <<9, 1>> }        \* LOAD beyond memory: into the window by wrapping
SessionPatches == {[address |-> 40, bytes |-> <<0, 2>>]}
SessionBreaks == SUBSET {8}
SessionLimits == {2}
SessionAddresses == {8}
SessionWatches == {[start |-> 28, length |-> 2], [start |-> 148, length |-> 1]}
=============================================================================
