--------------------------- MODULE MachineProofs ----------------------------
(***************************************************************************)
(* The processor keeps its types, for every size of memory, every window,  *)
(* every set of registers and programs and every decoding of instructions. *)
(***************************************************************************)
EXTENDS Machine, BusProofs

(* A shift count below the number of bits has a power of two that the      *)
(* assumption on the ALU provides.                                         *)
LEMMA ShiftType ==
  ASSUME NEW y \in Value
  PROVE  2^ShiftCount(y) \in Nat \ {0}
<1>1. ShiftCount(y) \in 0 .. 8 * ByteBits - 1
  BY ALUAssumption, Widening DEF ShiftCount, Value
<1> QED
  BY <1>1, ALUAssumption

(* Quotient and remainder are the only ones.                               *)
LEMMA Unique ==
  ASSUME NEW p \in Nat, p > 0, NEW x \in 0 .. p - 1, NEW y \in Nat, NEW w \in Nat, w = x + p * y
  PROVE  w % p = x /\ w \div p = y
<1>1. PICK q \in Nat : q = w \div p
  OBVIOUS
<1>2. PICK r \in 0 .. p - 1 : r = w % p
  OBVIOUS
<1>3. w = p * q + r
  BY <1>1, <1>2
<1>4. ~(y >= q + 1)
  <2> SUFFICES ASSUME y >= q + 1 PROVE FALSE
    OBVIOUS
  <2>1. p * y >= p * (q + 1) /\ p * (q + 1) = p * q + p
    OBVIOUS
  <2> QED BY <1>3, <2>1
<1>5. ~(q >= y + 1)
  <2> SUFFICES ASSUME q >= y + 1 PROVE FALSE
    OBVIOUS
  <2>1. p * q >= p * (y + 1) /\ p * (y + 1) = p * y + p
    OBVIOUS
  <2> QED BY <1>3, <2>1
<1>6. q = y
  BY <1>4, <1>5
<1>7. r = x
  BY <1>3, <1>6
<1> QED BY <1>1, <1>2, <1>6, <1>7

(* One byte of a number, with what lies below and above it.                *)
LEMMA ByteBetween ==
  ASSUME NEW p \in Nat, p > 0, NEW q \in Nat, q = p * B, NEW low \in 0 .. p - 1, NEW b \in Byte, NEW high \in Nat,
         NEW z \in Nat, z = low + p * (b + B * high)
  PROVE  /\ (z \div p) % B = b
         /\ low + p * b \in 0 .. q - 1 /\ z = (low + p * b) + q * high
<1>1. B \in Nat /\ B > 0 /\ b \in 0 .. B - 1 /\ b \in Nat
  BY Widening DEF Byte
<1>2. PICK m \in Nat : m = b + B * high
  BY <1>1
<1>3. z \div p = m
  BY <1>2, Unique
<1>4. m % B = b
  BY <1>1, <1>2, Unique
<1>5. low + p * b \in 0 .. q - 1
  BY <1>1, Join
<1>6. p * (b + B * high) = p * b + q * high
  <2>1. p * (b + B * high) = p * b + p * (B * high)
    BY <1>1
  <2>2. p * (B * high) = (p * B) * high
    BY <1>1
  <2> QED BY <2>1, <2>2
<1>7. z = (low + p * b) + q * high
  <2>1. PICK u \in Int, v \in Int : u = p * b /\ v = q * high
    BY <1>1
  <2> QED BY <1>6, <2>1
<1> QED BY <1>3, <1>4, <1>5, <1>7

(* What Weight weighs.                                                     *)
LEMMA Weights ==
  /\ Weight[0] = 1 /\ Weight[1] = B /\ Weight[2] = B2 /\ Weight[3] = B2 * B
  /\ Weight[4] = B4 /\ Weight[5] = B4 * B /\ Weight[6] = B4 * B2 /\ Weight[7] = (B4 * B2) * B
  /\ \A k \in 0 .. 7 : Weight[k] \in Nat /\ Weight[k] > 0
  /\ \A k \in 0 .. 6 : Weight[k + 1] = Weight[k] * B
  /\ B8 = Weight[7] * B
<1>1. B \in Nat /\ B > 0 /\ B2 \in Nat /\ B2 > 0 /\ B4 \in Nat /\ B4 > 0 /\ B2 = B * B /\ B4 = B2 * B2 /\ B8 = B4 * B4
  BY Widening DEF B2, B4, B8
<1>2. /\ Weight[0] = 1 * 1 * 1 /\ Weight[1] = B * 1 * 1 /\ Weight[2] = 1 * B2 * 1 /\ Weight[3] = B * B2 * 1
      /\ Weight[4] = 1 * 1 * B4 /\ Weight[5] = B * 1 * B4 /\ Weight[6] = 1 * B2 * B4 /\ Weight[7] = B * B2 * B4
  BY DEF Weight
<1>3. /\ Weight[0] = 1 /\ Weight[1] = B /\ Weight[2] = B2 /\ Weight[3] = B2 * B
      /\ Weight[4] = B4 /\ Weight[5] = B4 * B /\ Weight[6] = B4 * B2 /\ Weight[7] = (B4 * B2) * B
  <2>1. B * B2 = B2 * B /\ B * B4 = B4 * B /\ B2 * B4 = B4 * B2 /\ (B * B2) * B4 = (B4 * B2) * B
    BY <1>1
  <2>2. /\ 1 * 1 = 1 /\ B * 1 = B /\ 1 * B2 = B2 /\ B2 * 1 = B2 /\ (B * B2) * 1 = B * B2
        /\ 1 * B4 = B4
    BY <1>1
  <2> QED BY <1>2, <2>1, <2>2
<1>4. /\ B * B = B2 /\ 1 * B = B /\ (B2 * B) * B = B4 /\ (B4 * B) * B = B4 * B2 /\ ((B4 * B2) * B) * B = B8
  <2>1. (B2 * B) * B = B2 * (B * B) /\ (B4 * B) * B = B4 * (B * B)
    BY <1>1
  <2>2. ((B4 * B2) * B) * B = (B4 * B2) * (B * B) /\ (B4 * B2) * B2 = B4 * (B2 * B2)
    BY <1>1
  <2>3. 1 * B = B
    BY <1>1
  <2> QED BY <1>1, <2>1, <2>2, <2>3
<1>5. /\ Weight[1] = Weight[0] * B /\ Weight[2] = Weight[1] * B /\ Weight[3] = Weight[2] * B
      /\ Weight[4] = Weight[3] * B /\ Weight[5] = Weight[4] * B /\ Weight[6] = Weight[5] * B
      /\ Weight[7] = Weight[6] * B /\ B8 = Weight[7] * B
  BY <1>3, <1>4
<1>6. \A k \in 0 .. 6 : Weight[k + 1] = Weight[k] * B
  <2> TAKE k \in 0 .. 6
  <2>1. <<k, k + 1>> \in {<<0, 1>>, <<1, 2>>, <<2, 3>>, <<3, 4>>, <<4, 5>>, <<5, 6>>, <<6, 7>>}
    OBVIOUS
  <2> QED BY <1>5, <2>1
<1>7. \A k \in 0 .. 7 : Weight[k] \in Nat /\ Weight[k] > 0
  <2>1. /\ B2 * B \in Nat /\ B2 * B > 0 /\ B4 * B \in Nat /\ B4 * B > 0
        /\ B4 * B2 \in Nat /\ B4 * B2 > 0
    BY <1>1
  <2>2. (B4 * B2) * B \in Nat /\ (B4 * B2) * B > 0
    BY <1>1, <2>1
  <2> TAKE k \in 0 .. 7
  <2>3. k \in {0, 1, 2, 3, 4, 5, 6, 7}
    OBVIOUS
  <2> QED BY <1>1, <1>3, <2>1, <2>2, <2>3
<1> QED BY <1>3, <1>5, <1>6, <1>7

(* Eight bytes, joined: each of them is found where it was put.            *)
LEMMA EightBytes ==
  ASSUME NEW b \in [0 .. 7 -> Byte], NEW z,
         z = Weight[0] * b[0] + Weight[1] * b[1] + Weight[2] * b[2] + Weight[3] * b[3]
             + Weight[4] * b[4] + Weight[5] * b[5] + Weight[6] * b[6] + Weight[7] * b[7]
  PROVE  z \in Value /\ \A k \in 0 .. 7 : ByteAt(z, k) = b[k]
<1>1. B \in Nat /\ B > 0 /\ \A k \in 0 .. 7 : b[k] \in Nat /\ b[k] \in Byte
  BY Widening DEF Byte
<1>2. PICK h6 \in Nat : h6 = b[6] + B * b[7]
  BY <1>1
<1>3. PICK h5 \in Nat : h5 = b[5] + B * h6
  BY <1>1
<1>4. PICK h4 \in Nat : h4 = b[4] + B * h5
  BY <1>1
<1>5. PICK h3 \in Nat : h3 = b[3] + B * h4
  BY <1>1
<1>6. PICK h2 \in Nat : h2 = b[2] + B * h3
  BY <1>1
<1>7. PICK h1 \in Nat : h1 = b[1] + B * h2
  BY <1>1
<1>8. PICK h0 \in Nat : h0 = b[0] + B * h1
  BY <1>1
<1>9. ASSUME NEW k \in 0 .. 6, NEW h \in Nat, NEW g \in Nat, h = b[k] + B * g
      PROVE  Weight[k] * h = Weight[k] * b[k] + Weight[k + 1] * g
  <2>1. PICK w \in Nat, c \in Nat : w = Weight[k] /\ c = b[k]
    <3>1. k \in 0 .. 7
      OBVIOUS
    <3> QED BY <3>1, Weights, <1>1
  <2>2. Weight[k + 1] = w * B
    BY Weights, <2>1
  <2>3. w * (c + B * g) = w * c + (w * B) * g
    <3>1. w * (c + B * g) = w * c + w * (B * g) /\ w * (B * g) = (w * B) * g
      BY <1>1
    <3> QED BY <3>1
  <2> QED BY <1>9, <2>1, <2>2, <2>3
<1>10. /\ Weight[0] * h0 = Weight[0] * b[0] + Weight[1] * h1
       /\ Weight[1] * h1 = Weight[1] * b[1] + Weight[2] * h2
       /\ Weight[2] * h2 = Weight[2] * b[2] + Weight[3] * h3
       /\ Weight[3] * h3 = Weight[3] * b[3] + Weight[4] * h4
       /\ Weight[4] * h4 = Weight[4] * b[4] + Weight[5] * h5
       /\ Weight[5] * h5 = Weight[5] * b[5] + Weight[6] * h6
       /\ Weight[6] * h6 = Weight[6] * b[6] + Weight[7] * b[7]
  <2>1. /\ 0 \in 0 .. 6 /\ 1 \in 0 .. 6 /\ 2 \in 0 .. 6 /\ 3 \in 0 .. 6 /\ 4 \in 0 .. 6 /\ 5 \in 0 .. 6
        /\ 6 \in 0 .. 6 /\ 0 + 1 = 1 /\ 1 + 1 = 2 /\ 2 + 1 = 3 /\ 3 + 1 = 4 /\ 4 + 1 = 5 /\ 5 + 1 = 6 /\ 6 + 1 = 7
        /\ b[7] \in Nat
    BY <1>1
  <2>2. Weight[0] * h0 = Weight[0] * b[0] + Weight[1] * h1
    BY <1>8, <1>9, <2>1
  <2>3. Weight[1] * h1 = Weight[1] * b[1] + Weight[2] * h2
    BY <1>7, <1>9, <2>1
  <2>4. Weight[2] * h2 = Weight[2] * b[2] + Weight[3] * h3
    BY <1>6, <1>9, <2>1
  <2>5. Weight[3] * h3 = Weight[3] * b[3] + Weight[4] * h4
    BY <1>5, <1>9, <2>1
  <2>6. Weight[4] * h4 = Weight[4] * b[4] + Weight[5] * h5
    BY <1>4, <1>9, <2>1
  <2>7. Weight[5] * h5 = Weight[5] * b[5] + Weight[6] * h6
    BY <1>3, <1>9, <2>1
  <2>8. Weight[6] * h6 = Weight[6] * b[6] + Weight[7] * b[7]
    BY <1>2, <1>9, <2>1
  <2> QED BY <2>2, <2>3, <2>4, <2>5, <2>6, <2>7, <2>8
<1>11. z = h0 /\ z \in Nat
  <2>1. \A k \in 0 .. 7 : Weight[k] * b[k] \in Int
    <3> TAKE k \in 0 .. 7
    <3>1. Weight[k] \in Nat /\ b[k] \in Nat
      BY <1>1, Weights
    <3> QED BY <3>1
  <2>2. PICK t \in [0 .. 7 -> Int] : \A k \in 0 .. 7 : t[k] = Weight[k] * b[k]
    <3>1. [k \in 0 .. 7 |-> Weight[k] * b[k]] \in [0 .. 7 -> Int]
      BY <2>1
    <3> QED BY <3>1
  <2>3. /\ Weight[1] * h1 \in Int /\ Weight[2] * h2 \in Int /\ Weight[3] * h3 \in Int
        /\ Weight[4] * h4 \in Int /\ Weight[5] * h5 \in Int /\ Weight[6] * h6 \in Int
    BY Weights
  <2>4. Weight[0] * h0 = h0
    BY Weights
  <2>5. PICK u1 \in Int, u2 \in Int, u3 \in Int, u4 \in Int, u5 \in Int, u6 \in Int :
          /\ u1 = Weight[1] * h1 /\ u2 = Weight[2] * h2 /\ u3 = Weight[3] * h3
          /\ u4 = Weight[4] * h4 /\ u5 = Weight[5] * h5 /\ u6 = Weight[6] * h6
    BY <2>3
  <2>6. /\ h0 = t[0] + u1 /\ u1 = t[1] + u2 /\ u2 = t[2] + u3 /\ u3 = t[3] + u4 /\ u4 = t[4] + u5
        /\ u5 = t[5] + u6 /\ u6 = t[6] + t[7]
    BY <1>10, <2>2, <2>4, <2>5
  <2>7. z = t[0] + t[1] + t[2] + t[3] + t[4] + t[5] + t[6] + t[7]
    BY <2>2
  <2>8. \A k \in 0 .. 7 : t[k] \in Int
    BY <2>2
  <2> QED BY <2>6, <2>7, <2>8
<1>12. ASSUME NEW k \in 0 .. 6, NEW low \in 0 .. Weight[k] - 1, NEW h \in Nat, NEW g \in Nat, h = b[k] + B * g,
              z = low + Weight[k] * h
       PROVE  /\ ByteAt(z, k) = b[k]
              /\ low + Weight[k] * b[k] \in 0 .. Weight[k + 1] - 1
              /\ z = (low + Weight[k] * b[k]) + Weight[k + 1] * g
  <2>1. k \in 0 .. 7 /\ k + 1 \in 0 .. 7
    OBVIOUS
  <2>2. PICK p \in Nat, q \in Nat : p = Weight[k] /\ q = Weight[k + 1] /\ p > 0 /\ q = p * B
    BY <2>1, Weights
  <2>3. PICK c \in Byte : c = b[k]
    BY <1>1, <2>1
  <2>4. low \in 0 .. p - 1 /\ z = low + p * (c + B * g)
    BY <1>12, <2>2, <2>3
  <2>5. (z \div p) % B = c /\ low + p * c \in 0 .. q - 1 /\ z = (low + p * c) + q * g
    BY <1>11, <2>2, <2>4, ByteBetween
  <2> QED BY <2>2, <2>3, <2>5 DEF ByteAt
<1>13. PICK l1 \in 0 .. Weight[1] - 1 : ByteAt(z, 0) = b[0] /\ z = l1 + Weight[1] * h1
  <2>1. 0 \in 0 .. Weight[0] - 1 /\ z = 0 + Weight[0] * h0 /\ 0 + 1 = 1 /\ 0 \in 0 .. 6
    BY <1>11, Weights
  <2> QED BY <1>8, <1>12, <2>1
<1>14. PICK l2 \in 0 .. Weight[2] - 1 : ByteAt(z, 1) = b[1] /\ z = l2 + Weight[2] * h2
  <2>1. 1 + 1 = 2 /\ 1 \in 0 .. 6
    OBVIOUS
  <2> QED BY <1>7, <1>12, <1>13, <2>1
<1>15. PICK l3 \in 0 .. Weight[3] - 1 : ByteAt(z, 2) = b[2] /\ z = l3 + Weight[3] * h3
  <2>1. 2 + 1 = 3 /\ 2 \in 0 .. 6
    OBVIOUS
  <2> QED BY <1>6, <1>12, <1>14, <2>1
<1>16. PICK l4 \in 0 .. Weight[4] - 1 : ByteAt(z, 3) = b[3] /\ z = l4 + Weight[4] * h4
  <2>1. 3 + 1 = 4 /\ 3 \in 0 .. 6
    OBVIOUS
  <2> QED BY <1>5, <1>12, <1>15, <2>1
<1>17. PICK l5 \in 0 .. Weight[5] - 1 : ByteAt(z, 4) = b[4] /\ z = l5 + Weight[5] * h5
  <2>1. 4 + 1 = 5 /\ 4 \in 0 .. 6
    OBVIOUS
  <2> QED BY <1>4, <1>12, <1>16, <2>1
<1>18. PICK l6 \in 0 .. Weight[6] - 1 : ByteAt(z, 5) = b[5] /\ z = l6 + Weight[6] * h6
  <2>1. 5 + 1 = 6 /\ 5 \in 0 .. 6
    OBVIOUS
  <2> QED BY <1>3, <1>12, <1>17, <2>1
<1>19. PICK l7 \in 0 .. Weight[7] - 1 : ByteAt(z, 6) = b[6] /\ z = l7 + Weight[7] * b[7]
  <2>1. 6 + 1 = 7 /\ 6 \in 0 .. 6 /\ b[7] \in Nat
    BY <1>1
  <2> QED BY <1>2, <1>12, <1>18, <2>1
<1>20. ByteAt(z, 7) = b[7] /\ z \in Value
  <2>1. Weight[7] \in Nat /\ Weight[7] > 0 /\ B8 = Weight[7] * B
    BY Weights
  <2>2. 7 \in 0 .. 7 /\ b[7] \in Byte /\ b[7] \in Nat /\ b[7] \in 0 .. B - 1
    BY <1>1 DEF Byte
  <2>3. z \div Weight[7] = b[7]
    <3>1. PICK p \in Nat : p = Weight[7] /\ p > 0
      BY <2>1
    <3>2. l7 \in 0 .. p - 1 /\ z = l7 + p * b[7]
      BY <1>19, <3>1
    <3>3. z \div p = b[7]
      BY <1>11, <2>2, <3>1, <3>2, Unique
    <3> QED BY <3>1, <3>3
  <2>4. b[7] % B = b[7]
    BY <1>1, <2>2
  <2>5. l7 + Weight[7] * b[7] \in 0 .. Weight[7] * B - 1
    BY <1>1, <2>1, <2>2, Join
  <2> QED BY <1>19, <2>1, <2>3, <2>4, <2>5 DEF ByteAt, Value
<1>21. ASSUME NEW k \in 0 .. 7 PROVE ByteAt(z, k) = b[k]
  <2>1. k \in {0, 1, 2, 3, 4, 5, 6, 7}
    OBVIOUS
  <2> QED BY <1>13, <1>14, <1>15, <1>16, <1>17, <1>18, <1>19, <1>20, <2>1
<1> QED BY <1>20, <1>21

LEMMA ByteAtType ==
  ASSUME NEW k \in 0 .. 7, NEW z \in Value
  PROVE  ByteAt(z, k) \in Byte
<1>1. Weight[k] \in Nat /\ Weight[k] > 0 /\ z \in Int
  BY Weights DEF Value
<1>2. z \div Weight[k] \in Int
  BY <1>1
<1> QED BY <1>2, Widening DEF ByteAt, Byte

LEMMA JoinedType ==
  ASSUME NEW b \in [0 .. 7 -> Byte]
  PROVE  Joined(b) \in Value /\ \A k \in 0 .. 7 : ByteAt(Joined(b), k) = b[k]
  BY EightBytes DEF Joined

(* AND, OR and XOR of two registers are those of their bytes, each in its  *)
(* place and none carrying into the next (execute).                        *)
THEOREM LogicByByte ==
  ASSUME NEW f \in [Byte \X Byte -> Byte], NEW x \in Value, NEW y \in Value
  PROVE  /\ Bytewise(f, x, y) \in Value
         /\ \A k \in 0 .. 7 : ByteAt(Bytewise(f, x, y), k) = f[<<ByteAt(x, k), ByteAt(y, k)>>]
<1> DEFINE b == [k \in 0 .. 7 |-> f[<<ByteAt(x, k), ByteAt(y, k)>>]]
<1>1. b \in [0 .. 7 -> Byte]
  BY ByteAtType
<1>2. Bytewise(f, x, y) = Joined(b)
  BY DEF Bytewise
<1>3. \A k \in 0 .. 7 : b[k] = f[<<ByteAt(x, k), ByteAt(y, k)>>]
  OBVIOUS
<1> HIDE DEF b
<1> QED BY <1>1, <1>2, <1>3, JoinedType

(* Every operation leaves a register-sized value, whatever its operands.   *)
LEMMA AluType ==
  ASSUME NEW op \in AluOps, NEW x \in Value, NEW y \in Value
  PROVE  Alu(op, x, y) \in Value
<1>1. x \in Int /\ y \in Int
  BY DEF Value
<1>2. CASE op \in {"ADD", "SUB", "NOT"}
  BY <1>1, <1>2, WrapType DEF Alu
<1>3. CASE op = "MUL"
  <2>1. Signed(x) \in Int /\ Signed(y) \in Int
    BY <1>1, Widening DEF Signed
  <2>2. Signed(x) * Signed(y) \in Int
    BY <2>1
  <2> QED
    BY <1>3, <2>2, WrapType DEF Alu
<1>4. CASE op = "DIV"
  <2>1. (IF y = 0 THEN 0 ELSE x \div y) \in Int
    BY DEF Value
  <2> QED
    BY <1>4, <2>1, WrapType DEF Alu
<1>5. CASE op \in {"AND", "OR", "XOR"}
  <2>1. Bytewise(ByteAnd, x, y) \in Int /\ Bytewise(ByteOr, x, y) \in Int /\ Bytewise(ByteXor, x, y) \in Int
    BY ALUAssumption, LogicByByte, ValueInt
  <2> QED
    BY <1>5, <2>1, WrapType DEF Alu
<1>6. CASE op \in {"SHL", "SHR"}
  <2>1. x * 2^ShiftCount(y) \in Int /\ x \div 2^ShiftCount(y) \in Int
    BY <1>1, ShiftType
  <2> QED
    BY <1>6, <2>1, WrapType DEF Alu
<1> QED
  BY <1>2, <1>3, <1>4, <1>5, <1>6 DEF AluOps
-----------------------------------------------------------------------------
(* What the instruction at pc reads of the state has the width of a        *)
(* register, in every well-typed state in which it can be fetched.         *)
LEMMA OneSpan == Span(1) = B /\ Span(2) = B2 /\ Span(4) = B4 /\ Span(8) = B8
  BY DEF Span

LEMMA FetchType ==
  ASSUME MachineTypeOK, Fetchable
  PROVE  Fetched \in Instruction
<1>1. pc \in Value /\ 4 \in Widths /\ Accessible(pc, 4)
  BY DEF MachineTypeOK, Fetchable, Accessible, Widths
<1>2. Read(memory, gpu_regs, pc, 4) \in Word
  <2>1. memory \in Array /\ gpu_regs \in Ports
    BY DEF MachineTypeOK, Array, Ports
  <2>2. Read(memory, gpu_regs, pc, 4) \in 0 .. Span(4) - 1
    BY <1>1, <2>1, ReadType
  <2> QED
    BY <2>2, OneSpan DEF Word
<1> QED
  BY <1>2, MachineAssumption DEF Fetched

LEMMA OperandType ==
  ASSUME MachineTypeOK, Fetched \in Instruction
  PROVE  /\ Op \in Opcode /\ Fetched.imm \in Int
         /\ Fetched.rd \in Register /\ Fetched.rn \in Register
         /\ Rd \in Value /\ Rn \in Value /\ Rm \in Value
         /\ regs[LINK_REGISTER] \in Value /\ SP \in Value
         /\ PushSlot \in Value /\ DataAddress \in Value
         /\ NextPc \in Value /\ Successor \in Value
<1> USE DEF MachineTypeOK
<1>1. /\ Op \in Opcode /\ Fetched.imm \in Int
      /\ Fetched.rd \in Register /\ Fetched.rn \in Register /\ Fetched.rm \in Register
  BY DEF Instruction, Op
<1>2. Rd \in Value /\ Rn \in Value /\ Rm \in Value
  BY <1>1 DEF Rd, Rn, Rm
<1>3. regs[LINK_REGISTER] \in Value /\ SP \in Value
  BY MachineAssumption DEF SP
<1>4. PushSlot \in Value /\ DataAddress \in Value
  <2>1. SP - 8 \in Int /\ Rn + Fetched.imm \in Int
    BY <1>1, <1>2, <1>3, ValueInt
  <2> QED
    BY <2>1, WrapType DEF PushSlot, DataAddress
<1>5. NextPc \in Value
  BY ValueInt, WrapType DEF NextPc
<1>6. Wrap(Target) \in Value
  <2>1. Target \in Int
    BY <1>1, <1>5, ValueInt DEF Target
  <2> QED
    BY <2>1, WrapType
<1> QED
  BY <1>1, <1>2, <1>3, <1>4, <1>5, <1>6 DEF Successor

(* Of an instruction that does not fault every access is served.           *)
LEMMA Served ==
  ASSUME ~Faults, NEW a, NEW n, <<a, n>> \in DataAccesses
  PROVE  Accessible(a, n)
  BY DEF Faults

LEMMA WidthType ==
  ASSUME Op \in LoadOps \cup StoreOps
  PROVE  Width(Op) \in Widths /\ <<DataAddress, Width(Op)>> \in DataAccesses
<1>1. Width(Op) \in Widths
  BY DEF Width, Widths, LoadOps, StoreOps
<1>2. DataAccesses = {<<DataAddress, Width(Op)>>}
  <2>1. Op \notin {"PUSH", "POP"} \cup DOMAIN Fields
    BY DEF Fields, LoadOps, StoreOps
  <2> QED
    BY <2>1 DEF DataAccesses
<1> QED
  BY <1>1, <1>2
-----------------------------------------------------------------------------
(* One lemma for each kind of step.                                        *)
LEMMA AdvanceType ==
  ASSUME MachineTypeOK, Fetched \in Instruction, Advance
  PROVE  pc' \in Value /\ program_end' = program_end /\ status' = status
<1>1. Wrap(Successor + 4) \in Value
  BY OperandType, ValueInt, WrapType
<1> QED
  BY <1>1, OperandType DEF Advance

LEMMA TerminateType ==
  ASSUME MachineTypeOK, Terminate
  PROVE  MachineTypeOK'
  BY DEF MachineTypeOK, Terminate

(* Instructions that write registers, or nothing.                          *)
LEMMA RegisterStepType ==
  ASSUME MachineTypeOK, Jump \/ Arithmetic \/ Immediate \/ LoadRegister \/ Call
  PROVE  MachineTypeOK'
<1>1. Fetchable /\ ~Faults /\ Advance /\ UNCHANGED <<bus, halted, flags, interrupt, textures>>
  BY DEF Jump, Arithmetic, Immediate, LoadRegister, Call, Executing
<1>2. Fetched \in Instruction
  BY <1>1, FetchType
<1>3. regs' \in [Register -> Value]
  <2>1. CASE Jump
    BY <2>1 DEF Jump, MachineTypeOK
  <2>2. CASE Arithmetic
    <3>1. Alu(Op, Rn, Rm) \in Value
      BY <1>2, <2>2, OperandType, AluType DEF Arithmetic, Executing
    <3> QED
      BY <1>2, <2>2, <3>1, OperandType DEF Arithmetic, SetRegister, MachineTypeOK
  <2>3. CASE Immediate
    <3>1. Op \in ImmOps /\ Rd \in Int /\ Fetched.imm \in Int
      BY <1>2, <2>3, OperandType, ValueInt DEF Immediate, Executing
    <3>2. (CASE Op = "ADDI" -> Rd + Fetched.imm
             [] Op = "SUBI" -> Rd - Fetched.imm
             [] Op = "MOVI" -> Fetched.imm) \in Int
      BY <3>1 DEF ImmOps
    <3> QED
      BY <1>2, <2>3, <3>2, WrapType DEF Immediate, SetRegister, MachineTypeOK
  <2>4. CASE LoadRegister
    <3>1. Accessible(DataAddress, Width(Op)) /\ Width(Op) \in Widths
      BY <1>1, <2>4, Served, WidthType DEF LoadRegister, Executing
    <3>2. Read(memory, gpu_regs, DataAddress, Width(Op)) \in Value
      BY <1>2, <3>1, OperandType, ReadType DEF MachineTypeOK, Array, Ports
    <3> QED
      BY <1>2, <2>4, <3>2, OperandType DEF LoadRegister, SetRegister, MachineTypeOK
  <2>5. CASE Call
    BY <1>2, <2>5, OperandType DEF Call, SetRegister, MachineTypeOK
  <2> QED
    BY <2>1, <2>2, <2>3, <2>4, <2>5
<1> QED
  BY <1>1, <1>2, <1>3, AdvanceType DEF MachineTypeOK, bus, flags, interrupt

(* A write keeps both sides of the bus typed.                              *)
LEMMA StoreToType ==
  ASSUME MachineTypeOK, NEW a \in Value, NEW n \in Widths, NEW v \in 0 .. Span(n) - 1,
         StoreTo(a, n, v)
  PROVE  memory' \in [Address -> Byte] /\ gpu_regs' \in [GpuRegister -> Value]
  BY WrittenType, PortedType DEF StoreTo, MachineTypeOK, Array, Ports

LEMMA StoreRegisterType ==
  ASSUME MachineTypeOK, StoreRegister
  PROVE  MachineTypeOK'
<1>1. /\ Fetchable /\ Op \in StoreOps /\ Advance /\ StoreTo(DataAddress, Width(Op), StoredValue)
      /\ UNCHANGED <<regs, halted, flags, interrupt, textures>>
  BY DEF StoreRegister, Executing
<1>2. Fetched \in Instruction
  BY <1>1, FetchType
<1>3. StoredValue \in 0 .. Span(Width(Op)) - 1
  BY <1>1, <1>2, OperandType, ValueInt, WidthType, SpanType DEF StoredValue
<1>4. memory' \in [Address -> Byte] /\ gpu_regs' \in [GpuRegister -> Value]
  BY <1>1, <1>2, <1>3, OperandType, WidthType, StoreToType
<1> QED
  BY <1>1, <1>2, <1>4, AdvanceType DEF MachineTypeOK, flags, interrupt

LEMMA PushType ==
  ASSUME MachineTypeOK, Push
  PROVE  MachineTypeOK'
<1>1. /\ Fetchable /\ Advance /\ StoreTo(PushSlot, 8, PushedValue)
      /\ SetRegister(STACK_POINTER, PushSlot)
      /\ UNCHANGED <<halted, flags, interrupt, textures>>
  BY DEF Push, Executing
<1>2. Fetched \in Instruction
  BY <1>1, FetchType
<1>3. PushedValue \in 0 .. Span(8) - 1
  BY <1>2, OperandType, OneSpan DEF PushedValue, Value
<1>4. memory' \in [Address -> Byte] /\ gpu_regs' \in [GpuRegister -> Value]
  BY <1>1, <1>2, <1>3, OperandType, StoreToType DEF Widths
<1>5. regs' \in [Register -> Value]
  BY <1>1, <1>2, OperandType DEF SetRegister, MachineTypeOK
<1> QED
  BY <1>1, <1>2, <1>4, <1>5, AdvanceType DEF MachineTypeOK, flags, interrupt

LEMMA PopType ==
  ASSUME MachineTypeOK, Pop
  PROVE  MachineTypeOK'
<1> DEFINE top    == Read(memory, gpu_regs, SP, 8)
           popped == [regs EXCEPT ![Fetched.rd] = top]
<1>1. /\ Fetchable /\ ~Faults /\ Op = "POP" /\ Advance
      /\ regs' = [popped EXCEPT ![STACK_POINTER] = Wrap(@ + 8)]
      /\ UNCHANGED <<bus, halted, flags, interrupt, textures>>
  BY DEF Pop, Executing
<1>2. Fetched \in Instruction
  BY <1>1, FetchType
<1>3. top \in Value
  <2>1. <<SP, 8>> \in DataAccesses
    <3>1. Op \notin LoadOps \cup StoreOps /\ Op # "PUSH"
      BY <1>1 DEF LoadOps, StoreOps
    <3>2. DataAccesses = {<<SP, 8>>}
      BY <1>1, <3>1 DEF DataAccesses, Fields
    <3> QED
      BY <3>2
  <2>2. Accessible(SP, 8)
    BY <1>1, <2>1, Served
  <2> QED
    BY <1>2, <2>2, OperandType, ReadType DEF MachineTypeOK, Array, Ports, Widths
<1>4. popped \in [Register -> Value]
  BY <1>3 DEF MachineTypeOK
<1>5. Wrap(popped[STACK_POINTER] + 8) \in Value
  <2>1. popped[STACK_POINTER] \in Value
    BY <1>4, MachineAssumption
  <2> HIDE DEF popped
  <2> QED
    BY <2>1, ValueInt, WrapType
<1>6. regs' \in [Register -> Value]
  BY <1>1, <1>4, <1>5
<1> QED
  BY <1>1, <1>2, <1>6, AdvanceType DEF MachineTypeOK, bus, flags, interrupt

(* CMP and the instructions that write one member each.                    *)
LEMMA CompareType ==
  ASSUME MachineTypeOK, Compare
  PROVE  MachineTypeOK'
<1>1. Fetchable /\ Advance /\ UNCHANGED <<regs, bus, halted, interrupt, textures>>
  BY DEF Compare, Executing
<1>2. Fetched \in Instruction
  BY <1>1, FetchType
<1>3. last_cmp' \in Value /\ last_cmp_negative' \in BOOLEAN
  <2>1. ASSUME NEW v \in Value PROVE Signed(v) \in Int
    BY ValueInt, Widening DEF Signed
  <2>2. Signed(Rn) - Signed(Rm) \in Int
    BY <1>2, <2>1, OperandType
  <2>3. Wrap(Signed(Rn) - Signed(Rm)) \in Value
    BY <2>2, WrapType
  <2> DEFINE exact == Signed(Rn) - Signed(Rm) < 0
             wrapped == Signed(Wrap(Signed(Rn) - Signed(Rm))) < 0
  <2>4. exact \in BOOLEAN /\ wrapped \in BOOLEAN
    BY <2>1, <2>2, <2>3
  <2>5. last_cmp' = Wrap(Signed(Rn) - Signed(Rm)) /\ last_cmp_negative' \in {exact, wrapped}
    BY DEF Compare
  <2> QED
    BY <2>3, <2>4, <2>5
<1> QED
  BY <1>1, <1>2, <1>3, AdvanceType DEF MachineTypeOK, bus, interrupt

LEMMA RequestType ==
  ASSUME MachineTypeOK, RequestInterrupt \/ Halt
  PROVE  MachineTypeOK'
<1>1. Fetchable /\ Advance /\ UNCHANGED <<regs, bus, flags, textures>>
  BY DEF RequestInterrupt, Halt, Executing
<1>2. Fetched \in Instruction
  BY <1>1, FetchType
<1>3. /\ halted' \in BOOLEAN /\ interrupt_pending' \in BOOLEAN
      /\ interrupt_vector' \in Register
  BY <1>2, OperandType DEF RequestInterrupt, Halt, MachineTypeOK, interrupt
<1> QED
  BY <1>1, <1>2, <1>3, AdvanceType DEF MachineTypeOK, bus, flags

LEMMA PixelCountType ==
  ASSUME MachineTypeOK, Fetchable, ~Faults, Op = "GPUTEX"
  PROVE  PixelCount \in Nat
<1>1. Fetched \in Instruction
  BY FetchType
<1>2. ASSUME NEW k \in {0, 1}
      PROVE  Param(k) \in Nat
  <2>1. <<4 * k, 4>> \in Fields[Op]
    BY DEF Fields, Words
  <2>2. <<Wrap(Rd + 4 * k), 4>> \in FieldReads
    BY <2>1 DEF FieldReads
  <2>3. <<Wrap(Rd + 4 * k), 4>> \in DataAccesses
    <3>1. Op \notin LoadOps \cup StoreOps \cup {"PUSH", "POP"} /\ Op \in DOMAIN Fields
      BY DEF LoadOps, StoreOps, Fields
    <3> QED
      BY <2>2, <3>1 DEF DataAccesses
  <2>4. Wrap(Rd + 4 * k) \in Value
    BY <1>1, OperandType, ValueInt, WrapType
  <2>5. Param(k) \in Value
    BY <2>3, <2>4, Served, ReadType DEF Param, MachineTypeOK, Array, Ports, Widths
  <2> QED
    BY <2>5, ValueInt
<1> QED
  BY <1>2 DEF PixelCount

LEMMA UploadType ==
  ASSUME MachineTypeOK, UploadTexture
  PROVE  MachineTypeOK'
<1>1. /\ Fetchable /\ ~Faults /\ Op = "GPUTEX" /\ Advance
      /\ textures' = Append(textures, PixelCount)
      /\ SetRegister(Fetched.rn, Wrap(Len(textures) + 1))
      /\ UNCHANGED <<bus, halted, flags, interrupt>>
  BY DEF UploadTexture, Executing
<1>2. Fetched \in Instruction
  BY <1>1, FetchType
<1>3. PixelCount \in Nat
  BY <1>1, PixelCountType
<1>4. textures' \in Seq(Nat)
  BY <1>1, <1>3 DEF MachineTypeOK
<1>5. regs' \in [Register -> Value]
  <2>1. Wrap(Len(textures) + 1) \in Value
    BY WrapType DEF MachineTypeOK
  <2> QED
    BY <1>1, <2>1 DEF SetRegister, MachineTypeOK
<1> QED
  BY <1>1, <1>2, <1>4, <1>5, AdvanceType DEF MachineTypeOK, bus, flags, interrupt

LEMMA ExecuteType ==
  ASSUME MachineTypeOK, Execute
  PROVE  MachineTypeOK'
  BY RegisterStepType, StoreRegisterType, PushType, PopType, CompareType, RequestType,
     UploadType DEF Execute
-----------------------------------------------------------------------------
(* The vector of every register number lies in memory below the window.    *)
LEMMA VectorInMemory ==
  ASSUME MachineTypeOK
  PROVE  /\ VectorAddress \in Value /\ VectorAddress + 8 <= MmioBase
         /\ Accessible(VectorAddress, 8) /\ ~Mapped(VectorAddress, 8)
<1>1. interrupt_vector \in Register /\ interrupt_vector \in Nat
  BY MachineAssumption DEF MachineTypeOK, Register
<1>2. interrupt_vector * VectorStride \in Nat
  BY <1>1, MachineAssumption
<1>3. VectorAddress \in Nat /\ VectorAddress + 8 <= MmioBase
  BY <1>1, <1>2, MachineAssumption DEF VectorAddress
<1>4. MmioBase <= MemSize /\ MemSize + 8 <= B8 /\ B8 \in Nat /\ MmioBase \in Nat /\ MemSize \in Nat
  BY BusAssumption, MemoryAssumption, Widening
<1>5. VectorAddress \in Value /\ VectorAddress + 8 \in Value
  BY <1>3, <1>4 DEF Value
<1>6. Wrap(VectorAddress + 8) = VectorAddress + 8
  BY <1>5, WrapSmall
<1> QED
  BY <1>3, <1>4, <1>5, <1>6 DEF Accessible, Mapped

LEMMA EnterType ==
  ASSUME MachineTypeOK, EnterInterrupt
  PROVE  MachineTypeOK'
<1>1. CASE Terminate
  BY <1>1, TerminateType
<1>2. CASE ~Terminate
  <2>1. /\ interrupt_pending' = FALSE
        /\ pc' = Read(memory, gpu_regs, VectorAddress, 8)
        /\ regs' = [regs EXCEPT ![LINK_REGISTER] = pc, ![STACK_POINTER] = PushSlot]
        /\ StoreTo(PushSlot, 8, pc)
        /\ UNCHANGED <<program_end, halted, flags, interrupt_vector, textures, status>>
    BY <1>2 DEF EnterInterrupt
  <2>2. pc \in Value /\ pc \in 0 .. Span(8) - 1
    BY OneSpan DEF MachineTypeOK, Value
  <2>3. PushSlot \in Value
    <3>1. SP \in Value
      BY MachineAssumption DEF SP, MachineTypeOK
    <3> QED
      BY <3>1, ValueInt, WrapType DEF PushSlot
  <2>4. pc' \in Value
    BY <2>1, VectorInMemory, ReadType DEF MachineTypeOK, Array, Ports, Widths
  <2>5. memory' \in [Address -> Byte] /\ gpu_regs' \in [GpuRegister -> Value]
    BY <2>1, <2>2, <2>3, StoreToType DEF Widths
  <2>6. regs' \in [Register -> Value]
    BY <2>1, <2>2, <2>3 DEF MachineTypeOK
  <2> QED
    BY <2>1, <2>4, <2>5, <2>6 DEF MachineTypeOK, flags
<1> QED
  BY <1>1, <1>2

(* Loading: a program is words, a patch is bytes.                          *)
LEMMA LoadProgramType ==
  ASSUME MachineTypeOK, NEW code \in Programs, LoadProgram(code)
  PROVE  MachineTypeOK'
<1>1. CASE Terminate
  BY <1>1, TerminateType
<1>2. CASE ~Terminate
  <2>1. /\ ~LoadThrows(code)
        /\ memory' = [a \in Address |->
                         IF Covers(code, a) /\ ~Mapped(4 * (a \div 4), 4)
                         THEN ByteOf(WordAt(code, a), a % 4) ELSE 0]
        /\ gpu_regs' = [o \in GpuRegister |->
                           IF Covers(code, MmioBase + o)
                           THEN WordAt(code, MmioBase + o) ELSE gpu_regs[o]]
        /\ pc' = 0 /\ program_end' = 4 * Len(code) /\ halted' = FALSE
        /\ status' = "loading"
        /\ UNCHANGED <<regs, last_cmp, last_cmp_negative, interrupt_pending,
                       interrupt_vector, textures>>
    BY <1>2 DEF LoadProgram
  <2>2. Len(code) \in Nat /\ \A k \in 1 .. Len(code) : code[k] \in Word
    BY MachineAssumption
  <2>3. ASSUME NEW a \in Nat, Covers(code, a)
        PROVE  WordAt(code, a) \in Word
    BY <2>2, <2>3 DEF WordAt, Covers
  <2>4. 0 \in Byte /\ 0 \in Value /\ Word \subseteq Value
    BY Widening DEF Byte, Value, Word
  <2>5. memory' \in [Address -> Byte]
    <3>1. ASSUME NEW a \in Address, Covers(code, a)
          PROVE  ByteOf(WordAt(code, a), a % 4) \in Byte
      <4>1. a \in Nat /\ a % 4 \in 0 .. 3
        BY MemoryAssumption DEF Address
      <4> QED
        BY <3>1, <4>1, <2>3, ByteOfType
    <3> QED
      BY <2>1, <2>4, <3>1
  <2>6. gpu_regs' \in [GpuRegister -> Value]
    <3>1. \A o \in GpuRegister : MmioBase + o \in Nat
      BY BusAssumption DEF GpuRegister
    <3> QED
      BY <2>1, <2>3, <2>4, <3>1 DEF MachineTypeOK
  <2>7. program_end' \in 0 .. MemSize
    BY <2>1, <2>2, MemoryAssumption DEF LoadThrows
  <2> QED
    BY <2>1, <2>4, <2>5, <2>6, <2>7 DEF MachineTypeOK
<1> QED
  BY <1>1, <1>2

LEMMA LoadDataType ==
  ASSUME MachineTypeOK, NEW p \in Patches, LoadData(p)
  PROVE  MachineTypeOK'
<1>1. CASE Terminate
  BY <1>1, TerminateType
<1>2. CASE ~Terminate
  <2>1. /\ memory' = [a \in Address |-> Overlaid(p, a, memory[a])]
        /\ regs' = [r \in Register |->
             Joined([j \in 0 .. 7 |-> Overlaid(p, PlaceOf(r, j), ByteAt(regs[r], j))])]
        /\ UNCHANGED <<gpu_regs, pc, program_end, halted, last_cmp,
                       last_cmp_negative, interrupt_pending, interrupt_vector,
                       textures, status>>
    BY <1>2 DEF LoadData
  <2>2. /\ Len(p.bytes) \in Nat /\ StartOf(p) \in Int
        /\ \A k \in 1 .. Len(p.bytes) : p.bytes[k] \in Byte
    <3>1. p.address \in Int /\ Len(p.bytes) \in Nat
      BY MachineAssumption, ValueInt DEF Value
    <3>2. EndOf(p) \in Int
      BY <3>1, WrapType, ValueInt DEF EndOf
    <3> QED
      BY <3>1, <3>2, MachineAssumption DEF StartOf
  <2>3. ASSUME NEW place \in Int, NEW old \in Byte
        PROVE  Overlaid(p, place, old) \in Byte
    <3>1. ASSUME place - StartOf(p) \in 0 .. Len(p.bytes) - 1
          PROVE  place - StartOf(p) + 1 \in 1 .. Len(p.bytes)
      BY <2>2, <3>1
    <3> QED
      BY <2>2, <3>1 DEF Overlaid
  <2>4. memory' \in [Address -> Byte]
    <3>1. \A a \in Address : a \in Int
      BY MemoryAssumption DEF Address
    <3> QED
      BY <2>1, <2>3, <3>1 DEF MachineTypeOK
  <2>5. regs' \in [Register -> Value]
    <3>1. ASSUME NEW r \in Register
          PROVE  Joined([j \in 0 .. 7 |-> Overlaid(p, PlaceOf(r, j), ByteAt(regs[r], j))]) \in Value
      <4>1. ASSUME NEW j \in 0 .. 7
            PROVE  Overlaid(p, PlaceOf(r, j), ByteAt(regs[r], j)) \in Byte
        <5>1. PlaceOf(r, j) \in Int
          BY MachineAssumption DEF PlaceOf, Register
        <5> QED
          BY <2>3, <5>1, ByteAtType DEF MachineTypeOK
      <4> QED
        BY <4>1, JoinedType
    <3> QED
      BY <2>1, <3>1
  <2> QED
    BY <2>1, <2>4, <2>5 DEF MachineTypeOK
<1> QED
  BY <1>1, <1>2
-----------------------------------------------------------------------------
LEMMA MachineInitType == MachineInit => MachineTypeOK
<1>1. 0 \in Value /\ 0 \in Byte /\ 0 \in 0 .. MemSize /\ MemSize - 16 \in Value
  BY MemoryAssumption, BusAssumption, Widening DEF Value, Byte
<1>2. 0 \in Register
  BY MachineAssumption
<1>3. <<>> \in Seq(Nat)
  OBVIOUS
<1> QED
  BY <1>1, <1>2, <1>3 DEF MachineInit, MachineTypeOK

LEMMA MachineStepType == MachineTypeOK /\ [MachineNext]_machineVars => MachineTypeOK'
<1> SUFFICES ASSUME MachineTypeOK, [MachineNext]_machineVars
             PROVE  MachineTypeOK'
  OBVIOUS
<1>1. CASE \E code \in Programs : LoadProgram(code)
  BY <1>1, LoadProgramType
<1>2. CASE \E p \in Patches : LoadData(p)
  BY <1>2, LoadDataType
<1>3. CASE FinishLoading
  BY <1>3 DEF FinishLoading, MachineTypeOK
<1>4. CASE EnterInterrupt
  BY <1>4, EnterType
<1>5. CASE Execute
  BY <1>5, ExecuteType
<1>6. CASE Throw \/ Perish
  BY <1>6, TerminateType DEF Throw, Perish
<1>7. CASE UNCHANGED machineVars
  BY <1>7 DEF machineVars, MachineTypeOK
<1> QED
  BY <1>1, <1>2, <1>3, <1>4, <1>5, <1>6, <1>7 DEF MachineNext

(* The processor keeps its types whatever program it runs and whatever it  *)
(* is made to load.                                                        *)
THEOREM MachineTypeCorrect == MachineSpec => []MachineTypeOK
  BY MachineInitType, MachineStepType, PTL DEF MachineSpec
-----------------------------------------------------------------------------
(* What is added in multiples of p does not count.                         *)
LEMMA Modulo ==
  ASSUME NEW p \in Nat, p > 0, NEW a \in Int, NEW c \in Int, NEW k \in Int, c = a + p * k
  PROVE  c % p = a % p
<1>1. PICK q \in Int, r \in 0 .. p - 1 : a = p * q + r /\ r = a % p
  <2>1. a % p \in 0 .. p - 1 /\ a \div p \in Int /\ a = p * (a \div p) + (a % p)
    OBVIOUS
  <2> QED BY <2>1
<1>2. PICK t \in Int, s \in 0 .. p - 1 : c = p * t + s /\ s = c % p
  <2>1. c % p \in 0 .. p - 1 /\ c \div p \in Int /\ c = p * (c \div p) + (c % p)
    OBVIOUS
  <2> QED BY <2>1
<1>3. PICK d \in Int : d = t - (q + k)
  OBVIOUS
<1>4. p * d = r - s
  <2>1. p * d = p * t - (p * q + p * k)
    BY <1>3
  <2> QED BY <1>1, <1>2, <2>1
<1>5. d = 0
  <2>1. ~(d >= 1)
    <3> SUFFICES ASSUME d >= 1 PROVE FALSE
      OBVIOUS
    <3>1. p * d >= p
      OBVIOUS
    <3> QED BY <1>4, <3>1
  <2>2. ~(d <= -1)
    <3> SUFFICES ASSUME d <= -1 PROVE FALSE
      OBVIOUS
    <3>1. p * d <= -p
      <4>1. PICK e \in Nat : e = -d /\ e >= 1
        OBVIOUS
      <4>2. p * e >= p /\ p * d = -(p * e)
        BY <4>1
      <4> QED BY <4>2
    <3> QED BY <1>4, <3>1
  <2> QED BY <2>1, <2>2
<1>6. r = s
  BY <1>4, <1>5
<1> QED BY <1>1, <1>2, <1>6

(* MUL multiplies uint64_t values and the low 64 bits of the product are   *)
(* kept: those are the same as of the signed product of Alu (execute).     *)
THEOREM ProductUnsigned ==
  ASSUME NEW x \in Value, NEW y \in Value
  PROVE  Alu("MUL", x, y) = Wrap(x * y)
<1>1. B8 \in Nat /\ B8 > 0 /\ x \in Int /\ y \in Int
  BY Widening DEF Value
<1>2. PICK s \in {0, 1} : Signed(x) = x - s * B8
  BY <1>1 DEF Signed
<1>3. PICK t \in {0, 1} : Signed(y) = y - t * B8
  BY <1>1 DEF Signed
<1>4. PICK k \in Int : k = s * t * B8 - (s * y + t * x)
  BY <1>1
<1>5. Signed(x) * Signed(y) = x * y + B8 * k
  <2>1. CASE s = 0 /\ t = 0
    BY <1>1, <1>2, <1>3, <1>4, <2>1
  <2>2. CASE s = 0 /\ t = 1
    <3>1. Signed(x) = x /\ Signed(y) = y - B8 /\ k = -x
      BY <1>1, <1>2, <1>3, <1>4, <2>2
    <3>2. x * (y - B8) = x * y + B8 * (-x)
      BY <1>1
    <3> QED BY <3>1, <3>2
  <2>3. CASE s = 1 /\ t = 0
    <3>1. Signed(x) = x - B8 /\ Signed(y) = y /\ k = -y
      BY <1>1, <1>2, <1>3, <1>4, <2>3
    <3>2. (x - B8) * y = x * y + B8 * (-y)
      BY <1>1
    <3> QED BY <3>1, <3>2
  <2>4. CASE s = 1 /\ t = 1
    <3>1. Signed(x) = x - B8 /\ Signed(y) = y - B8 /\ k = B8 - (y + x)
      BY <1>1, <1>2, <1>3, <1>4, <2>4
    <3>2. (x - B8) * (y - B8) = x * y + B8 * (B8 - (y + x))
      BY <1>1
    <3> QED BY <3>1, <3>2
  <2> QED BY <2>1, <2>2, <2>3, <2>4
<1>6. x * y \in Int /\ Signed(x) * Signed(y) \in Int
  BY <1>1, <1>2, <1>3
<1>7. Wrap(Signed(x) * Signed(y)) = Wrap(x * y)
  BY <1>1, <1>4, <1>5, <1>6, Modulo DEF Wrap
<1> QED BY <1>7 DEF Alu
=============================================================================
