----------------------------- MODULE BusProofs ------------------------------
(***************************************************************************)
(* Facts about memory accesses for every size of memory, every window and  *)
(* every width of a byte.                                                  *)
(***************************************************************************)
EXTENDS Bus, TLAPS

(* The products B2, B4 and B8 are numbers, each at least four times as     *)
(* large as the one before.                                                *)
LEMMA Product == ASSUME NEW x \in Nat, x >= 2 PROVE x * x \in Nat /\ x * x >= 2 * x
  OBVIOUS

LEMMA Widening ==
  /\ B \in Nat /\ B2 \in Nat /\ B4 \in Nat /\ B8 \in Nat
  /\ B >= 2 /\ B2 >= 2 * B /\ B4 >= 2 * B2 /\ B8 >= 2 * B4
<1>1. B \in Nat /\ B >= 2
  BY MemoryAssumption
<1>2. B2 \in Nat /\ B2 >= 2 * B
  BY <1>1, Product DEF B2
<1>3. B4 \in Nat /\ B4 >= 2 * B2
  BY <1>1, <1>2, Product DEF B4
<1>4. B8 \in Nat /\ B8 >= 2 * B4
  BY <1>1, <1>2, <1>3, Product DEF B8
<1> QED
  BY <1>1, <1>2, <1>3, <1>4

LEMMA WrapType == ASSUME NEW x \in Int PROVE Wrap(x) \in Value
  BY Widening DEF Wrap, Value

LEMMA ValueInt == ASSUME NEW v \in Value PROVE v \in Int /\ v >= 0 /\ v < B8
  BY Widening DEF Value

LEMMA WrapSmall == ASSUME NEW x \in Value PROVE Wrap(x) = x
  BY Widening DEF Wrap, Value

(* An access that the bounds checks accept lies in the window or in the    *)
(* array: an address that wraps is always claimed by the window.           *)
LEMMA AccessibleInMemory ==
  ASSUME NEW a \in Value, NEW n \in Widths, Accessible(a, n)
  PROVE  Mapped(a, n) \/ a + n <= MemSize
<1> USE BusAssumption, MemoryAssumption, Widening DEF Accessible, Mapped, Value, Widths, Wrap
<1>1. CASE a + n < B8
  <2>1. (a + n) % B8 = a + n
    BY <1>1
  <2> QED
    BY <2>1
<1>2. CASE a + n >= B8
  <2>1. (a + n) % B8 = a + n - B8
    BY <1>2
  <2> QED
    BY <1>2, <2>1
<1> QED
  BY <1>1, <1>2
-----------------------------------------------------------------------------
(* Digits: a number below p * q is its remainder and quotient by p.        *)
LEMMA Join ==
  ASSUME NEW p \in Nat, NEW q \in Nat, NEW x \in 0 .. p - 1, NEW y \in 0 .. q - 1
  PROVE  x + p * y \in 0 .. p * q - 1
<1>1. y + 1 <= q /\ p * (y + 1) <= p * q
  OBVIOUS
<1> QED
  BY <1>1

LEMMA Split ==
  ASSUME NEW p \in Nat, NEW q \in Nat, p > 0, NEW v \in 0 .. p * q - 1
  PROVE  /\ v % p \in 0 .. p - 1
         /\ v \div p \in 0 .. q - 1
         /\ (v % p) + p * (v \div p) = v
<1>1. v % p \in 0 .. p - 1 /\ v \div p \in Nat /\ v = p * (v \div p) + (v % p)
  OBVIOUS
<1>2. v \div p < q
  <2>1. SUFFICES ASSUME v \div p >= q PROVE FALSE
    BY <1>1
  <2>2. p * (v \div p) >= p * q
    BY <1>1, <2>1
  <2> QED
    BY <1>1, <2>2
<1> QED
  BY <1>1, <1>2
-----------------------------------------------------------------------------
Array == [Address -> Byte]

(* An access inside the array returns a number of its width.               *)
LEMMA LoadType ==
  ASSUME NEW m \in Array, NEW a \in Nat, NEW n \in Widths, a + n <= MemSize
  PROVE  Load(m, a, n) \in 0 .. Span(n) - 1
<1>1. ASSUME NEW b \in Nat, b + 1 <= MemSize
      PROVE  Load1(m, b) \in 0 .. B - 1
  BY <1>1, MemoryAssumption DEF Load1, Array, Address, Byte
<1>2. ASSUME NEW b \in Nat, b + 2 <= MemSize
      PROVE  Load2(m, b) \in 0 .. B2 - 1
  <2>1. Load1(m, b) \in 0 .. B - 1 /\ Load1(m, b + 1) \in 0 .. B - 1
    BY <1>2, <1>1, MemoryAssumption
  <2> QED
    BY <2>1, Join, Widening DEF Load2, B2
<1>4. ASSUME NEW b \in Nat, b + 4 <= MemSize
      PROVE  Load4(m, b) \in 0 .. B4 - 1
  <2>1. Load2(m, b) \in 0 .. B2 - 1 /\ Load2(m, b + 2) \in 0 .. B2 - 1
    BY <1>4, <1>2, MemoryAssumption
  <2> QED
    BY <2>1, Join, Widening DEF Load4, B4
<1>8. ASSUME NEW b \in Nat, b + 8 <= MemSize
      PROVE  Load8(m, b) \in 0 .. B8 - 1
  <2>1. Load4(m, b) \in 0 .. B4 - 1 /\ Load4(m, b + 4) \in 0 .. B4 - 1
    BY <1>8, <1>4, MemoryAssumption
  <2> QED
    BY <2>1, Join, Widening DEF Load8, B8
<1> QED
  BY <1>1, <1>2, <1>4, <1>8 DEF Load, Span, Widths

(* A write leaves an array of bytes, and changes no byte but its own.      *)
LEMMA Store1Type ==
  ASSUME NEW m \in Array, NEW a \in Int, NEW v \in 0 .. B - 1
  PROVE  Store1(m, a, v) \in Array
  BY DEF Store1, Array, Byte

LEMMA Store2Type ==
  ASSUME NEW m \in Array, NEW a \in Int, NEW v \in 0 .. B2 - 1
  PROVE  Store2(m, a, v) \in Array
<1>1. v % B \in 0 .. B - 1 /\ v \div B \in 0 .. B - 1
  BY Split, Widening DEF B2
<1> QED
  BY <1>1, Store1Type DEF Store2

LEMMA Store4Type ==
  ASSUME NEW m \in Array, NEW a \in Int, NEW v \in 0 .. B4 - 1
  PROVE  Store4(m, a, v) \in Array
<1>1. v % B2 \in 0 .. B2 - 1 /\ v \div B2 \in 0 .. B2 - 1
  BY Split, Widening DEF B4
<1> QED
  BY <1>1, Store2Type DEF Store4

LEMMA Store8Type ==
  ASSUME NEW m \in Array, NEW a \in Int, NEW v \in 0 .. B8 - 1
  PROVE  Store8(m, a, v) \in Array
<1>1. v % B4 \in 0 .. B4 - 1 /\ v \div B4 \in 0 .. B4 - 1
  BY Split, Widening DEF B8
<1> QED
  BY <1>1, Store4Type DEF Store8

LEMMA StoreType ==
  ASSUME NEW m \in Array, NEW a \in Int, NEW n \in Widths, NEW v \in 0 .. Span(n) - 1
  PROVE  Store(m, a, n, v) \in Array
<1>1. CASE n = 1
  BY <1>1, Store1Type DEF Store, Span
<1>2. CASE n = 2
  BY <1>2, Store2Type DEF Store, Span
<1>4. CASE n = 4
  BY <1>4, Store4Type DEF Store, Span
<1>8. CASE n = 8
  BY <1>8, Store8Type DEF Store, Span
<1> QED
  BY <1>1, <1>2, <1>4, <1>8 DEF Widths
-----------------------------------------------------------------------------
LEMMA Store1Local ==
  ASSUME NEW m \in Array, NEW a \in Int, NEW v, NEW b \in Address, b # a
  PROVE  Store1(m, a, v)[b] = m[b]
  BY DEF Store1, Array

LEMMA Store2Local ==
  ASSUME NEW m \in Array, NEW a \in Int, NEW v \in 0 .. B2 - 1,
         NEW b \in Address, b \notin a .. a + 1
  PROVE  Store2(m, a, v)[b] = m[b]
<1>1. v % B \in 0 .. B - 1
  BY Split, Widening DEF B2
<1>2. Store1(m, a, v % B) \in Array
  BY <1>1, Store1Type
<1>3. b \in Int /\ b # a /\ b # a + 1
  BY MemoryAssumption DEF Address
<1> QED
  BY <1>2, <1>3, Store1Local DEF Store2

LEMMA Store4Local ==
  ASSUME NEW m \in Array, NEW a \in Int, NEW v \in 0 .. B4 - 1,
         NEW b \in Address, b \notin a .. a + 3
  PROVE  Store4(m, a, v)[b] = m[b]
<1>1. v % B2 \in 0 .. B2 - 1 /\ v \div B2 \in 0 .. B2 - 1
  BY Split, Widening DEF B4
<1>2. Store2(m, a, v % B2) \in Array
  BY <1>1, Store2Type
<1>3. b \notin a .. a + 1 /\ b \notin (a + 2) .. (a + 2) + 1
  BY MemoryAssumption DEF Address
<1> QED
  BY <1>1, <1>2, <1>3, Store2Local DEF Store4

LEMMA Store8Local ==
  ASSUME NEW m \in Array, NEW a \in Int, NEW v \in 0 .. B8 - 1,
         NEW b \in Address, b \notin a .. a + 7
  PROVE  Store8(m, a, v)[b] = m[b]
<1>1. v % B4 \in 0 .. B4 - 1 /\ v \div B4 \in 0 .. B4 - 1
  BY Split, Widening DEF B8
<1>2. Store4(m, a, v % B4) \in Array
  BY <1>1, Store4Type
<1>3. b \notin a .. a + 3 /\ b \notin (a + 4) .. (a + 4) + 3
  BY MemoryAssumption DEF Address
<1> QED
  BY <1>1, <1>2, <1>3, Store4Local DEF Store8

LEMMA StoreLocal ==
  ASSUME NEW m \in Array, NEW a \in Int, NEW n \in Widths, NEW v \in 0 .. Span(n) - 1,
         NEW b \in Address, b \notin a .. a + n - 1
  PROVE  Store(m, a, n, v)[b] = m[b]
<1>1. CASE n = 1
  BY <1>1, Store1Local, MemoryAssumption DEF Store, Address
<1>2. CASE n = 2
  BY <1>2, Store2Local DEF Store, Span
<1>4. CASE n = 4
  BY <1>4, Store4Local DEF Store, Span
<1>8. CASE n = 8
  BY <1>8, Store8Local DEF Store, Span
<1> QED
  BY <1>1, <1>2, <1>4, <1>8 DEF Widths
-----------------------------------------------------------------------------
(* What is stored is loaded back, whatever the bytes were before.  A load  *)
(* looks at its own bytes only, so the upper half, stored last, does not   *)
(* disturb the lower one.                                                  *)
LEMMA LoadStore1 ==
  ASSUME NEW m \in Array, NEW a \in Address, NEW v
  PROVE  Load1(Store1(m, a, v), a) = v
  BY DEF Load1, Store1, Array

LEMMA LoadStore2 ==
  ASSUME NEW m \in Array, NEW a \in Nat, a + 2 <= MemSize, NEW v \in 0 .. B2 - 1
  PROVE  Load2(Store2(m, a, v), a) = v
<1> DEFINE low  == Store1(m, a, v % B)
           both == Store1(low, a + 1, v \div B)
<1>1. v % B \in 0 .. B - 1 /\ v \div B \in 0 .. B - 1 /\ (v % B) + B * (v \div B) = v
  BY Split, Widening DEF B2
<1>2. a \in Address /\ a + 1 \in Address /\ a # a + 1
  BY MemoryAssumption DEF Address
<1>3. low \in Array
  BY <1>1, Store1Type
<1>4. Load1(both, a + 1) = v \div B
  BY <1>2, <1>3, LoadStore1
<1>5. Load1(both, a) = v % B
  <2>1. both[a] = low[a]
    BY <1>2, <1>3, Store1Local
  <2>2. Load1(low, a) = v % B
    BY <1>2, LoadStore1
  <2> QED
    BY <2>1, <2>2 DEF Load1
<1> QED
  BY <1>1, <1>4, <1>5 DEF Load2, Store2

(* A load depends on its own bytes only.                                   *)
LEMMA LoadLocal ==
  ASSUME NEW f, NEW g, NEW a \in Int, NEW n \in Widths,
         \A b \in a .. a + n - 1 : f[b] = g[b]
  PROVE  Load(f, a, n) = Load(g, a, n)
<1>1. ASSUME NEW b \in Int, f[b] = g[b]
      PROVE  Load1(f, b) = Load1(g, b)
  BY <1>1 DEF Load1
<1>2. ASSUME NEW b \in Int, \A c \in b .. b + 1 : f[c] = g[c]
      PROVE  Load2(f, b) = Load2(g, b)
  BY <1>1, <1>2 DEF Load2
<1>4. ASSUME NEW b \in Int, \A c \in b .. b + 3 : f[c] = g[c]
      PROVE  Load4(f, b) = Load4(g, b)
  <2>1. Load2(f, b) = Load2(g, b) /\ Load2(f, b + 2) = Load2(g, b + 2)
    BY <1>2, <1>4
  <2> QED
    BY <2>1 DEF Load4
<1>8. ASSUME NEW b \in Int, \A c \in b .. b + 7 : f[c] = g[c]
      PROVE  Load8(f, b) = Load8(g, b)
  <2>1. Load4(f, b) = Load4(g, b) /\ Load4(f, b + 4) = Load4(g, b + 4)
    BY <1>4, <1>8
  <2> QED
    BY <2>1 DEF Load8
<1> QED
  BY <1>1, <1>2, <1>4, <1>8 DEF Load, Widths

LEMMA LoadStore4 ==
  ASSUME NEW m \in Array, NEW a \in Nat, a + 4 <= MemSize, NEW v \in 0 .. B4 - 1
  PROVE  Load4(Store4(m, a, v), a) = v
<1> DEFINE low  == Store2(m, a, v % B2)
           both == Store2(low, a + 2, v \div B2)
<1>1. v % B2 \in 0 .. B2 - 1 /\ v \div B2 \in 0 .. B2 - 1 /\ (v % B2) + B2 * (v \div B2) = v
  BY Split, Widening DEF B4
<1>2. low \in Array
  BY <1>1, Store2Type
<1>3. Load2(both, a + 2) = v \div B2
  BY <1>1, <1>2, LoadStore2
<1>4. Load2(both, a) = v % B2
  <2>1. \A b \in a .. a + 2 - 1 : both[b] = low[b]
    BY <1>1, <1>2, Store2Local, MemoryAssumption DEF Address
  <2>2. Load2(both, a) = Load2(low, a)
    BY <2>1, LoadLocal DEF Load, Widths
  <2>3. Load2(low, a) = v % B2
    BY <1>1, LoadStore2, MemoryAssumption
  <2> QED
    BY <2>2, <2>3
<1> QED
  BY <1>1, <1>3, <1>4 DEF Load4, Store4

LEMMA LoadStore8 ==
  ASSUME NEW m \in Array, NEW a \in Nat, a + 8 <= MemSize, NEW v \in 0 .. B8 - 1
  PROVE  Load8(Store8(m, a, v), a) = v
<1> DEFINE low  == Store4(m, a, v % B4)
           both == Store4(low, a + 4, v \div B4)
<1>1. v % B4 \in 0 .. B4 - 1 /\ v \div B4 \in 0 .. B4 - 1 /\ (v % B4) + B4 * (v \div B4) = v
  BY Split, Widening DEF B8
<1>2. low \in Array
  BY <1>1, Store4Type
<1>3. Load4(both, a + 4) = v \div B4
  BY <1>1, <1>2, LoadStore4
<1>4. Load4(both, a) = v % B4
  <2>1. \A b \in a .. a + 4 - 1 : both[b] = low[b]
    BY <1>1, <1>2, Store4Local, MemoryAssumption DEF Address
  <2>2. Load4(both, a) = Load4(low, a)
    BY <2>1, LoadLocal DEF Load, Widths
  <2>3. Load4(low, a) = v % B4
    BY <1>1, LoadStore4, MemoryAssumption
  <2> QED
    BY <2>2, <2>3
<1> QED
  BY <1>1, <1>3, <1>4 DEF Load8, Store8

(* Little-endian accesses of any width round-trip.                         *)
THEOREM LoadStore ==
  ASSUME NEW m \in Array, NEW a \in Nat, NEW n \in Widths, a + n <= MemSize,
         NEW v \in 0 .. Span(n) - 1
  PROVE  Load(Store(m, a, n, v), a, n) = v
<1>1. CASE n = 1
  BY <1>1, LoadStore1, MemoryAssumption DEF Load, Store, Address
<1>2. CASE n = 2
  BY <1>2, LoadStore2 DEF Load, Store, Span
<1>4. CASE n = 4
  BY <1>4, LoadStore4 DEF Load, Store, Span
<1>8. CASE n = 8
  BY <1>8, LoadStore8 DEF Load, Store, Span
<1> QED
  BY <1>1, <1>2, <1>4, <1>8 DEF Widths
-----------------------------------------------------------------------------
(* The types of the accesses an address decides on.                        *)
Ports == [GpuRegister -> Value]

LEMMA SpanType ==
  ASSUME NEW n \in Widths
  PROVE  Span(n) \in Nat /\ Span(n) >= 2 /\ Span(n) <= B8
  BY Widening DEF Widths, Span

LEMMA ReadType ==
  ASSUME NEW m \in Array, NEW g \in Ports, NEW a \in Value, NEW n \in Widths,
         Accessible(a, n)
  PROVE  Read(m, g, a, n) \in 0 .. Span(n) - 1 /\ Read(m, g, a, n) \in Value
<1>1. Read(m, g, a, n) \in 0 .. Span(n) - 1
  <2>1. CASE Mapped(a, n)
    <3>1. Port(g, a - MmioBase) \in Int
      BY Widening DEF Port, Ports, Value
    <3> QED
      BY <2>1, <3>1, SpanType DEF Read
  <2>2. CASE ~Mapped(a, n)
    <3>1. a \in Nat /\ a + n <= MemSize
      BY <2>2, AccessibleInMemory, Widening DEF Value
    <3> QED
      BY <2>2, <3>1, LoadType DEF Read
  <2> QED
    BY <2>1, <2>2
<1> QED
  BY <1>1, SpanType, Widening DEF Value

LEMMA WrittenType ==
  ASSUME NEW m \in Array, NEW a \in Value, NEW n \in Widths, NEW v \in 0 .. Span(n) - 1
  PROVE  Written(m, a, n, v) \in Array
  BY StoreType, Widening DEF Written, Value

LEMMA PortedType ==
  ASSUME NEW g \in Ports, NEW a \in Value, NEW n \in Widths, NEW v \in 0 .. Span(n) - 1
  PROVE  Ported(g, a, n, v) \in Ports
<1>1. v \in Value
  BY SpanType, Widening DEF Value
<1> QED
  BY <1>1 DEF Ported, Ports

LEMMA ByteOfType ==
  ASSUME NEW w \in Word, NEW k \in 0 .. 3
  PROVE  ByteOf(w, k) \in Byte
<1>1. ASSUME NEW x \in Int PROVE x % B \in Byte
  BY Widening DEF Byte
<1>2. w \in Int /\ w \div B \in Int /\ w \div B2 \in Int /\ w \div (B2 * B) \in Int
  <2>1. B2 * B \in Nat /\ B2 * B > 0
    BY Widening
  <2> QED
    BY <2>1, Widening DEF Word
<1> QED
  BY <1>1, <1>2 DEF ByteOf
=============================================================================
