------------------------------- MODULE Memory -------------------------------
(***************************************************************************)
(* The byte array behind the CPU and the little-endian accesses of 1, 2, 4 *)
(* and 8 bytes that cpu.cpp makes on it (read_u8 .. write_u64).            *)
(*                                                                         *)
(* The code's byte has 256 values and its 64-bit word 256^8; TLC counts in *)
(* 32 bits.  The number of values of a byte is therefore the constant B:   *)
(* every width below is derived from it, so the wrap-around of a size_t is *)
(* that of an 8-byte number whatever B is.                                 *)
(***************************************************************************)
EXTENDS Integers

CONSTANTS
  B,       (* values of a byte: 256 in the code, 4 in the model runs       *)
  MemSize  (* CPU::MEMORY_SIZE in bytes: 2 MiB in the code                 *)

ASSUME MemoryAssumption ==
  /\ B \in Nat /\ B >= 2
  /\ MemSize \in Nat /\ MemSize >= 16

B2 == B * B
B4 == B2 * B2
B8 == B4 * B4

Byte    == 0 .. B - 1
Half    == 0 .. B2 - 1
Word    == 0 .. B4 - 1
Value   == 0 .. B8 - 1           \* uint64_t, and size_t
Address == 0 .. MemSize - 1

(* 64-bit arithmetic is modulo 2^64.                                       *)
Wrap(x) == x % B8

(* A uint64_t read as an int64_t.                                          *)
Signed(v) == IF 2 * v >= B8 THEN v - B8 ELSE v

(* The widths of an access and the values that fit in one.                 *)
Widths == {1, 2, 4, 8}
Span(n) == CASE n = 1 -> B [] n = 2 -> B2 [] n = 4 -> B4 [] n = 8 -> B8

(* read_u16, read_u32 and read_u64 assemble the bytes from the lowest      *)
(* address up; write_* spread the value the same way.                      *)
Load1(m, a) == m[a]
Load2(m, a) == Load1(m, a) + B  * Load1(m, a + 1)
Load4(m, a) == Load2(m, a) + B2 * Load2(m, a + 2)
Load8(m, a) == Load4(m, a) + B4 * Load4(m, a + 4)

(* Mutants of Store2 and Store8: the halves swapped.                       *)
Store2Swapped(m, a, v) == [m EXCEPT ![a] = v \div B, ![a + 1] = v % B]
Store8Swapped(m, a, v) ==
  [m EXCEPT ![a] = v \div B4, ![a + 1] = 0, ![a + 2] = 0, ![a + 3] = 0, ![a + 4] = v % B]

Store1(m, a, v) == [m EXCEPT ![a] = v]
Store2(m, a, v) == Store1(Store1(m, a, v % B),  a + 1, v \div B)
Store4(m, a, v) == Store2(Store2(m, a, v % B2), a + 2, v \div B2)
Store8(m, a, v) == Store4(Store4(m, a, v % B4), a + 4, v \div B4)

Load(m, a, n) ==
  CASE n = 1 -> Load1(m, a) [] n = 2 -> Load2(m, a)
    [] n = 4 -> Load4(m, a) [] n = 8 -> Load8(m, a)

Store(m, a, n, v) ==
  CASE n = 1 -> Store1(m, a, v) [] n = 2 -> Store2(m, a, v)
    [] n = 4 -> Store4(m, a, v) [] n = 8 -> Store8(m, a, v)

(* Byte k of a 32-bit word, the lowest first.                              *)
ByteOf(w, k) ==
  CASE k = 0 -> w % B           [] k = 1 -> (w \div B) % B
    [] k = 2 -> (w \div B2) % B [] k = 3 -> (w \div (B2 * B)) % B
=============================================================================
