-------------------------------- MODULE Bus ---------------------------------
(***************************************************************************)
(* What an address means to the CPU: the read_u*/write_u* of cpu.cpp first *)
(* offer an access to the memory-mapped GPU window and otherwise serve it  *)
(* from memory after a bounds check.  Both tests add the size to the       *)
(* address in a size_t, so an access near 2^64 wraps.                      *)
(***************************************************************************)
EXTENDS Memory

CONSTANTS
  MmioBase,  (* GPU_MMIO_BASE: 0x1F0000 in the code *)
  MmioSize   (* GPU_MMIO_SIZE: 0x100 in the code    *)

ASSUME BusAssumption ==
  /\ MmioBase \in Nat /\ MmioBase >= 8 /\ MmioBase % 4 = 0
  /\ MmioSize \in Nat /\ MmioSize >= 64
  /\ MmioBase + MmioSize <= MemSize
  /\ MemSize + 8 <= B8

(* The offsets of the registers of GPURegisterState, and of the port that  *)
(* runs a command.                                                         *)
GpuRegister   == {0, 8, 16, 24, 32, 40, 48}
ModeRegister  == 48
CommandPort   == 56
RenderTargets == 2                    \* the size of GPU::targets_

(* Mutant of Mapped: the sum computed without overflow.                    *)
MappedExactly(a, n) == a >= MmioBase /\ a + n <= MmioBase + MmioSize

(* handle_mmio_read and handle_mmio_write: the test on the region.         *)
Mapped(a, n) == a >= MmioBase /\ Wrap(a + n) <= MmioBase + MmioSize

(* The access does not throw: read_u8 and write_u8 compare the address     *)
(* itself, the wider ones the sum.                                         *)
Accessible(a, n) ==
  \/ Mapped(a, n)
  \/ n = 1 /\ a < MemSize
  \/ n > 1 /\ Wrap(a + n) <= MemSize

(* The region's read callback, cut to the width of the access.             *)
Port(g, offset) == IF offset \in GpuRegister THEN g[offset] ELSE 0

Read(m, g, a, n) ==
  IF Mapped(a, n) THEN Port(g, a - MmioBase) % Span(n) ELSE Load(m, a, n)

(* Mutant of Written: no return once the window has taken the write.       *)
WrittenThrough(m, a, n, v) == Store(m, a, n, v)

(* The two sides of a write: the byte array, and the GPU registers.  The   *)
(* region's write callback drops a value for any other offset.             *)
Written(m, a, n, v) == IF Mapped(a, n) THEN m ELSE Store(m, a, n, v)

Ported(g, a, n, v) ==
  IF Mapped(a, n) /\ a - MmioBase \in GpuRegister
  THEN [g EXCEPT ![a - MmioBase] = v] ELSE g

(* A write to the command port runs command 1..8.  Any other value throws, *)
(* and so does command 6 (set_render_target) for a target that is not      *)
(* there.                                                                  *)
Rejected(g, a, n, v) ==
  /\ Mapped(a, n) /\ a - MmioBase = CommandPort
  /\ \/ v \notin 1 .. 8
     \/ v = 6 /\ g[ModeRegister] >= RenderTargets

Writable(g, a, n, v) == Accessible(a, n) /\ ~Rejected(g, a, n, v)
=============================================================================
