------------------------------ MODULE Machine -------------------------------
(***************************************************************************)
(* The processor a program sees: the state CPU keeps for it, what loading  *)
(* puts there and what each instruction does to it.  Who calls step(), and *)
(* when, is CPU.tla.                                                       *)
(*                                                                         *)
(* One call of step() is one instruction, preceded by the entry into an    *)
(* interrupt when one is pending.  An exception leaves main() uncaught:    *)
(* the process is gone and its state with it (status "terminated").        *)
(***************************************************************************)
EXTENDS Bus, ALU, Sequences

CONSTANTS
  Registers,      (* how many there are: 32 in the code                    *)
  LINK_REGISTER,  (* 30 in the code *)
  STACK_POINTER,  (* 31 in the code *)
  Decode,         (* the fields of each instruction word, sign-extended    *)
  VectorBase,     (* INTERRUPT_VECTOR_BASE: 0x100 *)
  VectorStride,   (* INTERRUPT_VECTOR_STRIDE: 16  *)
  Programs,       (* the code sections that may be loaded *)
  Patches         (* the data segments that may be loaded *)

Register == 0 .. Registers - 1

LoadOps   == {"LOAD", "LOADW", "LOADB"}
StoreOps  == {"STORE", "STOREW", "STOREB"}
BranchOps == {"BRANCH", "BRANCHZ", "BRANCHNZ", "BRANCHGT", "BRANCHLT", "RET"}
ImmOps    == {"ADDI", "SUBI", "MOVI"}
DrawOps   == {"GPUDRAW", "GPUFILL", "GPURECT", "GPULINE", "GPUTRI", "GPUSPRITE",
              "GPUSETTARGET", "GPUFLIP", "DMABLT"}

(* The switch has no default: an unknown opcode does what NOP does.        *)
IdleOps == {"NOP", "UNKNOWN"}

Opcode == UNION {AluOps, LoadOps, StoreOps, BranchOps, ImmOps, DrawOps, IdleOps,
                 {"GPUTEX", "PUSH", "POP", "CALL", "INT", "CMP", "HALT"}}

Instruction == [op : Opcode, rd : Register, rn : Register, rm : Register, imm : Int]

ASSUME MachineAssumption ==
  /\ Registers \in Nat
  /\ {0, LINK_REGISTER, STACK_POINTER} \subseteq Register
  /\ LINK_REGISTER # STACK_POINTER
  /\ Decode \in [Word -> Instruction] /\ Decode[0].op = "NOP"
  /\ VectorBase \in Nat /\ VectorStride \in Nat
  /\ \A v \in Register : VectorBase + v * VectorStride + 8 <= MmioBase
  /\ \A p \in Programs : /\ Len(p) \in Nat
                         /\ \A k \in 1 .. Len(p) : p[k] \in Word
  /\ \A p \in Patches : /\ p.address \in Value /\ Len(p.bytes) \in Value
                        /\ \A k \in 1 .. Len(p.bytes) : p.bytes[k] \in Byte

VARIABLES
  regs, memory, gpu_regs, pc, program_end, halted,
  last_cmp, last_cmp_negative,             (* the flags CMP leaves          *)
  interrupt_pending, interrupt_vector,
  textures,                                (* GPU: the sizes uploaded, by id *)
  status                                   (* of the process               *)

machineVars == <<regs, memory, gpu_regs, pc, program_end, halted, last_cmp,
                 last_cmp_negative, interrupt_pending, interrupt_vector,
                 textures, status>>
-----------------------------------------------------------------------------
(* CPU::reset, as the constructor and main() call it.                      *)
MachineInit ==
  /\ regs = [r \in Register |-> IF r = STACK_POINTER THEN MemSize - 16 ELSE 0]
  /\ memory = [a \in Address |-> 0]
  /\ gpu_regs = [o \in GpuRegister |-> 0]
  /\ pc = 0 /\ program_end = 0 /\ halted = FALSE
  /\ last_cmp = 0 /\ last_cmp_negative = FALSE
  /\ interrupt_pending = FALSE /\ interrupt_vector = 0
  /\ textures = <<>>
  /\ status = "reset"

(* An exception: nothing of the process survives it.                       *)
Terminate ==
  /\ status' = "terminated"
  /\ UNCHANGED <<regs, memory, gpu_regs, pc, program_end, halted, last_cmp,
                 last_cmp_negative, interrupt_pending, interrupt_vector, textures>>

(* load_program stores its words with write_u32, so a word whose address   *)
(* is in the window goes to the GPU and not to memory.                     *)
WordAt(code, a) == code[a \div 4 + 1]
CoversShort(code, a) == a < 4 * (Len(code) - 1)   \* mutant of Covers
Covers(code, a) == a < 4 * Len(code)

LoadThrows(code) ==
  \/ 4 * Len(code) > MemSize
  \/ LET port == MmioBase + CommandPort
         mode == MmioBase + ModeRegister
     IN  /\ Covers(code, port)
         /\ Rejected([gpu_regs EXCEPT ![ModeRegister] = WordAt(code, mode)],
                     port, 4, WordAt(code, port))

LoadProgram(code) ==
  /\ status = "reset"
  /\ IF LoadThrows(code) THEN Terminate
     ELSE /\ memory' = [a \in Address |->
                          IF Covers(code, a) /\ ~Mapped(4 * (a \div 4), 4)
                          THEN ByteOf(WordAt(code, a), a % 4) ELSE 0]
          /\ gpu_regs' = [o \in GpuRegister |->
                            IF Covers(code, MmioBase + o)
                            THEN WordAt(code, MmioBase + o) ELSE gpu_regs[o]]
          /\ pc' = 0 /\ program_end' = 4 * Len(code) /\ halted' = FALSE
          /\ status' = "loading"
          /\ UNCHANGED <<regs, last_cmp, last_cmp_negative, interrupt_pending,
                         interrupt_vector, textures>>

(* The end of a segment is a size_t, so one that begins just below 2^64    *)
(* passes for one that ends in memory, and as a ptrdiff_t its address is   *)
(* that of a place in front of memory.                                     *)
EndOf(p)   == Wrap(p.address + Len(p.bytes))
StartOf(p) == EndOf(p) - Len(p.bytes)

(* The registers lie right before memory: the place of byte j of register  *)
(* r, and a byte after the segment has been copied over it.                *)
PlaceOf(r, j) == 8 * (r - Registers) + j
Overlaid(p, place, old) ==
  IF place - StartOf(p) \in 0 .. Len(p.bytes) - 1
  THEN p.bytes[place - StartOf(p) + 1] ELSE old

(* load_data copies raw bytes: over the code, the vectors, the memory that *)
(* the window hides, or the registers.  What lies before the registers are *)
(* variables of main(), and the process may not survive their loss.        *)
LoadData(p) ==
  /\ status = "loading"
  /\ \/ EndOf(p) > MemSize /\ Terminate
     \/ EndOf(p) <= MemSize /\ StartOf(p) < PlaceOf(0, 0) /\ Terminate
     \/ /\ EndOf(p) <= MemSize
        /\ memory' = [a \in Address |-> Overlaid(p, a, memory[a])]
        /\ regs' = [r \in Register |->
             Joined([j \in 0 .. 7 |-> Overlaid(p, PlaceOf(r, j), ByteAt(regs[r], j))])]
        /\ UNCHANGED <<gpu_regs, pc, program_end, halted, last_cmp,
                       last_cmp_negative, interrupt_pending, interrupt_vector,
                       textures, status>>

FinishLoading ==
  /\ status = "loading"
  /\ status' = "ready"
  /\ UNCHANGED <<regs, memory, gpu_regs, pc, program_end, halted, last_cmp,
                 last_cmp_negative, interrupt_pending, interrupt_vector, textures>>
-----------------------------------------------------------------------------
(* The instruction at pc, and the operands it names.                       *)
ReadyAfterHalt == status = "ready"            \* mutant of Ready
Ready     == status = "ready" /\ ~halted
Fetchable == Wrap(pc + 4) <= MemSize          \* the sum wraps, as in step()
Fetched   == Decode[Read(memory, gpu_regs, pc, 4)]
Op        == Fetched.op
Rd        == regs[Fetched.rd]
Rn        == regs[Fetched.rn]
Rm        == regs[Fetched.rm]
SP        == regs[STACK_POINTER]
PushSlot  == Wrap(SP - 8)

(* Where the instruction leaves pc, before step() looks at it.  BRANCH and *)
(* CALL check their target (Faults); the conditional branches do not.      *)
NextPc == Wrap(pc + 4)
Target == NextPc + 4 * Fetched.imm
Taken  == \/ Op \in {"BRANCH", "CALL"}
          \/ Op = "BRANCHZ"  /\ Rd = 0
          \/ Op = "BRANCHNZ" /\ Rd # 0
          \/ Op = "BRANCHGT" /\ ~last_cmp_negative /\ last_cmp # 0
          \/ Op = "BRANCHLT" /\ last_cmp_negative
Successor == CASE Op = "RET" -> regs[LINK_REGISTER]
               [] Taken      -> Wrap(Target)
               [] OTHER      -> NextPc

(* The data accesses execute() makes, as pairs of an address and a size.   *)
DataAddress == Wrap(Rn + Fetched.imm)
Width(op) == CASE op \in {"LOAD", "STORE"}   -> 8
               [] op \in {"LOADW", "STOREW"} -> 2
               [] op \in {"LOADB", "STOREB"} -> 1
StoredValue == Rd % Span(Width(Op))
PushedValue == IF Fetched.rd = STACK_POINTER THEN PushSlot ELSE Rd

(* The fields of the descriptor rd points to, as offsets and sizes.        *)
Words(n) == {4 * k : k \in 0 .. n - 1} \X {4}
Fields == [GPURECT |-> Words(5), GPULINE |-> Words(5), GPUTRI |-> Words(8),
           GPUSPRITE |-> Words(5) \cup {<<20, 1>>, <<21, 1>>},
           GPUTEX |-> Words(3), DMABLT |-> Words(6)]
Param(k) == Read(memory, gpu_regs, Wrap(Rd + 4 * k), 4)

(* GPUTEX has {width, height, pixels}, DMABLT {pixels, stride, width,      *)
(* height, x, y}; each reads every pixel before the GPU sees one.          *)
PixelBase  == IF Op = "GPUTEX" THEN Param(2) ELSE Param(0)
PixelCount == IF Op = "GPUTEX" THEN Param(0) * Param(1) ELSE Param(1) * Param(3)

FieldReads == {<<Wrap(Rd + f[1]), f[2]>> : f \in Fields[Op]}
PixelReads == IF /\ Op \in {"GPUTEX", "DMABLT"}
                 /\ \A f \in FieldReads : Accessible(f[1], f[2])
              THEN {<<Wrap(PixelBase + 4 * k), 4>> : k \in 0 .. PixelCount - 1}
              ELSE {}

DataAccesses ==
  CASE Op \in LoadOps \cup StoreOps -> {<<DataAddress, Width(Op)>>}
    [] Op = "PUSH"         -> {<<PushSlot, 8>>}
    [] Op = "POP"          -> {<<SP, 8>>}
    [] Op \in DOMAIN Fields -> FieldReads \cup PixelReads
    [] OTHER               -> {}

(* draw_sprite: the texture must exist and hold as many pixels as the      *)
(* sprite shows; a sprite without area is accepted.                        *)
SignedWord(w) == IF 2 * w >= B4 THEN w - B4 ELSE w
SpriteThrows ==
  LET w == SignedWord(Param(3))
      h == SignedWord(Param(4))
  IN  \/ Param(0) \notin DOMAIN textures
      \/ w > 0 /\ h > 0 /\ textures[Param(0)] < w * h

(* execute() throws.                                                       *)
Faults ==
  \/ \E x \in DataAccesses : ~Accessible(x[1], x[2])
  \/ Op \in StoreOps /\ Rejected(gpu_regs, DataAddress, Width(Op), StoredValue)
  \/ Op = "PUSH"   /\ Rejected(gpu_regs, PushSlot, 8, PushedValue)
  \/ Op = "DIV"    /\ Rm = 0
  \/ Op = "BRANCH" /\ Target \notin 0 .. program_end
  \/ Op = "CALL"   /\ Target \notin Address
  \/ Op = "GPUSETTARGET" /\ Rd >= RenderTargets
  \/ Op = "GPUSPRITE"    /\ SpriteThrows
  \/ Op = "DMABLT"       /\ Param(1) < Param(2)
-----------------------------------------------------------------------------
(* Mutant of Advance: no check that the instruction moved pc.              *)
AdvanceAlways == pc' = Successor /\ UNCHANGED <<program_end, status>>

(* The end of step(): an instruction that left pc on itself is skipped.    *)
Advance ==
  /\ pc' = IF Successor = pc /\ ~halted' THEN Wrap(Successor + 4) ELSE Successor
  /\ UNCHANGED <<program_end, status>>

(* Mutant of Executing: a pending interrupt waits for a later step().      *)
ExecutingFirst(ops) == Ready /\ Fetchable /\ Op \in ops /\ ~Faults

Executing(ops) ==
  Ready /\ ~interrupt_pending /\ Fetchable /\ Op \in ops /\ ~Faults

bus       == <<memory, gpu_regs>>
flags     == <<last_cmp, last_cmp_negative>>
interrupt == <<interrupt_pending, interrupt_vector>>

SetRegister(r, v) == regs' = [regs EXCEPT ![r] = v]

StoreTo(a, n, v) ==
  /\ memory' = Written(memory, a, n, v)
  /\ gpu_regs' = Ported(gpu_regs, a, n, v)

(* Branches and the drawing commands change nothing else of this state.    *)
Jump ==
  /\ Executing(IdleOps \cup BranchOps \cup DrawOps)
  /\ UNCHANGED <<regs, bus, halted, flags, interrupt, textures>>
  /\ Advance

Arithmetic ==
  /\ Executing(AluOps)
  /\ SetRegister(Fetched.rd, Alu(Op, Rn, Rm))
  /\ UNCHANGED <<bus, halted, flags, interrupt, textures>>
  /\ Advance

Immediate ==
  /\ Executing(ImmOps)
  /\ SetRegister(Fetched.rd, Wrap(CASE Op = "ADDI" -> Rd + Fetched.imm
                                    [] Op = "SUBI" -> Rd - Fetched.imm
                                    [] Op = "MOVI" -> Fetched.imm))
  /\ UNCHANGED <<bus, halted, flags, interrupt, textures>>
  /\ Advance

LoadRegister ==
  /\ Executing(LoadOps)
  /\ SetRegister(Fetched.rd, Read(memory, gpu_regs, DataAddress, Width(Op)))
  /\ UNCHANGED <<bus, halted, flags, interrupt, textures>>
  /\ Advance

StoreRegister ==
  /\ Executing(StoreOps)
  /\ StoreTo(DataAddress, Width(Op), StoredValue)
  /\ UNCHANGED <<regs, halted, flags, interrupt, textures>>
  /\ Advance

(* The stack pointer moves before a pushed register is read and after a    *)
(* popped one is written.                                                  *)
Push ==
  /\ Executing({"PUSH"})
  /\ SetRegister(STACK_POINTER, PushSlot)
  /\ StoreTo(PushSlot, 8, PushedValue)
  /\ UNCHANGED <<halted, flags, interrupt, textures>>
  /\ Advance

Pop ==
  /\ Executing({"POP"})
  /\ LET popped == [regs EXCEPT ![Fetched.rd] = Read(memory, gpu_regs, SP, 8)]
     IN  regs' = [popped EXCEPT ![STACK_POINTER] = Wrap(@ + 8)]
  /\ UNCHANGED <<bus, halted, flags, interrupt, textures>>
  /\ Advance

Call ==
  /\ Executing({"CALL"})
  /\ SetRegister(LINK_REGISTER, NextPc)
  /\ UNCHANGED <<bus, halted, flags, interrupt, textures>>
  /\ Advance

(* Mutant of RequestInterrupt: the vector in rd, as README.md:177 has it.  *)
RequestInterruptIn ==
  /\ Executing({"INT"})
  /\ interrupt_pending' = TRUE /\ interrupt_vector' = Rd
  /\ UNCHANGED <<regs, bus, halted, flags, textures>>
  /\ Advance

(* request_interrupt: the vector is the number of the register in the rd   *)
(* field.                                                                  *)
RequestInterrupt ==
  /\ Executing({"INT"})
  /\ interrupt_pending' = TRUE /\ interrupt_vector' = Fetched.rd
  /\ UNCHANGED <<regs, bus, halted, flags, textures>>
  /\ Advance

(* Mutant of Compare: the operands taken as unsigned.                      *)
CompareUnsigned ==
  /\ Executing({"CMP"})
  /\ last_cmp' = Wrap(Rn - Rm) /\ last_cmp_negative' = (Rn < Rm)
  /\ UNCHANGED <<regs, bus, halted, interrupt, textures>>
  /\ Advance

(* `lhs - rhs` is signed: when it overflows, a build may leave in the sign *)
(* flag that of the wrapped or that of the exact difference.               *)
Compare ==
  /\ Executing({"CMP"})
  /\ LET difference == Signed(Rn) - Signed(Rm)
         wrapped    == Wrap(difference)
     IN  /\ last_cmp' = wrapped
         /\ last_cmp_negative' \in {difference < 0, Signed(wrapped) < 0}
  /\ UNCHANGED <<regs, bus, halted, interrupt, textures>>
  /\ Advance

Halt ==
  /\ Executing({"HALT"})
  /\ halted' = TRUE
  /\ UNCHANGED <<regs, bus, flags, interrupt, textures>>
  /\ Advance

UploadTexture ==
  /\ Executing({"GPUTEX"})
  /\ textures' = Append(textures, PixelCount)
  /\ SetRegister(Fetched.rn, Wrap(Len(textures) + 1))
  /\ UNCHANGED <<bus, halted, flags, interrupt>>
  /\ Advance

Execute ==
  \/ Jump \/ Arithmetic \/ Immediate \/ LoadRegister \/ StoreRegister \/ Push
  \/ Pop \/ Call \/ RequestInterrupt \/ Compare \/ Halt \/ UploadTexture

Throw ==
  /\ Ready /\ ~interrupt_pending
  /\ ~(Fetchable /\ ~Faults)
  /\ Terminate

(* An exception of the program that drives the processor.                  *)
Perish == Ready /\ Terminate

(* enter_interrupt, which precedes the instruction in the same step().     *)
VectorAddress == VectorBase + interrupt_vector * VectorStride

EnterInterrupt ==
  /\ Ready /\ interrupt_pending
  /\ IF ~Writable(gpu_regs, PushSlot, 8, pc) THEN Terminate
     ELSE /\ interrupt_pending' = FALSE
          /\ pc' = Read(memory, gpu_regs, VectorAddress, 8)
          /\ regs' = [regs EXCEPT ![LINK_REGISTER] = pc, ![STACK_POINTER] = PushSlot]
          /\ StoreTo(PushSlot, 8, pc)
          /\ UNCHANGED <<program_end, halted, flags, interrupt_vector, textures, status>>

MachineNext ==
  \/ \E code \in Programs : LoadProgram(code)
  \/ \E p \in Patches : LoadData(p)
  \/ FinishLoading
  \/ EnterInterrupt \/ Execute \/ Throw \/ Perish

MachineSpec == MachineInit /\ [][MachineNext]_machineVars
-----------------------------------------------------------------------------
(* The state of the processor stays within the widths of its members,      *)
(* although every address, sum and difference is formed without a check.   *)
MachineTypeOK ==
  /\ regs \in [Register -> Value]
  /\ memory \in [Address -> Byte]
  /\ gpu_regs \in [GpuRegister -> Value]
  /\ pc \in Value /\ program_end \in 0 .. MemSize
  /\ halted \in BOOLEAN
  /\ last_cmp \in Value /\ last_cmp_negative \in BOOLEAN
  /\ interrupt_pending \in BOOLEAN /\ interrupt_vector \in Register
  /\ textures \in Seq(Nat)
  /\ status \in {"reset", "loading", "ready", "terminated"}
=============================================================================
