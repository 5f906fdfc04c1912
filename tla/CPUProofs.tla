----------------------------- MODULE CPUProofs ------------------------------
(***************************************************************************)
(* Theorems about run control, interrupts and the accesses of the CPU, for *)
(* every value of the constants of CPU: all programs, memories, windows,   *)
(* register files, breakpoints and limits.  They are about Calls, without  *)
(* fairness: so they hold of Spec, and of every client's session that      *)
(* implements Calls.                                                       *)
(***************************************************************************)
EXTENDS CPU, MachineProofs

(* Every step of the CPU is one of the machine, or leaves it alone.        *)
LEMMA StepsMachine == [Next]_vars => [MachineNext]_machineVars
<1> SUFFICES ASSUME [Next]_vars
             PROVE  [MachineNext]_machineVars
  OBVIOUS
<1>1. CASE Loading
  BY <1>1 DEF Loading, MachineNext
<1>2. CASE Client
  BY <1>2 DEF Client, SetBreakpoints, EnableStepMode, CallRun, CallStepDebug, ClientThrows,
              MachineNext
<1>3. CASE Work
  BY <1>3 DEF Work, Enter, Step, Abort, StepHalted, RunReturns, MachineNext
<1>4. CASE Gone \/ UNCHANGED vars
  BY <1>4 DEF Gone, vars
<1> QED
  BY <1>1, <1>2, <1>3, <1>4 DEF Next

(* Debugging cannot be noticed by a program: under any use of run(),       *)
(* step_debug(), step mode and breakpoints the processor behaves as the    *)
(* machine that just executes one instruction after the other.             *)
THEOREM Transparent == Calls => MachineSpec
<1>1. Init => MachineInit
  BY DEF Init
<1> QED
  BY <1>1, StepsMachine, PTL DEF Calls, MachineSpec
-----------------------------------------------------------------------------
LEMMA InitType == Init => TypeOK
<1>1. 0 \in Nat /\ {} \subseteq Value
  OBVIOUS
<1> QED
  BY <1>1, MachineInitType DEF Init, TypeOK

LEMMA StepType == TypeOK /\ [Next]_vars => TypeOK'
<1> SUFFICES ASSUME TypeOK, [Next]_vars
             PROVE  TypeOK'
  OBVIOUS
<1>1. MachineTypeOK'
  BY StepsMachine, MachineStepType DEF TypeOK
<1> USE DEF TypeOK
<1>2. CASE Loading
  <2>1. ~in_step
    BY <1>2 DEF Loading
  <2> QED
    BY <1>1, <1>2, <2>1 DEF Loading, controlVars
<1>3. ASSUME NEW points \in BreakpointSets, SetBreakpoints(points)
      PROVE  TypeOK'
  BY <1>1, <1>3, CPUAssumption DEF SetBreakpoints, machineVars
<1>4. ASSUME NEW enabled \in BOOLEAN, EnableStepMode(enabled)
      PROVE  TypeOK'
  BY <1>1, <1>4 DEF EnableStepMode, machineVars
<1>5. ASSUME NEW limit \in Limits, CallRun(limit)
      PROVE  TypeOK'
  BY <1>1, <1>5, CPUAssumption DEF CallRun, machineVars
<1>6. CASE CallStepDebug
  BY <1>1, <1>6 DEF CallStepDebug, machineVars
<1>7. CASE ClientThrows
  BY <1>1, <1>7 DEF ClientThrows, Perish, Terminate, controlVars
<1>8. CASE Enter
  <2>1. in_step' \in BOOLEAN /\ (in_step' => status' = "ready")
    BY <1>8, Zenon DEF Enter
  <2>2. in_step' => status' \in {"ready", "terminated"}
    BY <2>1
  <2>3. UNCHANGED <<breakpoints, step_mode, caller, i, max_steps>>
    BY <1>8 DEF Enter
  <2> QED
    BY <1>1, <2>1, <2>2, <2>3, Zenon
<1>9. CASE Step
  <2>1. step_mode' \in BOOLEAN
    BY <1>9, Zenon DEF Step, Retire
  <2>2. i' \in Nat /\ caller' \in {"none", "run", "step_debug"}
    BY <1>9 DEF Step, Retire
  <2>3. in_step' = FALSE /\ UNCHANGED <<breakpoints, max_steps>>
    BY <1>9 DEF Step, Retire
  <2> QED
    BY <1>1, <2>1, <2>2, <2>3
<1>10. CASE Abort
  BY <1>1, <1>10 DEF Abort, Throw, Terminate, controlVars
<1>11. CASE StepHalted
  BY <1>1, <1>11 DEF StepHalted, machineVars
<1>12. CASE RunReturns
  BY <1>1, <1>12 DEF RunReturns, machineVars
<1>13. CASE Gone \/ UNCHANGED vars
  BY <1>1, <1>13 DEF Gone, vars, machineVars, controlVars
<1> QED
  BY <1>2, <1>3, <1>4, <1>5, <1>6, <1>7, <1>8, <1>9, <1>10, <1>11, <1>12, <1>13
     DEF Next, Client, Work

(* The members of the CPU keep their widths over any sequence of calls,    *)
(* interrupts and exceptions.                                              *)
THEOREM TypeCorrect == Calls => []TypeOK
  BY InitType, StepType, PTL DEF Calls
-----------------------------------------------------------------------------
(* The accesses of an instruction have an address and a width.             *)
Access == Value \X Widths

LEMMA FieldType ==
  ASSUME NEW op \in DOMAIN Fields, NEW f \in Fields[op]
  PROVE  f[1] \in Nat /\ f[2] \in Widths
<1>1. ASSUME NEW n \in Nat, NEW w \in Words(n)
      PROVE  w[1] \in Nat /\ w[2] \in Widths
  BY DEF Words, Widths
<1>2. f \in Words(5) \/ f \in Words(8) \/ f \in Words(3) \/ f \in Words(6)
        \/ f \in {<<20, 1>>, <<21, 1>>}
  BY DEF Fields
<1> QED
  BY <1>1, <1>2 DEF Widths

LEMMA DataAccessType ==
  ASSUME MachineTypeOK, Fetchable
  PROVE  DataAccesses \subseteq Access
<1>1. Fetched \in Instruction
  BY FetchType
<1>2. CASE Op \in LoadOps \cup StoreOps
  <2>1. DataAccesses = {<<DataAddress, Width(Op)>>}
    <3>1. Op \notin {"PUSH", "POP"} \cup DOMAIN Fields
      BY <1>2 DEF Fields, LoadOps, StoreOps
    <3> QED
      BY <1>2, <3>1 DEF DataAccesses
  <2> QED
    BY <1>1, <1>2, <2>1, OperandType, WidthType DEF Access
<1>3. CASE Op \in {"PUSH", "POP"}
  <2>1. DataAccesses \subseteq {<<PushSlot, 8>>, <<SP, 8>>}
    <3>1. Op \notin LoadOps \cup StoreOps \cup DOMAIN Fields
      BY <1>3 DEF Fields, LoadOps, StoreOps
    <3> QED
      BY <1>3, <3>1 DEF DataAccesses
  <2> QED
    BY <1>1, <2>1, OperandType DEF Access, Widths
<1>4. CASE Op \in DOMAIN Fields
  <2>1. DataAccesses = FieldReads \cup PixelReads
    <3>1. Op \notin LoadOps \cup StoreOps \cup {"PUSH", "POP"}
      BY <1>4 DEF Fields, LoadOps, StoreOps
    <3> QED
      BY <1>4, <3>1 DEF DataAccesses
  <2>2. FieldReads \subseteq Access
    <3>1. ASSUME NEW f \in Fields[Op]
          PROVE  Wrap(Rd + f[1]) \in Value /\ f[2] \in Widths
      BY <1>1, <1>4, FieldType, OperandType, ValueInt, WrapType
    <3> QED
      BY <3>1 DEF FieldReads, Access
  <2>3. PixelReads \subseteq Access
    <3>1. SUFFICES ASSUME Op \in {"GPUTEX", "DMABLT"},
                          \A f \in FieldReads : Accessible(f[1], f[2])
                   PROVE  PixelReads \subseteq Access
      BY DEF PixelReads
    <3>2. ASSUME NEW k \in 0 .. 2
          PROVE  Param(k) \in Value
      <4>1. <<4 * k, 4>> \in Fields[Op]
        BY <3>1 DEF Fields, Words
      <4>2. <<Wrap(Rd + 4 * k), 4>> \in FieldReads
        BY <4>1 DEF FieldReads
      <4>3. Accessible(Wrap(Rd + 4 * k), 4)
        BY <3>1, <4>2
      <4>4. Wrap(Rd + 4 * k) \in Value
        BY <1>1, OperandType, ValueInt, WrapType
      <4> QED
        BY <4>3, <4>4, ReadType DEF Param, MachineTypeOK, Array, Ports, Widths
    <3>3. PixelBase \in Int
      BY <3>2, ValueInt DEF PixelBase
    <3>4. \A k \in Int : Wrap(PixelBase + 4 * k) \in Value
      BY <3>3, WrapType
    <3> QED
      BY <3>4 DEF PixelReads, Access, Widths
  <2> QED
    BY <2>1, <2>2, <2>3
<1>5. CASE Op \notin LoadOps \cup StoreOps \cup {"PUSH", "POP"} \cup DOMAIN Fields
  BY <1>5 DEF DataAccesses
<1> QED
  BY <1>2, <1>3, <1>4, <1>5

(* No instruction reaches outside memory and the window, although each     *)
(* bounds check may wrap: it follows from the types alone, so nothing a    *)
(* program does to its registers can bring it about.                       *)
LEMMA TypeAccess == TypeOK => AccessInMemory
<1> SUFFICES ASSUME TypeOK, Fetching,
                    NEW x \in DataAccesses \cup {<<pc, 4>>}, Accessible(x[1], x[2])
             PROVE  Mapped(x[1], x[2]) \/ x[1] + x[2] <= MemSize
  BY DEF AccessInMemory
<1>1. x[1] \in Value /\ x[2] \in Widths
  BY DataAccessType DEF TypeOK, Fetching, Access, MachineTypeOK, Widths
<1> QED
  BY <1>1, AccessibleInMemory

THEOREM AccessCorrect == Calls => []AccessInMemory
  BY TypeCorrect, TypeAccess, PTL
-----------------------------------------------------------------------------
(* The slot a push makes and where an interrupt's frame goes.              *)
LEMMA SlotType == ASSUME MachineTypeOK PROVE SP \in Value /\ PushSlot \in Value
<1>1. SP \in Value
  BY MachineAssumption DEF SP, MachineTypeOK
<1> QED
  BY <1>1, ValueInt, WrapType DEF PushSlot

LEMMA EnterFrame ==
  ASSUME MachineTypeOK, EnterInterrupt, status' = "ready"
  PROVE  /\ regs'[LINK_REGISTER] = pc
         /\ ~Mapped(SP', 8) => Load8(memory', SP') = pc
<1>1. Writable(gpu_regs, PushSlot, 8, pc)
  BY DEF EnterInterrupt, Terminate
<1>2. /\ regs' = [regs EXCEPT ![LINK_REGISTER] = pc, ![STACK_POINTER] = PushSlot]
      /\ memory' = Written(memory, PushSlot, 8, pc)
  BY <1>1 DEF EnterInterrupt, StoreTo
<1>3. SP' = PushSlot /\ regs'[LINK_REGISTER] = pc
  BY <1>2, MachineAssumption DEF SP, MachineTypeOK
<1>4. ASSUME ~Mapped(PushSlot, 8)
      PROVE  Load8(memory', PushSlot) = pc
  <2>1. PushSlot \in Nat /\ PushSlot + 8 <= MemSize
    BY <1>1, <1>4, SlotType, ValueInt, AccessibleInMemory DEF Writable, Widths
  <2>2. memory' = Store8(memory, PushSlot, pc)
    BY <1>2, <1>4 DEF Written, Store
  <2>3. memory \in Array /\ pc \in 0 .. B8 - 1
    BY DEF MachineTypeOK, Array, Value
  <2> QED
    BY <2>1, <2>2, <2>3, LoadStore8
<1> QED
  BY <1>3, <1>4

(* An interrupt leaves the pc of the instruction it came before in the     *)
(* link register and, unless the window is there, on top of the stack.     *)
THEOREM FrameCorrect == Calls => FrameHolds
<1>1. TypeOK /\ [Next]_vars =>
        [~in_step /\ in_step' =>
           /\ regs'[LINK_REGISTER] = pc
           /\ ~Mapped(SP', 8) => Load8(memory', SP') = pc]_vars
  <2> SUFFICES ASSUME TypeOK, [Next]_vars, ~in_step, in_step'
               PROVE  /\ regs'[LINK_REGISTER] = pc
                      /\ ~Mapped(SP', 8) => Load8(memory', SP') = pc
    OBVIOUS
  <2>1. Enter
    BY DEF Next, Loading, Client, SetBreakpoints, EnableStepMode, CallRun, CallStepDebug,
       ClientThrows, Work, Step, Retire, Abort, StepHalted, RunReturns, Gone, vars, controlVars
  <2>2. EnterInterrupt /\ status' = "ready"
    BY <2>1 DEF Enter
  <2> QED
    BY <2>2, EnterFrame DEF TypeOK
<1> QED
  BY <1>1, TypeCorrect, PTL DEF Calls, FrameHolds
-----------------------------------------------------------------------------
(* What an instruction may write.                                          *)
LEMMA ExecuteWrites ==
  ASSUME MachineTypeOK, Execute
  PROVE  \/ UNCHANGED bus
         \/ StoreRegister
         \/ Push
  BY DEF Execute, Jump, Arithmetic, Immediate, LoadRegister, Pop, Call, RequestInterrupt,
     Compare, Halt, UploadTexture, bus

(* One write changes its own bytes, or the window's registers.             *)
LEMMA WriteIsLocal ==
  ASSUME MachineTypeOK, NEW a \in Value, NEW n \in Widths, NEW v \in 0 .. Span(n) - 1,
         StoreTo(a, n, v)
  PROVE  /\ \A b \in Address : memory'[b] # memory[b] => ~Mapped(a, n) /\ b \in a .. a + n - 1
         /\ gpu_regs' # gpu_regs => Mapped(a, n)
<1>1. memory \in Array /\ a \in Int
  BY ValueInt DEF MachineTypeOK, Array
<1>2. ASSUME NEW b \in Address, memory'[b] # memory[b]
      PROVE  ~Mapped(a, n) /\ b \in a .. a + n - 1
  <2>1. ~Mapped(a, n) /\ memory' = Store(memory, a, n, v)
    BY <1>2 DEF StoreTo, Written
  <2> QED
    BY <1>1, <1>2, <2>1, StoreLocal
<1>3. gpu_regs' # gpu_regs => Mapped(a, n)
  BY DEF StoreTo, Ported
<1> QED
  BY <1>2, <1>3

LEMMA StoredType ==
  ASSUME MachineTypeOK, Fetched \in Instruction, Op \in StoreOps
  PROVE  DataAddress \in Value /\ Width(Op) \in Widths
         /\ StoredValue \in 0 .. Span(Width(Op)) - 1
  BY OperandType, ValueInt, WidthType, SpanType DEF StoredValue

LEMMA StepNoStray ==
  TypeOK /\ [Next]_vars /\ status = "ready" =>
    /\ \A a \in Address : memory'[a] # memory[a] =>
         \E x \in Writes : ~Mapped(x[1], x[2]) /\ a \in x[1] .. x[1] + x[2] - 1
    /\ gpu_regs' # gpu_regs => \E x \in Writes : Mapped(x[1], x[2])
<1> DEFINE Stays ==
             /\ \A a \in Address : memory'[a] # memory[a] =>
                  \E x \in Writes : ~Mapped(x[1], x[2]) /\ a \in x[1] .. x[1] + x[2] - 1
             /\ gpu_regs' # gpu_regs => \E x \in Writes : Mapped(x[1], x[2])
<1> SUFFICES ASSUME TypeOK, [Next]_vars, status = "ready"
             PROVE  Stays
  OBVIOUS
<1>1. MachineTypeOK
  BY DEF TypeOK
<1>2. CASE UNCHANGED bus
  BY <1>2 DEF bus
<1>3. CASE StoreRegister
  <2>1. /\ Fetching /\ Op \in StoreOps /\ ~(Ready /\ interrupt_pending)
        /\ StoreTo(DataAddress, Width(Op), StoredValue)
    BY <1>3 DEF StoreRegister, Executing, Fetching
  <2>2. Writes = {<<DataAddress, Width(Op)>>}
    BY <2>1 DEF Writes, StoreOps
  <2>3. Fetched \in Instruction
    BY <1>1, <2>1, FetchType DEF Fetching
  <2> QED
    BY <1>1, <2>1, <2>2, <2>3, StoredType, WriteIsLocal
<1>4. CASE Push
  <2>1. /\ Fetching /\ Op = "PUSH" /\ ~(Ready /\ interrupt_pending)
        /\ StoreTo(PushSlot, 8, PushedValue)
    BY <1>4 DEF Push, Executing, Fetching
  <2>2. Writes = {<<PushSlot, 8>>}
    BY <2>1 DEF Writes, StoreOps
  <2>3. Fetched \in Instruction
    BY <1>1, <2>1, FetchType DEF Fetching
  <2>4. PushedValue \in 0 .. Span(8) - 1 /\ PushSlot \in Value /\ 8 \in Widths
    BY <1>1, <2>3, OperandType, OneSpan DEF PushedValue, Value, Widths
  <2> QED
    BY <1>1, <2>1, <2>2, <2>4, WriteIsLocal
<1>5. CASE EnterInterrupt
  <2>1. CASE Terminate
    BY <1>2, <2>1 DEF Terminate, bus
  <2>2. CASE ~Terminate
    <3>1. Ready /\ interrupt_pending /\ StoreTo(PushSlot, 8, pc)
      BY <1>5, <2>2 DEF EnterInterrupt
    <3>2. Writes = {<<PushSlot, 8>>}
      BY <3>1 DEF Writes, Fetching
    <3>3. pc \in 0 .. Span(8) - 1 /\ PushSlot \in Value /\ 8 \in Widths
      BY <1>1, SlotType, OneSpan DEF MachineTypeOK, Value, Widths
    <3> QED
      BY <1>1, <3>1, <3>2, <3>3, WriteIsLocal
  <2> QED
    BY <2>1, <2>2
<1>6. CASE Execute
  BY <1>1, <1>2, <1>3, <1>4, <1>6, ExecuteWrites
<1>7. CASE Throw \/ Perish \/ UNCHANGED machineVars
  BY <1>2, <1>7 DEF Throw, Perish, Terminate, machineVars, bus
<1>8. EnterInterrupt \/ Execute \/ Throw \/ Perish \/ UNCHANGED machineVars
  BY StepsMachine DEF MachineNext, LoadProgram, LoadData, FinishLoading
<1> QED
  BY <1>5, <1>6, <1>7, <1>8

(* Once the program is loaded nothing writes to memory but the stores,     *)
(* pushes and interrupt entries, each to its own bytes, and never both to  *)
(* memory and to the window.                                               *)
THEOREM NoStrayCorrect == Calls => NoStrayWrite
<1>1. TypeOK /\ [Next]_vars =>
        [status = "ready" =>
           /\ \A a \in Address : memory'[a] # memory[a] =>
                \E x \in Writes : ~Mapped(x[1], x[2]) /\ a \in x[1] .. x[1] + x[2] - 1
           /\ gpu_regs' # gpu_regs => \E x \in Writes : Mapped(x[1], x[2])]_vars
  BY StepNoStray
<1> QED
  BY <1>1, TypeCorrect, PTL DEF Calls, NoStrayWrite

(* A store whose bytes lie in memory puts its value there.                 *)
LEMMA StepReadsBack ==
  TypeOK /\ [Next]_vars =>
    (Fetching /\ Op \in StoreOps /\ ~Mapped(DataAddress, Width(Op)) /\ pc' # pc =>
       Load(memory', DataAddress, Width(Op)) = StoredValue)
<1> SUFFICES ASSUME TypeOK, [Next]_vars, Fetching, Op \in StoreOps,
                    ~Mapped(DataAddress, Width(Op)), pc' # pc
             PROVE  Load(memory', DataAddress, Width(Op)) = StoredValue
  OBVIOUS
<1>1. StoreRegister
  <2>1. [MachineNext]_machineVars /\ status = "ready" /\ ~interrupt_pending
    BY StepsMachine DEF Fetching, Ready
  <2>2. Execute
    BY <2>1 DEF MachineNext, LoadProgram, LoadData, FinishLoading, EnterInterrupt, Throw,
                Perish, Terminate, machineVars
  <2>3. Op \notin UNION {IdleOps, BranchOps, DrawOps, AluOps, ImmOps, LoadOps,
                        {"PUSH", "POP", "CALL", "INT", "CMP", "HALT", "GPUTEX"}}
    BY DEF StoreOps, IdleOps, BranchOps, DrawOps, AluOps, ImmOps, LoadOps
  <2> QED
    BY <2>2, <2>3 DEF Execute, Jump, Arithmetic, Immediate, LoadRegister, Push, Pop, Call,
       RequestInterrupt, Compare, Halt, UploadTexture, Executing
<1>2. MachineTypeOK /\ Fetched \in Instruction
  BY FetchType DEF TypeOK, Fetching
<1>3. /\ DataAddress \in Nat /\ Width(Op) \in Widths
      /\ StoredValue \in 0 .. Span(Width(Op)) - 1
  BY <1>2, StoredType, ValueInt
<1>4. DataAddress + Width(Op) <= MemSize
  <2>1. Accessible(DataAddress, Width(Op))
    BY <1>1, Served, WidthType DEF StoreRegister, Executing
  <2> QED
    BY <1>2, <2>1, StoredType, AccessibleInMemory
<1>5. memory' = Store(memory, DataAddress, Width(Op), StoredValue)
  BY <1>1 DEF StoreRegister, StoreTo, Written
<1>6. memory \in Array
  BY <1>2 DEF MachineTypeOK, Array
<1> QED
  BY <1>3, <1>4, <1>5, <1>6, LoadStore

(* A load of the same width finds what a store left, byte order and width  *)
(* included.                                                               *)
THEOREM ReadsBackCorrect == Calls => StoreReadsBack
<1>1. TypeOK /\ [Next]_vars =>
        [Fetching /\ Op \in StoreOps /\ ~Mapped(DataAddress, Width(Op)) /\ pc' # pc =>
           Load(memory', DataAddress, Width(Op)) = StoredValue]_vars
  BY StepReadsBack
<1> QED
  BY <1>1, TypeCorrect, PTL DEF Calls, StoreReadsBack
-----------------------------------------------------------------------------
(* An instruction moves pc: step() skips the one that would stay.          *)
LEMMA WrapMoves == ASSUME NEW x \in Value PROVE Wrap(x + 4) # x
<1>1. B8 >= 16 /\ B8 \in Nat
  BY Widening
<1> QED
  BY <1>1, ValueInt DEF Wrap

LEMMA ExecuteMoves == ASSUME MachineTypeOK, Execute PROVE pc' # pc
<1>1. Fetchable /\ Advance /\ ~halted /\ (halted' = halted \/ Op = "HALT")
  BY DEF Execute, Jump, Arithmetic, Immediate, LoadRegister, StoreRegister, Push, Pop, Call,
     RequestInterrupt, Compare, Halt, UploadTexture, Executing, Ready
<1>2. pc \in Value /\ Successor \in Value
  BY <1>1, FetchType, OperandType DEF MachineTypeOK
<1>3. CASE Successor = pc /\ ~halted'
  BY <1>1, <1>2, <1>3, WrapMoves DEF Advance
<1>4. CASE Successor = pc /\ halted'
  <2>1. Op = "HALT"
    BY <1>1, <1>4
  <2>2. Successor = Wrap(pc + 4)
    BY <2>1 DEF Successor, Taken, NextPc
  <2> QED
    BY <1>2, <1>4, <2>2, WrapMoves
<1>5. CASE Successor # pc
  BY <1>1, <1>5 DEF Advance
<1> QED
  BY <1>3, <1>4, <1>5

LEMMA StepMoves == TypeOK /\ [Next]_vars => (RunStep \/ DebugStep => pc' # pc)
<1> SUFFICES ASSUME TypeOK, [Next]_vars, RunStep \/ DebugStep
             PROVE  pc' # pc
  OBVIOUS
<1>1. i \in Nat /\ i + 1 # i
  BY DEF TypeOK
<1>2. CASE Step
  BY <1>2, ExecuteMoves DEF Step, TypeOK
<1>3. CASE Loading \/ Client \/ Enter \/ Abort \/ StepHalted \/ RunReturns \/ Gone
             \/ UNCHANGED vars
  BY <1>1, <1>3 DEF RunStep, DebugStep, Loading, Client, SetBreakpoints, EnableStepMode,
     CallRun, CallStepDebug, ClientThrows, Idling, Enter, Abort, StepHalted, RunReturns, Gone,
     vars, controlVars
<1> QED
  BY <1>2, <1>3 DEF Next, Work

(* No program keeps run() on one instruction, and step_debug() always      *)
(* shows progress, until HALT.                                             *)
THEOREM SelfSpinCorrect == Calls => NoSelfSpin
<1>1. TypeOK /\ [Next]_vars => [RunStep \/ DebugStep => pc' # pc]_vars
  BY StepMoves
<1> QED
  BY <1>1, TypeCorrect, PTL DEF Calls, NoSelfSpin
-----------------------------------------------------------------------------
(* The instructions a run executes, and where it stops.                    *)
LEMMA StepPastBreakpoint ==
  TypeOK /\ [Next]_vars => (RunStep /\ ~in_step => pc \notin breakpoints)
<1> SUFFICES ASSUME TypeOK, [Next]_vars, RunStep, ~in_step
             PROVE  pc \notin breakpoints
  OBVIOUS
<1>1. i \in Nat /\ i + 1 # i
  BY DEF TypeOK
<1>2. CASE Step
  BY <1>2 DEF Step, Stepping, RunStep, AtBreakpoint
<1>3. CASE Loading \/ Client \/ Enter \/ Abort \/ StepHalted \/ RunReturns \/ Gone
             \/ UNCHANGED vars
  BY <1>1, <1>3 DEF RunStep, Loading, Client, SetBreakpoints, EnableStepMode, CallRun,
     CallStepDebug, ClientThrows, Idling, Enter, Abort, StepHalted, RunReturns, Gone, vars,
     controlVars
<1> QED
  BY <1>2, <1>3 DEF Next, Work

(* run() executes no instruction at a breakpoint but a handler's first.    *)
THEOREM BreakpointCorrect == Calls => NeverPastBreakpoint
<1>1. TypeOK /\ [Next]_vars => [RunStep /\ ~in_step => pc \notin breakpoints]_vars
  BY StepPastBreakpoint
<1> QED
  BY <1>1, TypeCorrect, PTL DEF Calls, NeverPastBreakpoint

(* A breakpoint at pc, or before it when step() skipped the instruction    *)
(* it found there.                                                         *)
Explained == {pc, Wrap(pc - 4)} \cap breakpoints # {}

(* A call is made of a loaded processor, and is under way when an          *)
(* interrupt has been entered; HALT waits for the handler.                 *)
CallInv ==
  /\ caller # "none" => status \in {"ready", "terminated"}
  /\ in_step => caller # "none" /\ ~halted

(* run() looks at step mode before it enters an interrupt, and finds it    *)
(* off.  Once it is on, its cause is still there to see, because no        *)
(* further instruction moves pc.                                           *)
PauseInv ==
  caller = "run" => /\ in_step => ~step_mode
                    /\ step_mode => i = 0 \/ Explained

LEMMA StepCall == CallInv /\ [Next]_vars => CallInv'
<1> SUFFICES ASSUME CallInv, [Next]_vars
             PROVE  CallInv'
  OBVIOUS
<1> USE DEF CallInv
<1>1. CASE Loading
  BY <1>1 DEF Loading, controlVars
<1>2. CASE Client
  BY <1>2 DEF Client, SetBreakpoints, EnableStepMode, CallRun, CallStepDebug, ClientThrows,
     Idling, Perish, Terminate, machineVars, controlVars
<1>3. CASE Enter
  <2>1. caller # "none" /\ caller' = caller /\ status = "ready" /\ ~halted /\ halted' = halted
    BY <1>3 DEF Enter, Stepping, EnterInterrupt, Ready, Terminate
  <2>2. status' \in {"ready", "terminated"}
    BY <1>3, <2>1 DEF Enter, EnterInterrupt, Terminate
  <2> QED
    BY <2>1, <2>2
<1>4. CASE Step
  <2>1. status' = status /\ status = "ready" /\ in_step' = FALSE
    BY <1>4 DEF Step, Retire, Execute, Jump, Arithmetic, Immediate, LoadRegister,
       StoreRegister, Push, Pop, Call, RequestInterrupt, Compare, Halt, UploadTexture,
       Advance, Executing, Ready
  <2> QED
    BY <2>1
<1>5. CASE Abort
  BY <1>5 DEF Abort, Throw, Terminate, controlVars
<1>6. CASE StepHalted \/ RunReturns
  BY <1>6 DEF StepHalted, RunReturns, machineVars
<1>7. CASE Gone \/ UNCHANGED vars
  BY <1>7 DEF Gone, vars, machineVars, controlVars
<1> QED
  BY <1>1, <1>2, <1>3, <1>4, <1>5, <1>6, <1>7 DEF Next, Work

LEMMA WrapBack ==
  ASSUME NEW x \in Value PROVE Wrap(Wrap(x + 4) - 4) = x
<1>1. B8 >= 16 /\ B8 \in Nat
  BY Widening
<1>2. CASE x + 4 < B8
  <2>1. Wrap(x + 4) = x + 4
    BY <1>1, <1>2, ValueInt DEF Wrap
  <2>2. Wrap(x + 4) - 4 = x
    BY <2>1, ValueInt
  <2> QED
    BY <2>1, <2>2, WrapSmall
<1>3. CASE x + 4 >= B8
  <2>1. Wrap(x + 4) = x + 4 - B8
    BY <1>1, <1>3, ValueInt DEF Wrap
  <2>2. Wrap(x - B8) = x
    BY <1>1, ValueInt DEF Wrap
  <2>3. Wrap(x + 4) - 4 = x - B8
    BY <1>1, <2>1, ValueInt
  <2> QED
    BY <2>2, <2>3
<1> QED
  BY <1>1, <1>2, <1>3, ValueInt

LEMMA StepExplained ==
  ASSUME TypeOK, Step, caller = "run", Successor \in breakpoints
  PROVE  Explained'
<1>1. breakpoints' = breakpoints /\ Successor \in Value
  BY DEF Step, Retire, TypeOK
<1>2. Advance
  BY DEF Step, Execute, Jump, Arithmetic, Immediate, LoadRegister, StoreRegister, Push, Pop,
     Call, RequestInterrupt, Compare, Halt, UploadTexture
<1>3. CASE pc' = Successor
  BY <1>1, <1>3 DEF Explained
<1>4. CASE pc' = Wrap(Successor + 4)
  <2>1. Wrap(pc' - 4) = Successor
    BY <1>1, <1>4, WrapBack
  <2> QED
    BY <1>1, <2>1 DEF Explained
<1> QED
  BY <1>2, <1>3, <1>4 DEF Advance

LEMMA StepPause == TypeOK /\ CallInv /\ PauseInv /\ [Next]_vars => PauseInv'
<1> SUFFICES ASSUME TypeOK, CallInv, PauseInv, [Next]_vars, caller' = "run"
             PROVE  /\ in_step' => ~step_mode'
                    /\ step_mode' => i' = 0 \/ Explained'
  BY DEF PauseInv
<1>1. CASE Step
  <2>1. caller = "run" /\ in_step' = FALSE /\ ~step_mode
    BY <1>1 DEF Step, Retire, Stepping, LoopEnds, PauseInv
  <2>2. step_mode' => Successor \in breakpoints
    BY <1>1, <2>1, Zenon DEF Step, Retire
  <2> QED
    BY <1>1, <2>1, <2>2, StepExplained
<1>2. CASE Enter
  <2>1. caller = "run" /\ ~step_mode /\ step_mode' = step_mode
    BY <1>2 DEF Enter, Stepping, LoopEnds, PauseInv
  <2> QED
    BY <2>1
<1>3. ASSUME NEW limit \in Limits, CallRun(limit)
      PROVE  i' = 0 /\ ~in_step'
  BY <1>3 DEF CallRun, Idling, CallInv
<1>4. CASE \/ \E points \in BreakpointSets : SetBreakpoints(points)
           \/ \E enabled \in BOOLEAN : EnableStepMode(enabled)
           \/ CallStepDebug \/ StepHalted \/ RunReturns \/ Loading
  BY <1>4 DEF SetBreakpoints, EnableStepMode, CallStepDebug, StepHalted, RunReturns, Loading,
     Idling, CallInv, controlVars
<1>5. CASE UNCHANGED <<pc, controlVars>>
  BY <1>5 DEF PauseInv, Explained, controlVars
<1>6. CASE Abort \/ ClientThrows \/ Gone \/ UNCHANGED vars
  BY <1>5, <1>6 DEF Abort, Throw, ClientThrows, Perish, Terminate, Gone, vars, machineVars
<1> QED
  BY <1>1, <1>2, <1>3, <1>4, <1>6 DEF Next, Work, Client

(* A run that ends early has met a breakpoint, or was called in step mode. *)
THEOREM PauseCorrect == Calls => PauseHasReason
<1>1. Init => CallInv /\ PauseInv
  BY DEF Init, CallInv, PauseInv
<1>2. TypeOK /\ PauseInv /\ [Next]_vars =>
        [caller = "run" /\ caller' = "none" =>
           \/ halted \/ i >= max_steps
           \/ {pc, Wrap(pc - 4)} \cap breakpoints # {}
           \/ i = 0 /\ step_mode]_vars
  <2> SUFFICES ASSUME PauseInv, [Next]_vars, caller = "run", caller' = "none"
               PROVE  \/ halted \/ i >= max_steps \/ Explained
                      \/ i = 0 /\ step_mode
    BY DEF Explained
  <2>1. RunReturns
    BY DEF Next, Loading, Client, SetBreakpoints, EnableStepMode, CallRun, CallStepDebug,
       ClientThrows, Idling, Work, Enter, Step, Retire, Abort, StepHalted, Gone, vars,
       controlVars
  <2>2. CASE AtBreakpoint
    BY <2>2 DEF AtBreakpoint, Explained
  <2>3. CASE LoopEnds
    BY <2>3 DEF LoopEnds, PauseInv
  <2> QED
    BY <2>1, <2>2, <2>3 DEF RunReturns
<1> QED
  BY <1>1, <1>2, StepCall, StepPause, TypeCorrect, PTL DEF Calls, PauseHasReason
-----------------------------------------------------------------------------
(* run() stays within its limit, and has an instruction left for a handler *)
(* that has been entered.  No step() enters two interrupts.                *)
LimitInv ==
  /\ caller = "run" => i <= max_steps /\ (in_step => i < max_steps)
  /\ in_step /\ status = "ready" => ~interrupt_pending

LEMMA StepLimit == TypeOK /\ CallInv /\ LimitInv /\ [Next]_vars => LimitInv'
<1> SUFFICES ASSUME TypeOK, CallInv, LimitInv, [Next]_vars
             PROVE  LimitInv'
  OBVIOUS
<1> USE DEF TypeOK, LimitInv
<1>1. CASE Step
  BY <1>1 DEF Step, Stepping, LoopEnds, Retire
<1>2. CASE Enter
  <2>1. status' = "ready" => ~interrupt_pending'
    BY <1>2 DEF Enter, EnterInterrupt, Terminate
  <2> QED
    BY <1>2, <2>1 DEF Enter, Stepping, LoopEnds
<1>3. ASSUME NEW limit \in Limits, CallRun(limit)
      PROVE  LimitInv'
  BY <1>3, CPUAssumption DEF CallRun, Idling, CallInv
<1>4. CASE \/ \E points \in BreakpointSets : SetBreakpoints(points)
           \/ \E enabled \in BOOLEAN : EnableStepMode(enabled)
           \/ CallStepDebug \/ StepHalted \/ RunReturns
  BY <1>4 DEF SetBreakpoints, EnableStepMode, CallStepDebug, StepHalted, RunReturns, machineVars
<1>5. CASE Loading
  BY <1>5 DEF Loading, controlVars
<1>6. CASE Abort \/ ClientThrows
  BY <1>6 DEF Abort, Throw, ClientThrows, Perish, Terminate, controlVars
<1>7. CASE Gone \/ UNCHANGED vars
  BY <1>7 DEF Gone, vars, machineVars, controlVars
<1> QED
  BY <1>1, <1>2, <1>3, <1>4, <1>5, <1>6, <1>7 DEF Next, Work, Client

LEMMA LeftType == TypeOK /\ LimitInv => StepsLeft \in Nat
  BY DEF TypeOK, LimitInv, StepsLeft, Entered

LEMMA WorkShrinks ==
  ASSUME TypeOK, CallInv, LimitInv, Work
  PROVE  caller # "none" /\ StepsLeft \in Nat /\ StepsLeft' \in 0 .. StepsLeft - 1
<1> USE DEF TypeOK, LimitInv, StepsLeft, Entered
<1>1. status = "ready" /\ caller # "none"
  <2>1. ASSUME Step PROVE Ready
    BY <2>1 DEF Step, Execute, Jump, Arithmetic, Immediate, LoadRegister, StoreRegister, Push,
       Pop, Call, RequestInterrupt, Compare, Halt, UploadTexture, Executing
  <2>2. status = "ready"
    BY <2>1 DEF Work, Enter, EnterInterrupt, Abort, Throw, StepHalted, RunReturns, Ready
  <2>3. caller # "none"
    BY DEF Work, Enter, Step, Abort, Stepping, StepHalted, RunReturns, CallInv
  <2> QED
    BY <2>2, <2>3
<1>2. StepsLeft \in Nat /\ StepsLeft >= 1
  BY <1>1
<1>3. CASE Step
  <2>1. status' = "ready" /\ in_step' = FALSE /\ max_steps' = max_steps
    BY <1>1, <1>3 DEF Step, Retire, Execute, Jump, Arithmetic, Immediate, LoadRegister,
       StoreRegister, Push, Pop, Call, RequestInterrupt, Compare, Halt, UploadTexture, Advance
  <2>2. CASE caller = "run"
    <3>1. i' = i + 1 /\ caller' = "run" /\ i < max_steps
      BY <1>3, <2>2 DEF Step, Retire, Stepping, LoopEnds
    <3> QED
      BY <1>1, <2>1, <2>2, <3>1
  <2>3. CASE caller # "run"
    <3>1. caller' = "none"
      BY <1>3, <2>3 DEF Step, Retire
    <3> QED
      BY <1>2, <3>1
  <2> QED
    BY <2>2, <2>3
<1>4. CASE Enter
  <2>1. UNCHANGED <<caller, i, max_steps>> /\ ~in_step
        /\ ((status' = "ready" /\ in_step' = TRUE) \/ status' = "terminated")
    BY <1>1, <1>4 DEF Enter, EnterInterrupt, Terminate, Ready
  <2> QED
    BY <1>1, <1>2, <2>1
<1>5. CASE Abort
  BY <1>2, <1>5 DEF Abort, Throw, Terminate
<1>6. CASE StepHalted \/ RunReturns
  BY <1>2, <1>6 DEF StepHalted, RunReturns
<1> QED
  BY <1>1, <1>3, <1>4, <1>5, <1>6 DEF Work

LEMMA StepShrinks ==
  TypeOK /\ CallInv /\ LimitInv /\ [Next]_vars =>
    [caller # "none" => StepsLeft \in Nat /\ StepsLeft' \in 0 .. StepsLeft - 1]_vars
<1> SUFFICES ASSUME TypeOK, CallInv, LimitInv, Next, vars' # vars, caller # "none"
             PROVE  StepsLeft \in Nat /\ StepsLeft' \in 0 .. StepsLeft - 1
  OBVIOUS
<1>1. ~Loading /\ ~Client /\ ~Gone
  BY DEF Loading, Client, SetBreakpoints, EnableStepMode, CallRun, CallStepDebug,
     ClientThrows, Idling, Gone, CallInv, TypeOK
<1> QED
  BY <1>1, WorkShrinks DEF Next

(* run(n) takes at most 2n + 1 steps, whatever program it runs.            *)
THEOREM ShrinkCorrect == Calls => CallShrinks
<1>1. Init => CallInv /\ LimitInv
  BY DEF Init, CallInv, LimitInv
<1> QED
  BY <1>1, StepCall, StepLimit, StepShrinks, TypeCorrect, PTL DEF Calls, CallShrinks
-----------------------------------------------------------------------------
(* Loading is over before anything can halt.                               *)
HaltInv == halted => status \in {"ready", "terminated"}

LEMMA StepHaltInv == HaltInv /\ [Next]_vars => HaltInv'
<1> SUFFICES ASSUME HaltInv, [MachineNext]_machineVars
             PROVE  HaltInv'
  BY StepsMachine
<1>1. CASE UNCHANGED <<halted, status>>
  BY <1>1 DEF HaltInv
<1>2. CASE Execute
  <2>1. status = "ready" /\ status' = status
    BY <1>2 DEF Execute, Jump, Arithmetic, Immediate, LoadRegister, StoreRegister, Push, Pop,
       Call, RequestInterrupt, Compare, Halt, UploadTexture, Advance, Executing, Ready
  <2> QED
    BY <2>1 DEF HaltInv
<1>3. CASE Terminate
  BY <1>3 DEF Terminate, HaltInv
<1>4. ASSUME NEW code \in Programs, LoadProgram(code)
      PROVE  HaltInv'
  BY <1>3, <1>4 DEF LoadProgram, HaltInv
<1>5. ASSUME NEW p \in Patches, LoadData(p)
      PROVE  HaltInv'
  BY <1>1, <1>3, <1>5 DEF LoadData
<1>6. CASE FinishLoading
  BY <1>6 DEF FinishLoading, HaltInv
<1>7. CASE EnterInterrupt
  BY <1>1, <1>3, <1>7 DEF EnterInterrupt
<1>8. CASE Throw \/ Perish \/ UNCHANGED machineVars
  BY <1>1, <1>3, <1>8 DEF Throw, Perish, machineVars
<1> QED
  BY <1>2, <1>4, <1>5, <1>6, <1>7, <1>8 DEF MachineNext

(* After HALT no call can be noticed: run() and step_debug() return at     *)
(* once, and an interrupt cannot wake the processor.                       *)
THEOREM HaltCorrect == Calls => HaltIsFinal
<1>1. Init => HaltInv
  BY DEF Init, MachineInit, HaltInv
<1>2. HaltInv /\ [Next]_vars => [halted => UNCHANGED machineVars]_vars
  <2> SUFFICES ASSUME HaltInv, [MachineNext]_machineVars, halted
               PROVE  UNCHANGED machineVars
    BY StepsMachine
  <2> QED
    BY DEF HaltInv, MachineNext, LoadProgram, LoadData, FinishLoading, EnterInterrupt, Throw,
       Perish, Ready, Execute, Jump, Arithmetic, Immediate, LoadRegister, StoreRegister, Push,
       Pop, Call, RequestInterrupt, Compare, Halt, UploadTexture, Executing
<1> QED
  BY <1>1, <1>2, StepHaltInv, PTL DEF Calls, HaltIsFinal

(* A requested interrupt is entered before anything else happens to the    *)
(* program, however long the client pauses in between.                     *)
THEOREM RequestCorrect == Calls => RequestIsNext
<1>1. TypeOK /\ [Next]_vars =>
        [interrupt_pending /\ status' = "ready" /\ pc' # pc =>
           /\ ~interrupt_pending'
           /\ pc' = Read(memory, gpu_regs, VectorAddress, 8)
           /\ regs'[LINK_REGISTER] = pc]_vars
  <2> SUFFICES ASSUME TypeOK, [MachineNext]_machineVars,
                      interrupt_pending, status' = "ready", pc' # pc
               PROVE  /\ ~interrupt_pending'
                      /\ pc' = Read(memory, gpu_regs, VectorAddress, 8)
                      /\ regs'[LINK_REGISTER] = pc
    BY StepsMachine
  <2>1. EnterInterrupt /\ ~Terminate
    BY DEF MachineNext, LoadProgram, LoadData, FinishLoading, Throw, Perish, Terminate, Execute,
       Jump, Arithmetic, Immediate, LoadRegister, StoreRegister, Push, Pop, Call,
       RequestInterrupt, Compare, Halt, UploadTexture, Executing, machineVars
  <2> QED
    BY <2>1, MachineAssumption DEF EnterInterrupt, TypeOK, MachineTypeOK
<1> QED
  BY <1>1, TypeCorrect, PTL DEF Calls, RequestIsNext
-----------------------------------------------------------------------------
(* CMP keeps the order of operands whose difference can be represented.    *)
LEMMA Ordered ==
  ASSUME NEW x \in Value, NEW y \in Value, 2 * (Signed(x) - Signed(y)) \in -B8 .. B8 - 1
  PROVE  LET d == Signed(x) - Signed(y)
         IN  /\ Wrap(d) = 0 <=> x = y
             /\ d < 0 <=> Signed(x) < Signed(y)
             /\ Signed(Wrap(d)) < 0 <=> Signed(x) < Signed(y)
<1>1. B8 \in Nat /\ B8 >= 2 /\ x \in Int /\ y \in Int /\ x >= 0 /\ y >= 0 /\ x < B8 /\ y < B8
  BY Widening, ValueInt
<1>2. PICK d \in Int : d = Signed(x) - Signed(y)
  <2>1. Signed(x) \in Int /\ Signed(y) \in Int
    BY <1>1 DEF Signed
  <2> QED BY <2>1
<1>3. 2 * d >= -B8 /\ 2 * d < B8
  BY <1>1, <1>2
<1>4. Signed(x) \in Int /\ Signed(y) \in Int /\ (d = 0 <=> x = y)
  BY <1>1, <1>2 DEF Signed
<1>5. Wrap(d) = IF d >= 0 THEN d ELSE d + B8
  <2>1. CASE d >= 0
    <3>1. d \in 0 .. B8 - 1
      BY <1>1, <1>3, <2>1
    <3>2. d % B8 = d
      BY <1>1, <3>1
    <3> QED BY <2>1, <3>2 DEF Wrap
  <2>2. CASE d < 0
    <3>1. d + B8 \in 0 .. B8 - 1
      BY <1>1, <1>3, <2>2
    <3>2. (d + B8) % B8 = d + B8 /\ (d + B8) % B8 = d % B8
      BY <1>1, <3>1
    <3> QED BY <2>2, <3>2 DEF Wrap
  <2> QED BY <2>1, <2>2
<1>6. Wrap(d) = 0 <=> d = 0
  BY <1>1, <1>3, <1>5
<1>7. Signed(Wrap(d)) < 0 <=> d < 0
  BY <1>1, <1>3, <1>5 DEF Signed
<1>8. d < 0 <=> Signed(x) < Signed(y)
  BY <1>2, <1>4
<1> QED BY <1>2, <1>4, <1>6, <1>7, <1>8

LEMMA StepCompares ==
  ASSUME TypeOK, [Next]_vars, Fetching, Op = "CMP", pc' # pc,
         2 * (Signed(Rn) - Signed(Rm)) \in -B8 .. B8 - 1
  PROVE  /\ last_cmp' = 0 <=> Rn = Rm
         /\ last_cmp_negative' <=> Signed(Rn) < Signed(Rm)
<1>1. Compare
  <2>1. [MachineNext]_machineVars /\ status = "ready" /\ ~interrupt_pending
    BY StepsMachine DEF Fetching, Ready
  <2>2. Execute
    BY <2>1 DEF MachineNext, LoadProgram, LoadData, FinishLoading, EnterInterrupt, Throw,
                Perish, Terminate, machineVars
  <2>3. Op \notin UNION {IdleOps, BranchOps, DrawOps, AluOps, ImmOps, LoadOps, StoreOps,
                        {"PUSH", "POP", "CALL", "INT", "HALT", "GPUTEX"}}
    BY DEF StoreOps, IdleOps, BranchOps, DrawOps, AluOps, ImmOps, LoadOps
  <2> QED
    BY <2>2, <2>3 DEF Execute, Jump, Arithmetic, Immediate, LoadRegister, StoreRegister, Push, Pop,
       Call, RequestInterrupt, Halt, UploadTexture, Executing
<1>2. MachineTypeOK /\ Fetched \in Instruction
  BY FetchType DEF TypeOK, Fetching
<1>3. Rn \in Value /\ Rm \in Value
  BY <1>2, OperandType
<1> DEFINE d == Signed(Rn) - Signed(Rm)
<1>4. last_cmp' = Wrap(d) /\ last_cmp_negative' \in {d < 0, Signed(Wrap(d)) < 0}
  BY <1>1 DEF Compare
<1>5. /\ Wrap(d) = 0 <=> Rn = Rm
      /\ d < 0 <=> Signed(Rn) < Signed(Rm)
      /\ Signed(Wrap(d)) < 0 <=> Signed(Rn) < Signed(Rm)
  BY <1>3, Ordered
<1> QED BY <1>4, <1>5

(* Branches after a comparison see the order of the signed operands.       *)
THEOREM CompareCorrect == Calls => CompareOrders
<1>1. TypeOK /\ [Next]_vars =>
        [LET difference == Signed(Rn) - Signed(Rm)
         IN  Fetching /\ Op = "CMP" /\ pc' # pc
               /\ 2 * difference \in -B8 .. B8 - 1
             => /\ last_cmp' = 0 <=> Rn = Rm
                /\ last_cmp_negative' <=> Signed(Rn) < Signed(Rm)]_vars
  BY StepCompares
<1> QED
  BY <1>1, TypeCorrect, PTL DEF Calls, CompareOrders
-----------------------------------------------------------------------------
(* The bytes of a word, joined, are the word.                              *)
LEMMA BytesJoin ==
  ASSUME NEW w \in Word
  PROVE  (ByteOf(w, 0) + B * ByteOf(w, 1)) + B2 * (ByteOf(w, 2) + B * ByteOf(w, 3)) = w
<1>1. B \in Nat /\ B > 0 /\ B2 \in Nat /\ B2 > 0 /\ B2 = B * B /\ B4 = B2 * B2 /\ w \in 0 .. B2 * B2 - 1
  BY Widening DEF B2, B4, Word
<1>2. PICK l \in 0 .. B2 - 1, h \in 0 .. B2 - 1 : w = l + B2 * h
  BY <1>1, Split
<1>3. PICK a \in 0 .. B - 1, b \in 0 .. B - 1 : l = a + B * b
  BY <1>1, Split
<1>4. PICK c \in 0 .. B - 1, d \in 0 .. B - 1 : h = c + B * d
  BY <1>1, Split
<1>5. w \in Nat /\ l \in Nat /\ h \in Nat /\ a \in Nat /\ b \in Nat /\ c \in Nat /\ d \in Nat
  BY <1>1
<1>6. w \div B2 = h
  BY <1>1, <1>2, <1>5, Unique
<1>7. w % B = a /\ w \div B = b + B * h
  <2>1. PICK y \in Nat : y = b + B * h
    BY <1>1, <1>5
  <2>2. w = a + B * y
    <3>1. B * y = B * b + B * (B * h)
      BY <1>1, <1>5, <2>1
    <3>2. B * (B * h) = B2 * h
      BY <1>1, <1>5
    <3>3. PICK u \in Int, v \in Int, s \in Int : u = B2 * h /\ v = B * b /\ s = B * y
      BY <1>1, <1>5, <2>1
    <3>4. s = v + u /\ w = l + u /\ l = a + v
      BY <1>2, <1>3, <3>1, <3>2, <3>3
    <3>5. w = a + s
      BY <1>5, <3>3, <3>4
    <3> QED BY <3>3, <3>5
  <2>3. B \in Nat /\ B > 0 /\ a \in 0 .. B - 1 /\ w \in Nat
    BY <1>1, <1>5
  <2>4. w % B = a /\ w \div B = y
    BY <2>2, <2>3, Unique
  <2> QED BY <2>1, <2>4
<1>8. (w \div B) % B = b /\ h % B = c
  <2>1. PICK y \in Nat : y = b + B * h
    BY <1>1, <1>5
  <2>2. y % B = b
    BY <1>1, <1>5, <2>1, Unique
  <2>3. h % B = c
    BY <1>1, <1>4, <1>5, Unique
  <2> QED BY <1>7, <2>1, <2>2, <2>3
<1>9. (w \div (B2 * B)) % B = d
  <2>1. PICK p \in Nat : p = B2 * B /\ p > 0
    BY <1>1
  <2>2. PICK x \in 0 .. p - 1 : x = l + B2 * c
    BY <1>1, <2>1, Join
  <2>3. w = x + p * d
    <3>1. B2 * h = B2 * c + B2 * (B * d) /\ B2 * (B * d) = p * d
      BY <1>1, <1>4, <1>5, <2>1
    <3> QED BY <1>2, <1>1, <1>5, <2>1, <2>2, <3>1
  <2>0. p \in Nat /\ p > 0
    BY <2>1
  <2>4. w \div p = d
    BY <1>5, <2>0, <2>2, <2>3, Unique
  <2>5. d % B = d
    BY <1>1
  <2> QED BY <2>1, <2>4, <2>5
<1>10. ByteOf(w, 0) = a /\ ByteOf(w, 1) = b /\ ByteOf(w, 2) = c /\ ByteOf(w, 3) = d
  BY <1>6, <1>7, <1>8, <1>9 DEF ByteOf
<1> QED BY <1>2, <1>3, <1>4, <1>10

LEMMA StepStores ==
  ASSUME TypeOK, [Next]_vars, status = "reset", status' = "loading"
  PROVE  \E code \in Programs :
           /\ program_end' = 4 * Len(code)
           /\ \A k \in 1 .. Len(code) :
                ~Mapped(4 * (k - 1), 4) => Read(memory', gpu_regs', 4 * (k - 1), 4) = code[k]
<1>1. PICK code \in Programs : LoadProgram(code)
  BY StepsMachine DEF MachineNext, LoadData, FinishLoading, EnterInterrupt, Execute, Jump, Arithmetic,
     Immediate, LoadRegister, StoreRegister, Push, Pop, Call, RequestInterrupt, Compare, Halt,
     UploadTexture, Executing, Ready, Throw, Perish, machineVars
<1>2. /\ ~LoadThrows(code) /\ program_end' = 4 * Len(code)
      /\ memory' = [a \in Address |->
                      IF Covers(code, a) /\ ~Mapped(4 * (a \div 4), 4)
                      THEN ByteOf(WordAt(code, a), a % 4) ELSE 0]
  BY <1>1 DEF LoadProgram, Terminate
<1>3. Len(code) \in Nat /\ (\A k \in 1 .. Len(code) : code[k] \in Word) /\ 4 * Len(code) <= MemSize
  <2>1. Len(code) \in Nat /\ (\A k \in 1 .. Len(code) : code[k] \in Word)
    BY MachineAssumption
  <2>2. ~(4 * Len(code) > MemSize)
    BY <1>2 DEF LoadThrows
  <2> QED BY <2>1, <2>2, MemoryAssumption
<1>4. ASSUME NEW k \in 1 .. Len(code), ~Mapped(4 * (k - 1), 4)
      PROVE  Read(memory', gpu_regs', 4 * (k - 1), 4) = code[k]
  <2>1. PICK n \in Nat : n = k - 1 /\ n < Len(code)
    BY <1>3
  <2>2. ASSUME NEW j \in 0 .. 3
        PROVE  memory'[4 * n + j] = ByteOf(code[k], j)
    <3>1. 4 * n + j \in Address /\ (4 * n + j) \div 4 = n /\ (4 * n + j) % 4 = j
      BY <1>3, <2>1, MemoryAssumption DEF Address
    <3>2. Covers(code, 4 * n + j) /\ WordAt(code, 4 * n + j) = code[k]
      BY <1>3, <2>1, <3>1 DEF Covers, WordAt
    <3> QED BY <1>2, <1>4, <2>1, <3>1, <3>2
  <2>3. /\ memory'[4 * n] = ByteOf(code[k], 0) /\ memory'[4 * n + 1] = ByteOf(code[k], 1)
        /\ memory'[4 * n + 2] = ByteOf(code[k], 2) /\ memory'[(4 * n + 2) + 1] = ByteOf(code[k], 3)
    <3>1. 4 * n + 0 = 4 * n /\ (4 * n + 2) + 1 = 4 * n + 3
      BY <2>1
    <3> QED BY <2>2, <3>1
  <2>4. Load4(memory', 4 * n) = code[k]
    BY <1>3, <2>3, BytesJoin DEF Load4, Load2, Load1
  <2> QED BY <1>4, <2>1, <2>4 DEF Read, Load
<1> QED BY <1>2, <1>4

(* What load_program puts beside the window, the processor fetches.        *)
THEOREM StoredCorrect == Calls => ProgramIsStored
<1>1. TypeOK /\ [Next]_vars =>
        [status = "reset" /\ status' = "loading" =>
           \E code \in Programs :
             /\ program_end' = 4 * Len(code)
             /\ \A k \in 1 .. Len(code) :
                  ~Mapped(4 * (k - 1), 4) => Read(memory', gpu_regs', 4 * (k - 1), 4) = code[k]]_vars
  BY StepStores
<1> QED
  BY <1>1, TypeCorrect, PTL DEF Calls, ProgramIsStored
=============================================================================
