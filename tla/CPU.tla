-------------------------------- MODULE CPU ---------------------------------
(***************************************************************************)
(* Class CPU: the Machine driven through run(), step_debug(), the step     *)
(* mode and the breakpoints.  The object is used from one thread, so a     *)
(* call runs to its end before the client makes the next one; `caller`     *)
(* says which call is in progress.                                         *)
(*                                                                         *)
(* step() is Enter, when an interrupt is pending, followed by Step or      *)
(* Abort: in_step is TRUE between the two halves of one step().            *)
(***************************************************************************)
EXTENDS Machine, FiniteSets

CONSTANTS
  BreakpointSets,  (* the sets a client may install             *)
  Limits           (* the max_steps a client may pass to run()  *)

ASSUME CPUAssumption ==
  /\ \A points \in BreakpointSets : points \subseteq Value
  /\ Limits \subseteq Nat

VARIABLES
  breakpoints, step_mode,
  caller,           (* "none", or the call in progress       *)
  i, max_steps,     (* run(): instructions so far, and limit *)
  in_step           (* step() has entered an interrupt       *)

controlVars == <<breakpoints, step_mode, caller, i, max_steps, in_step>>
vars == <<machineVars, controlVars>>

Init ==
  /\ MachineInit
  /\ breakpoints = {} /\ step_mode = FALSE
  /\ caller = "none" /\ i = 0 /\ max_steps = 0 /\ in_step = FALSE

(* main() loads one program and its data before it makes any other call.   *)
Loading ==
  /\ status \in {"reset", "loading"}
  /\ \/ \E code \in Programs : LoadProgram(code)
     \/ \E p \in Patches : LoadData(p)
     \/ FinishLoading
  /\ UNCHANGED controlVars
-----------------------------------------------------------------------------
(* The client's calls.                                                     *)
Idling == status = "ready" /\ caller = "none"

SetBreakpoints(points) ==
  /\ Idling
  /\ breakpoints' = points
  /\ UNCHANGED <<machineVars, step_mode, caller, i, max_steps, in_step>>

EnableStepMode(enabled) ==
  /\ Idling
  /\ step_mode' = enabled
  /\ UNCHANGED <<machineVars, breakpoints, caller, i, max_steps, in_step>>

CallRun(limit) ==
  /\ Idling
  /\ caller' = "run" /\ i' = 0 /\ max_steps' = limit
  /\ UNCHANGED <<machineVars, breakpoints, step_mode, in_step>>

CallStepDebug ==
  /\ Idling
  /\ caller' = "step_debug"
  /\ UNCHANGED <<machineVars, breakpoints, step_mode, i, max_steps, in_step>>

(* The client itself fails between two calls, as debug_repl does on an     *)
(* address it cannot parse; its loop ends when the processor has halted.   *)
ClientThrows == Idling /\ Perish /\ UNCHANGED controlVars

Client ==
  \/ \E points \in BreakpointSets : SetBreakpoints(points)
  \/ \E enabled \in BOOLEAN : EnableStepMode(enabled)
  \/ \E limit \in Limits : CallRun(limit)
  \/ CallStepDebug
  \/ ClientThrows
-----------------------------------------------------------------------------
(* The loop of run() looks at the limit, at halted and at step_mode before *)
(* it looks for a breakpoint.                                              *)
LoopEnds == i >= max_steps \/ halted \/ step_mode
AtBreakpoint == pc \in breakpoints

(* Mutant of Stepping: run() leaves the breakpoints to step().             *)
SteppingBlindly ==
  in_step \/ caller = "step_debug" \/ (caller = "run" /\ ~LoopEnds)

(* step() is called, or is under way.                                      *)
Stepping ==
  \/ in_step
  \/ caller = "step_debug"
  \/ caller = "run" /\ ~LoopEnds /\ ~AtBreakpoint

(* Mutants of Retire: breakpoints looked up for the instruction executed,  *)
(* and a step that does not count.                                         *)
RetireLooking ==
  /\ in_step' = FALSE
  /\ IF caller = "run"
     THEN i' = i + 1 /\ step_mode' = (step_mode \/ pc \in breakpoints) /\ UNCHANGED caller
     ELSE caller' = "none" /\ UNCHANGED <<i, step_mode>>
  /\ UNCHANGED <<breakpoints, max_steps>>
RetireUncounted ==
  /\ in_step' = FALSE
  /\ IF caller = "run"
     THEN step_mode' = (step_mode \/ Successor \in breakpoints) /\ UNCHANGED caller
     ELSE caller' = "none" /\ UNCHANGED step_mode
  /\ UNCHANGED <<breakpoints, i, max_steps>>

(* The end of step(), which looks for a breakpoint where the instruction   *)
(* left pc, and the return to the caller: step_debug() restores step_mode. *)
Retire ==
  /\ in_step' = FALSE
  /\ IF caller = "run"
     THEN /\ i' = i + 1
          /\ step_mode' = (step_mode \/ Successor \in breakpoints)
          /\ UNCHANGED caller
     ELSE /\ caller' = "none"
          /\ UNCHANGED <<i, step_mode>>
  /\ UNCHANGED <<breakpoints, max_steps>>

Enter ==
  /\ Stepping
  /\ EnterInterrupt
  /\ in_step' = (status' = "ready")
  /\ UNCHANGED <<breakpoints, step_mode, caller, i, max_steps>>

Step ==
  /\ Stepping
  /\ Execute
  /\ Retire

Abort ==
  /\ Stepping
  /\ Throw
  /\ UNCHANGED controlVars

(* Mutant of StepHalted: pc moves on after HALT.                           *)
StepHaltedOn ==
  /\ status = "ready" /\ caller = "step_debug" /\ halted
  /\ caller' = "none" /\ pc' = Wrap(pc + 4)
  /\ UNCHANGED <<regs, memory, gpu_regs, program_end, halted, last_cmp, last_cmp_negative,
                 interrupt_pending, interrupt_vector, textures, status,
                 breakpoints, step_mode, i, max_steps, in_step>>

(* step() does nothing when the processor has halted.                      *)
StepHalted ==
  /\ status = "ready" /\ caller = "step_debug" /\ halted
  /\ caller' = "none"
  /\ UNCHANGED <<machineVars, breakpoints, step_mode, i, max_steps, in_step>>

RunReturns ==
  /\ status = "ready" /\ caller = "run" /\ ~in_step
  /\ LoopEnds \/ AtBreakpoint
  /\ caller' = "none"
  /\ step_mode' = (step_mode \/ ~LoopEnds)
  /\ UNCHANGED <<machineVars, breakpoints, i, max_steps, in_step>>

Work == Enter \/ Step \/ Abort \/ StepHalted \/ RunReturns

(* The process is gone: TLC is not to take this for a deadlock.            *)
Gone == status = "terminated" /\ UNCHANGED vars

Next == Loading \/ Client \/ Work \/ Gone

(* The thread that made a call keeps executing it; it may never make       *)
(* another one.                                                            *)
Fairness == WF_vars(Work)

(* What a client's calls do, whether or not they are gone on with.         *)
Calls == Init /\ [][Next]_vars
Spec == Calls /\ Fairness
-----------------------------------------------------------------------------
(* The processor's types, and those of what drives it; and a step() in     *)
(* which an interrupt has been entered is not interrupted by loading.      *)
TypeOK ==
  /\ MachineTypeOK
  /\ breakpoints \subseteq Value
  /\ step_mode \in BOOLEAN
  /\ caller \in {"none", "run", "step_debug"}
  /\ i \in Nat /\ max_steps \in Nat
  /\ in_step \in BOOLEAN
  /\ in_step => status \in {"ready", "terminated"}
-----------------------------------------------------------------------------
(* The instruction about to be executed (by step(), past any interrupt).   *)
Fetching == Ready /\ ~interrupt_pending /\ Fetchable

(* This step of the specification ends a step() that run(), or that        *)
(* step_debug(), has made.                                                 *)
RunStep   == caller = "run" /\ i' = i + 1
DebugStep == caller = "step_debug" /\ caller' = "none" /\ ~halted

(* An access that does not throw is served by the window or lies in        *)
(* memory, although the bounds checks of read_u* and write_u* add without  *)
(* regard to overflow: an address near 2^64 must never reach the array.    *)
AccessInMemory ==
  Fetching =>
    \A x \in DataAccesses \cup {<<pc, 4>>} :
      Accessible(x[1], x[2]) => Mapped(x[1], x[2]) \/ x[1] + x[2] <= MemSize

(* An interrupt entered leaves the pc to return to, that of the interrupted *)
(* instruction, in the link register and, if the stack is in memory, in    *)
(* the word on top of the stack, wherever in memory that is.               *)
FrameHolds ==
  [][~in_step /\ in_step' =>
       /\ regs'[LINK_REGISTER] = pc
       /\ ~Mapped(SP', 8) => Load8(memory', SP') = pc]_vars

(* run() executes no instruction at a breakpoint, whether it was reached   *)
(* by falling through, by a jump, by skipping an instruction or by the     *)
(* call of run() itself; only a handler's first instruction is exempt,     *)
(* since step() enters the interrupt after the loop has looked.            *)
NeverPastBreakpoint ==
  [][RunStep /\ ~in_step => pc \notin breakpoints]_vars

(* When run() gives up before its limit and before HALT, a breakpoint      *)
(* explains it: at pc, or just before it when step() skipped the           *)
(* instruction there; or step mode was on when run() was called.           *)
PauseHasReason ==
  [][caller = "run" /\ caller' = "none" =>
       \/ halted \/ i >= max_steps
       \/ {pc, Wrap(pc - 4)} \cap breakpoints # {}
       \/ i = 0 /\ step_mode]_vars

(* After HALT no call of the client changes anything a program can see.    *)
HaltIsFinal == [][halted => UNCHANGED machineVars]_vars

(* A requested interrupt is the next thing that happens to the program:    *)
(* until its handler is entered no instruction runs, no register, flag or  *)
(* byte changes and no other request replaces it, over any number of       *)
(* pauses and calls of the client.                                         *)
RequestIsNext ==
  [][interrupt_pending /\ status' = "ready" /\ pc' # pc =>
       /\ ~interrupt_pending'
       /\ pc' = Read(memory, gpu_regs, VectorAddress, 8)
       /\ regs'[LINK_REGISTER] = pc]_vars

(* An instruction never leaves pc where it was, whatever the program does  *)
(* with branches, RET and the stack: step() skips it.                      *)
NoSelfSpin ==
  [][RunStep \/ DebugStep => pc' # pc]_vars

(* The access a store, a push or an interrupt entry is about to write.     *)
Writes ==
  CASE Ready /\ interrupt_pending         -> {<<PushSlot, 8>>}
    [] Fetching /\ Op \in StoreOps        -> {<<DataAddress, Width(Op)>>}
    [] Fetching /\ Op = "PUSH"            -> {<<PushSlot, 8>>}
    [] OTHER                              -> {}

(* Once the program is loaded a byte of memory changes only as part of a   *)
(* write aimed at it and outside the window, and a GPU register only by a  *)
(* write into the window: neither leaks into the other, at their borders,  *)
(* at the ends of memory or where an address wraps.                        *)
NoStrayWrite ==
  [][status = "ready" =>
       /\ \A a \in Address : memory'[a] # memory[a] =>
            \E x \in Writes : ~Mapped(x[1], x[2]) /\ a \in x[1] .. x[1] + x[2] - 1
       /\ gpu_regs' # gpu_regs => \E x \in Writes : Mapped(x[1], x[2])]_vars

(* What a store puts in memory a load of the same width finds there.       *)
StoreReadsBack ==
  [][Fetching /\ Op \in StoreOps /\ ~Mapped(DataAddress, Width(Op)) /\ pc' # pc =>
       Load(memory', DataAddress, Width(Op)) = StoredValue]_vars

(* A call returns, or an exception ends the process: no program keeps      *)
(* run() from reaching its limit.                                          *)
CallsEnd == caller # "none" ~> (caller = "none" \/ status = "terminated")

(* How many steps the call in progress can still take: entering an         *)
(* interrupt and the instruction after it are two.                         *)
Entered == IF in_step THEN 1 ELSE 0
StepsLeft ==
  IF caller = "none" \/ status = "terminated" THEN 0
  ELSE IF caller = "run" THEN 2 * (max_steps - i) + 1 - Entered
  ELSE 2 - Entered

(* run(n) returns or throws after at most 2n + 1 steps, and step_debug()   *)
(* after two: whatever a call does next, it has less left to do.  No       *)
(* request, skipped instruction or breakpoint is free, and i never passes  *)
(* its limit.                                                              *)
CallShrinks ==
  [][caller # "none" => StepsLeft \in Nat /\ StepsLeft' \in 0 .. StepsLeft - 1]_vars

(* CMP orders its operands as signed numbers, for the branches that ask,   *)
(* at the ends of the 64-bit range and across zero, as long as their       *)
(* difference can be represented.                                          *)
CompareOrders ==
  [][LET difference == Signed(Rn) - Signed(Rm)
     IN  Fetching /\ Op = "CMP" /\ pc' # pc
           /\ 2 * difference \in -B8 .. B8 - 1
         => /\ last_cmp' = 0 <=> Rn = Rm
            /\ last_cmp_negative' <=> Signed(Rn) < Signed(Rm)]_vars

(* The words of a program that lie beside the window are those the         *)
(* processor fetches, although load_program lets the window have the       *)
(* others, which can run commands while the program is being loaded.       *)
ProgramIsStored ==
  [][status = "reset" /\ status' = "loading" =>
       \E code \in Programs :
         /\ program_end' = 4 * Len(code)
         /\ \A k \in 1 .. Len(code) :
              ~Mapped(4 * (k - 1), 4) => Read(memory', gpu_regs', 4 * (k - 1), 4) = code[k]]_vars
-----------------------------------------------------------------------------
(* What the documentation says and the code does not do.                   *)

(* cpu.cpp:653 and its siblings throw "read_u64 out of bounds": an access  *)
(* beyond memory ends the program.                                         *)
WildAccessThrows ==
  [][Fetching /\ pc' # pc => \A x \in DataAccesses : x[1] + x[2] <= MemSize]_vars

(* cpu.cpp:233, "Data load exceeds memory bounds": a segment that does not *)
(* fit in memory ends the program, and so loading data leaves the          *)
(* registers alone.                                                        *)
WildDataThrows == [][status = "loading" => UNCHANGED regs]_vars
=============================================================================
