---------------------------- MODULE DebuggerProofs -----------------------------
(***************************************************************************)
(* Proofs about Debugger: a session is a client of CPU and of TraceSink,   *)
(* so that what is proved of them holds in it, whatever the user types;    *)
(* and what the session itself promises.                                   *)
(***************************************************************************)
EXTENDS Debugger, CPUProofs, TraceSinkProofs

(* From the installation of the options on, the breakpoints are among      *)
(* those a client may set, since `break` only adds to them.                *)
PointsOK == repl # "load" => breakpoints \in BreakpointSets

(* Each step of a session is a step of the processor and of its client, or *)
(* leaves both alone (debug_repl, main).                                   *)
LEMMA StepCalls == PointsOK /\ [DebuggerNext]_debuggerVars => [Next]_vars
<1> SUFFICES ASSUME PointsOK, [DebuggerNext]_debuggerVars PROVE [Next]_vars
  OBVIOUS
<1>1. CASE LoadFiles
  BY <1>1 DEF LoadFiles, Next
<1>2. CASE InstallOptions
  BY <1>2 DEF InstallOptions, Next, Client
<1>3. CASE StartDebug
  BY <1>3 DEF StartDebug, Next, Client
<1>4. CASE StartRun
  BY <1>4, DebuggerAssumption DEF StartRun, Next, Client
<1>5. CASE Command
  <2>1. CASE CmdStep
    BY <2>1 DEF CmdStep, Next, Client
  <2>2. CASE CmdContinue
    BY <2>2 DEF CmdContinue, Next, Client
  <2>3. CASE CmdTrace \/ CmdQuit
    BY <2>3 DEF CmdTrace, CmdQuit
  <2>4. CASE CmdUnknownSymbol
    BY <2>4 DEF CmdUnknownSymbol, Next, Client
  <2>5. ASSUME NEW a \in BreakAddresses, CmdBreak(a) PROVE Next
    <3>1. breakpoints \cup {a} \in BreakpointSets
      BY <2>5, DebuggerAssumption DEF CmdBreak, AtPrompt, PointsOK
    <3> QED BY <2>5, <3>1 DEF CmdBreak, Next, Client
  <2>6. ASSUME NEW w \in Watches, CmdWatch(w) PROVE UNCHANGED vars
    BY <2>6 DEF CmdWatch
  <2> QED BY <1>5, <2>1, <2>2, <2>3, <2>4, <2>5, <2>6 DEF Command
<1>6. CASE Busy
  <2>1. CASE Process
    BY <2>1 DEF Process, Next, Work
  <2>2. CASE Resume
    BY <2>2, DebuggerAssumption DEF Resume, Next, Client
  <2>3. CASE StepReturned \/ HaltSeen \/ RunReturned \/ Exit
    BY <2>3 DEF StepReturned, HaltSeen, RunReturned, Exit
  <2>4. CASE ContinueReturned
    BY <2>4 DEF ContinueReturned, Next, Client
  <2> QED BY <1>6, <2>1, <2>2, <2>3, <2>4 DEF Busy
<1>7. CASE Over \/ UNCHANGED debuggerVars
  BY <1>7 DEF Over, debuggerVars
<1> QED BY <1>1, <1>2, <1>3, <1>4, <1>5, <1>6, <1>7 DEF DebuggerNext

LEMMA StepPoints == PointsOK /\ [DebuggerNext]_debuggerVars => PointsOK'
<1> SUFFICES ASSUME PointsOK, [DebuggerNext]_debuggerVars PROVE PointsOK'
  OBVIOUS
<1>1. CASE InstallOptions
  BY <1>1 DEF InstallOptions, SetBreakpoints, PointsOK
<1>2. ASSUME NEW a \in BreakAddresses, CmdBreak(a) PROVE PointsOK'
  BY <1>2, DebuggerAssumption DEF CmdBreak, AtPrompt, SetBreakpoints, PointsOK
<1>3. CASE LoadFiles
  BY <1>3 DEF LoadFiles, sessionVars, PointsOK
<1>4. CASE StartDebug \/ CmdContinue
  BY <1>4 DEF StartDebug, CmdContinue, AtPrompt, EnableStepMode, GoTo, PointsOK
<1>5. CASE StartRun \/ Resume
  BY <1>5 DEF StartRun, Resume, CallRun, GoTo, PointsOK
<1>6. CASE CmdStep
  BY <1>6 DEF CmdStep, AtPrompt, CallStepDebug, GoTo, PointsOK
<1>7. CASE ContinueReturned
  BY <1>7 DEF ContinueReturned, EnableStepMode, GoTo, vars, controlVars, PointsOK
<1>8. CASE CmdUnknownSymbol
  BY <1>8 DEF CmdUnknownSymbol, ClientThrows, controlVars, sessionVars, PointsOK
<1>9. ASSUME UNCHANGED vars, repl # "load" PROVE PointsOK'
  BY <1>9 DEF vars, controlVars, PointsOK
<1>10. CASE CmdTrace \/ CmdQuit \/ \E w \in Watches : CmdWatch(w)
  BY <1>9, <1>10 DEF CmdTrace, CmdQuit, CmdWatch, AtPrompt
<1>11. CASE StepReturned \/ HaltSeen \/ RunReturned \/ Exit
  BY <1>9, <1>11 DEF StepReturned, HaltSeen, RunReturned, Exit
<1>12. CASE Process
  BY <1>12 DEF Process, Observe, Enter, Step, Retire, Abort, StepHalted, RunReturns, controlVars, sessionVars,
     PointsOK
<1>13. CASE Over \/ UNCHANGED debuggerVars
  BY <1>13 DEF Over, debuggerVars, sessionVars, vars, controlVars, PointsOK
<1> QED BY <1>1, <1>2, <1>3, <1>4, <1>5, <1>6, <1>7, <1>8, <1>10, <1>11, <1>12, <1>13
        DEF DebuggerNext, Command, Busy

(* To the processor a session is one of its clients.                       *)
LEMMA SessionCalls == DebuggerSpec => Calls
<1>1. DebuggerInit => Init /\ PointsOK
  BY DEF DebuggerInit, PointsOK
<1> QED BY <1>1, StepCalls, StepPoints, PTL DEF DebuggerSpec, Calls

(* What CPUProofs shows of the processor under any client holds in every   *)
(* session, whatever the user types: the prompt, its breakpoints and the   *)
(* trace cannot break a promise of the processor (debug_repl, main).       *)
THEOREM SessionKeeps ==
  DebuggerSpec =>
    /\ [](TypeOK /\ AccessInMemory)
    /\ FrameHolds /\ NoStrayWrite /\ StoreReadsBack /\ ProgramIsStored
    /\ NeverPastBreakpoint /\ PauseHasReason /\ NoSelfSpin /\ CallShrinks
    /\ HaltIsFinal /\ RequestIsNext /\ CompareOrders
    /\ MachineSpec
BY SessionCalls, TypeCorrect, AccessCorrect, FrameCorrect, NoStrayCorrect, ReadsBackCorrect,
   StoredCorrect, BreakpointCorrect, PauseCorrect, SelfSpinCorrect, ShrinkCorrect, HaltCorrect,
   RequestCorrect, CompareCorrect, Transparent, PTL
-----------------------------------------------------------------------------
(* A call of the processor is in progress only where main() has made one.  *)
CallerInv ==
  /\ caller # "none" => repl \in {"step", "continue", "run"}
  /\ CallInv /\ LimitInv

LEMMA PairDescends ==
  ASSUME NEW a \in Nat, NEW b \in Nat, NEW c \in Nat, NEW d \in Nat,
         c < a \/ (c = a /\ d < b)
  PROVE  Descends(<<a, b>>, <<c, d>>)
<1> DEFINE r == <<a, b>>
           s == <<c, d>>
<1>1. DOMAIN r = {1, 2} /\ DOMAIN s = {1, 2} /\ r[1] = a /\ r[2] = b /\ s[1] = c /\ s[2] = d
  OBVIOUS
<1> HIDE DEF r, s
<1>2. IsRank(r) /\ IsRank(s)
  BY <1>1 DEF IsRank
<1>3. Descends(r, s)
  BY <1>1, <1>2 DEF Descends
<1> QED
  BY <1>3 DEF r, s

LEMMA StepCaller == TypeOK /\ PointsOK /\ CallerInv /\ [DebuggerNext]_debuggerVars => CallerInv'
<1> SUFFICES ASSUME TypeOK, PointsOK, CallerInv, [DebuggerNext]_debuggerVars
             PROVE  caller' # "none" => repl' \in {"step", "continue", "run"}
  BY StepCalls, StepCall, StepLimit DEF CallerInv
<1> USE DEF CallerInv
<1>1. CASE UNCHANGED vars /\ AtPrompt
  BY <1>1 DEF AtPrompt, Idling, vars, controlVars
<1>2. CASE LoadFiles \/ InstallOptions \/ StartDebug \/ StartRun
  BY <1>2 DEF LoadFiles, Loading, InstallOptions, SetBreakpoints, StartDebug, EnableStepMode,
     StartRun, CallRun, GoTo, Idling, controlVars, sessionVars
<1>3. CASE Command
  BY <1>1, <1>3 DEF Command, CmdStep, CmdContinue, CmdTrace, CmdUnknownSymbol, CmdQuit, CmdBreak,
     CmdWatch, AtPrompt, Idling, CallStepDebug, EnableStepMode, SetBreakpoints, ClientThrows,
     GoTo, vars, controlVars
<1>4. CASE Process
  <2>1. repl' = repl /\ Work
    BY <1>4 DEF Process, Observe, Work, sessionVars
  <2>2. caller # "none"
    BY <2>1, WorkShrinks
  <2> QED
    BY <2>1, <2>2
<1>5. CASE Resume
  BY <1>5 DEF Resume, GoTo
<1>6. CASE StepReturned \/ ContinueReturned \/ HaltSeen \/ RunReturned \/ Exit
  BY <1>6 DEF StepReturned, ContinueReturned, EnableStepMode, HaltSeen, RunReturned, Exit, Idling,
     GoTo, vars, controlVars
<1>7. CASE Over \/ UNCHANGED debuggerVars
  BY <1>7 DEF Over, debuggerVars, vars, controlVars, sessionVars
<1> QED
  BY <1>2, <1>3, <1>4, <1>5, <1>6, <1>7 DEF DebuggerNext, Busy

LEMMA StepShrinksStages ==
  ASSUME TypeOK, PointsOK, CallerInv, DebuggerNext, debuggerVars' # debuggerVars, StagesLeft > 0
  PROVE  Descends(<<StagesLeft, StepsLeft>>, <<StagesLeft', StepsLeft'>>)
<1>1. StagesLeft \in Nat /\ StagesLeft' \in Nat
  BY DEF StagesLeft
<1>2. StepsLeft \in Nat /\ StepsLeft' \in Nat
  <2>1. TypeOK' /\ CallerInv'
    BY StepCalls, StepType, StepCaller
  <2>2. TypeOK /\ LimitInv => StepsLeft \in Nat
    BY LeftType
  <2>3. (TypeOK /\ LimitInv => StepsLeft \in Nat)'
    BY LeftType, PTL
  <2> QED
    BY <2>1, <2>2, <2>3 DEF CallerInv
<1>3. repl \in {"step", "continue", "run", "resume", "report"}
  BY DEF StagesLeft
<1>4. Busy
  BY <1>3 DEF DebuggerNext, LoadFiles, InstallOptions, StartDebug, StartRun, Command, CmdStep,
     CmdContinue, CmdTrace, CmdUnknownSymbol, CmdQuit, CmdBreak, CmdWatch, AtPrompt, Over
<1>5. CASE Process
  <2>1. repl' = repl /\ Work
    BY <1>5 DEF Process, Observe, Work, sessionVars
  <2>2. StepsLeft' < StepsLeft
    BY <2>1, <1>2, WorkShrinks DEF CallerInv
  <2> QED
    BY <2>1, <2>2, <1>1, <1>2, PairDescends DEF StagesLeft
<1>6. CASE Resume \/ StepReturned \/ ContinueReturned \/ RunReturned \/ Exit
  <2>1. \/ repl = "resume" /\ repl' = "continue"
        \/ repl \in {"step", "continue"} /\ repl' = "prompt"
        \/ repl = "run" /\ repl' = "report"
        \/ repl = "report" /\ repl' = "exited"
    BY <1>6 DEF Resume, StepReturned, ContinueReturned, RunReturned, Exit, GoTo
  <2>2. StagesLeft' < StagesLeft
    BY <2>1 DEF StagesLeft
  <2> QED
    BY <2>2, <1>1, <1>2, PairDescends
<1>7. ~HaltSeen
  BY <1>3 DEF HaltSeen
<1> QED
  BY <1>4, <1>5, <1>6, <1>7 DEF Busy

(* Whatever main() does by itself brings it closer to the prompt or to the *)
(* end.                                                                    *)
THEOREM CommandCorrect == DebuggerSpec => CommandShrinks
<1>1. DebuggerInit => CallerInv /\ PointsOK /\ TypeOK
  BY InitType DEF DebuggerInit, Init, CallerInv, CallInv, LimitInv, PointsOK
<1>2. TypeOK /\ PointsOK /\ [DebuggerNext]_debuggerVars => TypeOK'
  BY StepCalls, StepType
<1>3. TypeOK /\ PointsOK /\ CallerInv /\ [DebuggerNext]_debuggerVars =>
        [StagesLeft > 0 =>
           Descends(<<StagesLeft, StepsLeft>>, <<StagesLeft', StepsLeft'>>)]_debuggerVars
  BY StepShrinksStages
<1> QED
  BY <1>1, <1>2, <1>3, StepPoints, StepCaller, PTL DEF DebuggerSpec, CommandShrinks
-----------------------------------------------------------------------------
(* A session uses the trace sink as TraceSink says.                        *)
LEMMA StepUsesSink == [DebuggerNext]_debuggerVars => [SinkNext]_sinkVars
<1> SUFFICES ASSUME DebuggerNext PROVE SinkNext \/ UNCHANGED sinkVars
  BY DEF debuggerVars
<1>1. CASE LoadFiles \/ InstallOptions \/ StartDebug \/ StartRun
  BY <1>1 DEF LoadFiles, InstallOptions, StartDebug, StartRun
<1>2. CASE Command
  BY <1>2 DEF Command, CmdStep, CmdContinue, CmdTrace, CmdUnknownSymbol, CmdQuit, CmdBreak, CmdWatch, SinkNext
<1>3. CASE Busy
  <2>1. CASE Process
    BY <2>1 DEF Process, Observe, SinkNext
  <2>2. CASE Resume \/ StepReturned \/ ContinueReturned \/ HaltSeen \/ RunReturned \/ Exit
    BY <2>2 DEF Resume, StepReturned, ContinueReturned, HaltSeen, RunReturned, Exit
  <2> QED BY <1>3, <2>1, <2>2 DEF Busy
<1>4. CASE Over
  BY <1>4 DEF Over, debuggerVars
<1> QED BY <1>1, <1>2, <1>3, <1>4 DEF DebuggerNext

(* And what TraceSinkProofs shows of the sink: in a session too the sink   *)
(* that is active and the mode that is preferred are real ones, whether    *)
(* trace, watch or an access to memory touched them last (debug_repl).     *)
THEOREM SessionSink == DebuggerSpec => [](ActiveIsReal /\ PreferredIsKnown)
<1>1. DebuggerInit => SinkInv
  BY SinkAssumption DEF DebuggerInit, SinkInit, SinkInv, ActiveIsReal, PreferredIsKnown, OpenIsNamed
<1>2. SinkInv => ActiveIsReal /\ PreferredIsKnown
  BY DEF SinkInv
<1> QED BY <1>1, <1>2, SinkInvStep, StepUsesSink, PTL DEF DebuggerSpec
-----------------------------------------------------------------------------
(* At the prompt, and in the step a command asked for, run() is not under  *)
(* way and step_mode is set unless the program has halted.                 *)
PausedInv == repl \in {"prompt", "step"} => caller # "run" /\ (halted \/ step_mode)

LEMMA StepPaused == PausedInv /\ [DebuggerNext]_debuggerVars => PausedInv'
<1> SUFFICES ASSUME PausedInv, [DebuggerNext]_debuggerVars PROVE PausedInv'
  OBVIOUS
<1>1. ASSUME repl' \notin {"prompt", "step"} PROVE PausedInv'
  BY <1>1 DEF PausedInv
<1>2. CASE LoadFiles \/ InstallOptions \/ StartRun \/ HaltSeen \/ CmdContinue \/ Resume \/ CmdQuit \/ RunReturned \/ Exit
  BY <1>1, <1>2 DEF LoadFiles, InstallOptions, StartRun, HaltSeen, CmdContinue, Resume, CmdQuit, RunReturned,
     Exit, GoTo, sessionVars
<1>3. CASE StartDebug
  BY <1>3 DEF StartDebug, EnableStepMode, Idling, PausedInv
<1>4. CASE CmdStep
  BY <1>4 DEF CmdStep, CallStepDebug, AtPrompt, GoTo, machineVars, PausedInv
<1>5. CASE StepReturned
  BY <1>5 DEF StepReturned, Idling, vars, machineVars, controlVars, PausedInv
<1>6. CASE ContinueReturned
  <2>1. CASE halted
    BY <1>6, <2>1 DEF ContinueReturned, Idling, vars, machineVars, controlVars, PausedInv
  <2>2. CASE ~halted
    BY <1>6, <2>2 DEF ContinueReturned, EnableStepMode, Idling, PausedInv
  <2> QED BY <2>1, <2>2
<1>7. ASSUME NEW a \in BreakAddresses, CmdBreak(a) PROVE PausedInv'
  BY <1>7 DEF CmdBreak, SetBreakpoints, AtPrompt, machineVars, sessionVars, PausedInv
<1>8. ASSUME NEW w \in Watches, CmdWatch(w) PROVE PausedInv'
  BY <1>8 DEF CmdWatch, vars, machineVars, controlVars, PausedInv
<1>9. CASE CmdTrace
  BY <1>9 DEF CmdTrace, vars, machineVars, controlVars, sessionVars, PausedInv
<1>10. CASE CmdUnknownSymbol
  BY <1>10 DEF CmdUnknownSymbol, ClientThrows, Perish, Terminate, controlVars, sessionVars, PausedInv
<1>11. CASE Process
  <2>1. repl' = repl
    BY <1>11 DEF Process, Observe, sessionVars
  <2>2. CASE Step
    <3>1. ~halted
      BY <2>2 DEF Step, Execute, Jump, Arithmetic, Immediate, LoadRegister, StoreRegister, Push, Pop, Call,
         RequestInterrupt, Compare, Halt, UploadTexture, Executing, Ready
    <3>2. caller # "run" => step_mode' = step_mode /\ caller' # "run"
      BY <2>2, Zenon DEF Step, Retire
    <3> QED BY <2>1, <3>1, <3>2 DEF PausedInv
  <2>3. CASE Enter
    <3>1. ~halted /\ step_mode' = step_mode /\ caller' = caller
      BY <2>3 DEF Enter, EnterInterrupt, Ready
    <3> QED BY <2>1, <3>1 DEF PausedInv
  <2>4. CASE Abort
    <3>1. ~halted /\ step_mode' = step_mode /\ caller' = caller
      BY <2>4 DEF Abort, Throw, Ready, controlVars
    <3> QED BY <2>1, <3>1 DEF PausedInv
  <2>5. CASE StepHalted
    BY <2>1, <2>5 DEF StepHalted, machineVars, PausedInv
  <2>6. CASE RunReturns
    BY <2>1, <2>6 DEF RunReturns, PausedInv
  <2> QED BY <1>11, <2>2, <2>3, <2>4, <2>5, <2>6 DEF Process
<1>12. CASE Over \/ UNCHANGED debuggerVars
  BY <1>12 DEF Over, debuggerVars, sessionVars, vars, machineVars, controlVars, PausedInv
<1> QED BY <1>2, <1>3, <1>4, <1>5, <1>6, <1>7, <1>8, <1>9, <1>10, <1>11, <1>12
        DEF DebuggerNext, Command, Busy

(* Whichever way a command has ended, nothing runs on behind the prompt    *)
(* (debug_repl).                                                           *)
THEOREM PromptCorrect == DebuggerSpec => []PromptPaused
<1>1. DebuggerInit => PausedInv
  BY DEF DebuggerInit, PausedInv
<1>2. PausedInv => PromptPaused
  BY DEF PausedInv, PromptPaused, AtPrompt
<1> QED BY <1>1, <1>2, StepPaused, PTL DEF DebuggerSpec
-----------------------------------------------------------------------------
(***************************************************************************)
(* Watchpoints.                                                            *)
(***************************************************************************)
Plain(w) == w.length > 0 /\ w.start + w.length < B8

(* Where nothing wraps, the comparison of the four ends is that of bytes.  *)
LEMMA HitsIsOverlap ==
  ASSUME NEW x \in Nat \X Nat, x[2] > 0, x[1] + x[2] < B8,
         NEW w \in [start : Value, length : Value], Plain(w)
  PROVE  Hits(x, w) <=> Bytes(x[1], x[2]) \cap Bytes(w.start, w.length) # {}
<1>1. PICK a \in Nat, n \in Nat, s \in Nat, m \in Nat : a = x[1] /\ n = x[2] /\ s = w.start /\ m = w.length
  BY ValueInt
<1>2. n > 0 /\ m > 0 /\ a + n < B8 /\ s + m < B8 /\ B8 \in Nat
  BY <1>1, Widening DEF Plain
<1>3. Wrap(a + n) = a + n /\ Wrap(s + m) = s + m
  <2>1. a + n \in Value /\ s + m \in Value
    BY <1>2 DEF Value
  <2> QED BY <2>1, WrapSmall
<1>4. Hits(x, w) <=> a + n > s /\ a < s + m
  BY <1>1, <1>2, <1>3 DEF Hits
<1>5. ASSUME a + n > s, a < s + m PROVE (a .. a + n - 1) \cap (s .. s + m - 1) # {}
  <2>1. CASE a >= s
    <3>1. a \in a .. a + n - 1 /\ a \in s .. s + m - 1
      BY <1>2, <1>5, <2>1
    <3> QED BY <3>1
  <2>2. CASE a < s
    <3>1. s \in a .. a + n - 1 /\ s \in s .. s + m - 1
      BY <1>2, <1>5, <2>2
    <3> QED BY <3>1
  <2> QED BY <2>1, <2>2
<1>6. ASSUME NEW q \in (a .. a + n - 1) \cap (s .. s + m - 1) PROVE a + n > s /\ a < s + m
  BY <1>2
<1> QED BY <1>1, <1>4, <1>5, <1>6 DEF Bytes

(* An access that is made lies in memory, so that its end does not wrap.   *)
LEMMA AccessPlain ==
  ASSUME NEW a \in Value, NEW n \in Widths, Accessible(a, n), ~Mapped(a, n)
  PROVE  <<a, n>> \in Nat \X Nat /\ n > 0 /\ a + n < B8
<1>1. a + n <= MemSize
  BY AccessibleInMemory
<1>2. MemSize + 8 <= B8 /\ B8 \in Nat /\ MemSize \in Nat
  BY BusAssumption, MemoryAssumption, Widening
<1>3. a \in Nat /\ n \in Nat /\ n > 0
  BY ValueInt DEF Widths
<1> QED BY <1>1, <1>2, <1>3

LEMMA EnterAccesses ==
  ASSUME TypeOK, Enter, status' = "ready", NEW x \in StepAccesses
  PROVE  x \in Nat \X Nat /\ x[2] > 0 /\ x[1] + x[2] < B8
<1>1. MachineTypeOK /\ interrupt_pending
  BY DEF TypeOK, Enter, EnterInterrupt
<1>2. x \in {<<VectorAddress, 8>>, <<PushSlot, 8>>} /\ ~Mapped(x[1], x[2])
  BY <1>1 DEF StepAccesses
<1>3. Accessible(PushSlot, 8)
  BY DEF Enter, EnterInterrupt, Terminate, Writable
<1>4. VectorAddress \in Value /\ PushSlot \in Value /\ Accessible(VectorAddress, 8) /\ 8 \in Widths
  BY <1>1, VectorInMemory, SlotType DEF Widths
<1>5. CASE x = <<VectorAddress, 8>>
  BY <1>2, <1>4, <1>5, AccessPlain
<1>6. CASE x = <<PushSlot, 8>>
  BY <1>2, <1>3, <1>4, <1>6, AccessPlain
<1> QED BY <1>2, <1>5, <1>6

LEMMA StepAccessesPlain ==
  ASSUME TypeOK, Step, NEW x \in StepAccesses
  PROVE  x \in Nat \X Nat /\ x[2] > 0 /\ x[1] + x[2] < B8
<1>1. MachineTypeOK /\ ~interrupt_pending /\ Fetchable /\ ~Faults
  BY DEF TypeOK, Step, Execute, Jump, Arithmetic, Immediate, LoadRegister, StoreRegister, Push, Pop, Call,
     RequestInterrupt, Compare, Halt, UploadTexture, Executing
<1>2. x \in {<<pc, 4>>} \cup DataAccesses /\ ~Mapped(x[1], x[2])
  BY <1>1 DEF StepAccesses
<1>3. CASE x = <<pc, 4>>
  <2>1. Accessible(pc, 4) /\ pc \in Value /\ 4 \in Widths
    BY <1>1 DEF Fetchable, Accessible, MachineTypeOK, Widths
  <2> QED BY <1>2, <1>3, <2>1, AccessPlain
<1>4. CASE x \in DataAccesses
  <2>1. x \in Value \X Widths
    BY <1>1, <1>4, DataAccessType DEF Access
  <2>2. PICK a \in Value, n \in Widths : x = <<a, n>>
    BY <2>1
  <2>3. Accessible(a, n)
    BY <1>1, <1>4, <2>2, Served
  <2> QED BY <1>2, <2>2, <2>3, AccessPlain
<1> QED BY <1>2, <1>3, <1>4

(* When step() runs, the session observes it: nothing else moves the       *)
(* processor.                                                              *)
LEMMA StepObserved ==
  ASSUME TypeOK, DebuggerNext, Enter \/ Step, status' = "ready"
  PROVE  Observe
<1>1. status = "ready" /\ ~UNCHANGED machineVars
  <2>1. CASE Enter
    <3>1. interrupt_pending /\ ~interrupt_pending' /\ status = "ready"
      BY <2>1 DEF Enter, EnterInterrupt, Terminate, Ready
    <3> QED BY <3>1 DEF machineVars
  <2>2. CASE Step
    <3>1. pc' # pc
      BY <2>2, ExecuteMoves DEF Step, TypeOK
    <3>2. status = "ready"
      BY <2>2 DEF Step, Execute, Jump, Arithmetic, Immediate, LoadRegister, StoreRegister, Push, Pop, Call,
         RequestInterrupt, Compare, Halt, UploadTexture, Executing, Ready
    <3> QED BY <3>1, <3>2 DEF machineVars
  <2> QED BY <2>1, <2>2
<1>2. ~LoadFiles
  BY <1>1 DEF LoadFiles, Loading
<1>3. ~InstallOptions /\ ~StartDebug /\ ~StartRun
  BY <1>1 DEF InstallOptions, StartDebug, StartRun, SetBreakpoints, EnableStepMode, CallRun
<1>4. ~Command
  BY <1>1 DEF Command, CmdStep, CmdContinue, CmdTrace, CmdUnknownSymbol, CmdQuit, CmdBreak, CmdWatch,
     CallStepDebug, EnableStepMode, SetBreakpoints, ClientThrows, Perish, Terminate, vars
<1>5. ~Over /\ ~Resume /\ ~StepReturned /\ ~HaltSeen /\ ~RunReturned /\ ~Exit
  BY <1>1 DEF Over, debuggerVars, Resume, CallRun, StepReturned, HaltSeen, RunReturned, Exit, vars
<1>6. ~ContinueReturned
  BY <1>1 DEF ContinueReturned, EnableStepMode, vars
<1>7. Process
  BY <1>2, <1>3, <1>4, <1>5, <1>6 DEF DebuggerNext, Busy
<1>8. ~Abort
  BY DEF Abort, Throw, Terminate
<1>9. ~StepHalted /\ ~RunReturns
  BY <1>1 DEF StepHalted, RunReturns
<1> QED BY <1>7, <1>8, <1>9 DEF Process

WatchesOK == watchpoints \subseteq Watches

LEMMA StepWatches == WatchesOK /\ [DebuggerNext]_debuggerVars => WatchesOK'
<1> SUFFICES ASSUME WatchesOK, [DebuggerNext]_debuggerVars PROVE WatchesOK'
  OBVIOUS
<1>1. CASE InstallOptions \/ \E w \in Watches : CmdWatch(w)
  BY <1>1 DEF InstallOptions, CmdWatch, WatchesOK
<1>2. CASE UNCHANGED watchpoints
  BY <1>2 DEF WatchesOK
<1>3. CASE LoadFiles \/ StartDebug \/ StartRun
  BY <1>2, <1>3 DEF LoadFiles, StartDebug, StartRun, GoTo, sessionVars
<1>4. CASE CmdStep \/ CmdContinue \/ CmdTrace \/ CmdUnknownSymbol \/ CmdQuit
           \/ \E a \in BreakAddresses : CmdBreak(a)
  BY <1>2, <1>4 DEF CmdStep, CmdContinue, CmdTrace, CmdUnknownSymbol, CmdQuit, CmdBreak, GoTo, sessionVars
<1>5. CASE Busy
  BY <1>2, <1>5 DEF Busy, Process, Observe, Resume, StepReturned, ContinueReturned, HaltSeen, RunReturned,
     Exit, GoTo, sessionVars
<1>6. CASE Over \/ UNCHANGED debuggerVars
  BY <1>2, <1>6 DEF Over, debuggerVars, sessionVars
<1> QED BY <1>1, <1>3, <1>4, <1>5, <1>6 DEF DebuggerNext, Command

(* With the trace on, what is reported are the accesses that touch a byte  *)
(* of a watched range, as long as the ranges are not empty and do not pass *)
(* the end of the address space (check_watchpoints).                       *)
THEOREM WatchCorrect ==
  ASSUME \A w \in Watches : w \in [start : Value, length : Value] /\ Plain(w)
  PROVE  DebuggerSpec => WatchIsExact
<1> DEFINE Exact ==
      (Enter \/ Step) /\ status' = "ready" /\ stream # "null" =>
        \A x \in StepAccesses :
          x \in reported' <=>
            \E w \in watchpoints : Bytes(x[1], x[2]) \cap Bytes(w.start, w.length) # {}
<1>1. DebuggerInit => WatchesOK
  BY DEF DebuggerInit, WatchesOK
<1>2. ASSUME TypeOK, WatchesOK, DebuggerNext PROVE Exact
  <2> SUFFICES ASSUME Enter \/ Step, status' = "ready", stream # "null", NEW x \in StepAccesses
               PROVE  x \in reported' <=>
                        \E w \in watchpoints : Bytes(x[1], x[2]) \cap Bytes(w.start, w.length) # {}
    OBVIOUS
  <2>1. x \in Nat \X Nat /\ x[2] > 0 /\ x[1] + x[2] < B8
    BY <1>2, EnterAccesses, StepAccessesPlain
  <2>2. x \in reported' <=> \E w \in watchpoints : Hits(x, w)
    BY <1>2, StepObserved DEF Observe
  <2>3. \A w \in watchpoints : Hits(x, w) <=> Bytes(x[1], x[2]) \cap Bytes(w.start, w.length) # {}
    BY <1>2, <2>1, HitsIsOverlap DEF WatchesOK
  <2> QED BY <2>2, <2>3
<1>3. TypeOK /\ WatchesOK /\ [DebuggerNext]_debuggerVars => [Exact]_debuggerVars
  BY <1>2
<1> QED BY <1>1, <1>3, StepWatches, SessionKeeps, PTL DEF DebuggerSpec, WatchIsExact
=============================================================================
