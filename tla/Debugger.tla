------------------------------ MODULE Debugger ------------------------------
(***************************************************************************)
(* A session of the program: main() loads, installs the breakpoints and    *)
(* either runs or enters debug_repl(), which turns each command of the     *)
(* user into calls of CPU and changes of the trace sink.                   *)
(*                                                                         *)
(* `repl` is where main() is: "load", "start", at the "prompt", in the     *)
(* call a command made ("step", "resume", "continue", "run"), at the       *)
(* "report" that follows the session, or "exited".                         *)
(***************************************************************************)
EXTENDS CPU, TraceSink, Ranks

CONSTANTS
  BreakAddresses,  (* the addresses a `break` command names       *)
  Watches,         (* the watchpoints a `watch` command adds      *)
  MaxSteps         (* --max-steps                                 *)

ASSUME DebuggerAssumption ==
  /\ \A w \in Watches : w.start \in Value /\ w.length \in Value
  /\ MaxSteps \in Limits
  /\ \A a \in BreakAddresses, points \in BreakpointSets : points \cup {a} \in BreakpointSets

VARIABLES
  repl,
  watchpoints,  (* CPU::watchpoints_                                        *)
  reported      (* the accesses check_watchpoints reported in the last step *)

sessionVars == <<repl, watchpoints, reported>>
debuggerVars == <<vars, sinkVars, sessionVars>>

DebuggerInit ==
  /\ Init /\ SinkInit
  /\ repl = "load" /\ watchpoints = {} /\ reported = {}

GoTo(place) == repl' = place /\ UNCHANGED <<watchpoints, reported>>

LoadFiles == repl = "load" /\ Loading /\ UNCHANGED <<sinkVars, sessionVars>>

(* --break and --watch; a specification that does not parse is skipped.    *)
InstallOptions ==
  /\ repl = "load"
  /\ \E points \in BreakpointSets : SetBreakpoints(points)
  /\ repl' = "start" /\ watchpoints' \in SUBSET Watches
  /\ UNCHANGED <<sinkVars, reported>>

StartDebug == repl = "start" /\ EnableStepMode(TRUE) /\ GoTo("prompt") /\ UNCHANGED sinkVars
StartRun   == repl = "start" /\ CallRun(MaxSteps) /\ GoTo("run") /\ UNCHANGED sinkVars
-----------------------------------------------------------------------------
(* The loop of debug_repl: it ends when the processor has halted.          *)
AtPrompt == repl = "prompt" /\ Idling /\ ~halted

HaltSeen ==
  /\ repl = "prompt" /\ Idling /\ halted
  /\ GoTo("report")
  /\ UNCHANGED <<vars, sinkVars>>

CmdStep == AtPrompt /\ CallStepDebug /\ GoTo("step") /\ UNCHANGED sinkVars

StepReturned ==
  /\ repl = "step" /\ Idling
  /\ GoTo("prompt")
  /\ UNCHANGED <<vars, sinkVars>>

(* `continue` clears step_mode, calls run() and, unless the program has    *)
(* halted, sets step_mode again.                                           *)
CmdContinue == AtPrompt /\ EnableStepMode(FALSE) /\ GoTo("resume") /\ UNCHANGED sinkVars
Resume == repl = "resume" /\ CallRun(MaxSteps) /\ GoTo("continue") /\ UNCHANGED sinkVars

(* Mutant of ContinueReturned: it trusts run() to have set step_mode.      *)
ContinueReturnedPlain ==
  repl = "continue" /\ Idling /\ GoTo("prompt") /\ UNCHANGED <<vars, sinkVars>>

ContinueReturned ==
  /\ repl = "continue" /\ Idling
  /\ IF halted THEN UNCHANGED vars ELSE EnableStepMode(TRUE)
  /\ GoTo("prompt")
  /\ UNCHANGED sinkVars

CmdBreak(a) ==
  /\ AtPrompt
  /\ SetBreakpoints(breakpoints \cup {a})
  /\ UNCHANGED <<sinkVars, sessionVars>>

CmdWatch(w) ==
  /\ AtPrompt
  /\ watchpoints' = watchpoints \cup {w}
  /\ UNCHANGED <<vars, sinkVars, repl, reported>>

CmdTrace == AtPrompt /\ TraceCommand /\ UNCHANGED <<vars, sessionVars>>

(* `break`, `watch` or `mem` with a name that is neither a symbol nor a    *)
(* number: parse_symbol_term throws and debug_repl does not catch.         *)
CmdUnknownSymbol ==
  AtPrompt /\ ClientThrows /\ UNCHANGED <<sinkVars, sessionVars>>

(* `quit`, `exit`, or the end of the input.                                *)
CmdQuit == AtPrompt /\ GoTo("report") /\ UNCHANGED <<vars, sinkVars>>

RunReturned ==
  /\ repl = "run" /\ Idling
  /\ GoTo("report")
  /\ UNCHANGED <<vars, sinkVars>>

Exit == repl = "report" /\ GoTo("exited") /\ UNCHANGED <<vars, sinkVars>>
-----------------------------------------------------------------------------
(* The accesses to memory the processor is about to make, instruction      *)
(* fetch and interrupt frame included; the window is not watched.          *)
StepAccesses ==
  {x \in IF interrupt_pending THEN {<<VectorAddress, 8>>, <<PushSlot, 8>>}
                              ELSE {<<pc, 4>>} \cup DataAccesses : ~Mapped(x[1], x[2])}

(* Mutant of Hits: only the first byte of the access is looked up.         *)
HitsFirst(x, w) == x[1] >= w.start /\ x[1] < Wrap(w.start + w.length)

(* check_watchpoints: the ranges overlap.                                  *)
Hits(x, w) == ~(Wrap(x[1] + x[2]) <= w.start \/ x[1] >= Wrap(w.start + w.length))

(* Both trace_instruction and check_watchpoints return at once when there  *)
(* is no trace stream.                                                     *)
Observe ==
  /\ reported' = IF stream = "null" THEN {}
                 ELSE {x \in StepAccesses : \E w \in watchpoints : Hits(x, w)}
  /\ IF stream # "null" /\ (Step \/ reported' # {}) THEN Emit ELSE UNCHANGED sinkVars
  /\ UNCHANGED <<repl, watchpoints>>

Process ==
  \/ (Enter \/ Step) /\ Observe
  \/ (Abort \/ StepHalted \/ RunReturns) /\ UNCHANGED <<sinkVars, sessionVars>>

(* What main() does without waiting for the user.                          *)
Busy ==
  \/ Process \/ Resume \/ StepReturned \/ ContinueReturned \/ HaltSeen
  \/ RunReturned \/ Exit

Command ==
  \/ CmdStep \/ CmdContinue \/ CmdTrace \/ CmdUnknownSymbol \/ CmdQuit
  \/ \E a \in BreakAddresses : CmdBreak(a)
  \/ \E w \in Watches : CmdWatch(w)

Over == (status = "terminated" \/ repl = "exited") /\ UNCHANGED debuggerVars

DebuggerNext ==
  LoadFiles \/ InstallOptions \/ StartDebug \/ StartRun \/ Command \/ Busy \/ Over

(* Nothing makes the user type; what is under way goes on.                 *)
DebuggerSpec ==
  DebuggerInit /\ [][DebuggerNext]_debuggerVars /\ WF_debuggerVars(Busy)
-----------------------------------------------------------------------------
(* While the prompt waits for a command nothing can run on: step_mode is   *)
(* set, whichever way the last command ended.                              *)
PromptPaused == AtPrompt => step_mode

(* With the trace on, an access to memory is reported if and only if one   *)
(* of its bytes lies in a watched range (of at least a byte), whichever    *)
(* instruction makes it.                                                   *)
Bytes(start, length) == start .. start + length - 1
WatchIsExact ==
  [][(Enter \/ Step) /\ status' = "ready" /\ stream # "null" =>
       \A x \in StepAccesses :
         x \in reported' <=>
           \E w \in watchpoints :
             Bytes(x[1], x[2]) \cap Bytes(w.start, w.length) # {}]_debuggerVars

(* Every command comes back to the prompt or ends the session.             *)
Responsive ==
  repl \in {"step", "resume", "continue", "run", "report"}
    ~> (AtPrompt \/ repl = "exited" \/ status = "terminated")

(* A command is a few stages, each with at most one call: whatever the     *)
(* program under test does, main() comes closer to the prompt, or to the   *)
(* end of the session, with everything it does by itself.                  *)
StagesLeft ==
  IF repl = "resume" THEN 3
  ELSE IF repl \in {"step", "continue", "run"} THEN 2
  ELSE IF repl = "report" THEN 1 ELSE 0
CommandShrinks ==
  [][StagesLeft > 0 =>
       Descends(<<StagesLeft, StepsLeft>>, <<StagesLeft', StepsLeft'>>)]_debuggerVars

-----------------------------------------------------------------------------
(* What the documentation says and the code does not do.                   *)

Watched == \E x \in StepAccesses, w \in watchpoints :
             Bytes(x[1], x[2]) \cap Bytes(w.start, w.length) # {}

(* README.md:149, continue: "Run until a breakpoint, watchpoint hit, or    *)
(* max-step limit": the run makes no further step after a hit.             *)
WatchPausesRun ==
  [][repl = "continue" /\ RunStep /\ Watched /\ i' < max_steps /\ ~halted'
       => step_mode']_debuggerVars

(* main.cpp:294, "Invalid breakpoint spec", after which the loop goes on:  *)
(* a command with a bad address does not end the process.                  *)
BadSpecIsReported == [][AtPrompt => status' # "terminated"]_debuggerVars
=============================================================================
