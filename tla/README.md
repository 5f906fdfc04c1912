# switch-emulator: models, checks and proofs

The emulator is a single-threaded command-line program. `main()` assembles a
source file (or loads a package), copies the program into the memory of a CPU,
runs it with or without a debugger, and then writes the picture its GPU holds.
Paths below are relative to `src/`.

## 1. Inventory

| component | code | state | operations |
|---|---|---|---|
| Memory and GPU window | `src/cpu.cpp`, `include/cpu.h` | `memory` (2 MiB), `gpu_regs_`, one mapped region | `read_u8..u64`, `write_u8..u64`, `handle_mmio_read/write`, the callbacks of the region |
| CPU core | `src/cpu.cpp` | 32 registers, `pc`, flags of `CMP`, pending interrupt, `halted`, breakpoints, step mode | `reset`, `load_program`, `load_data`, `step`, `step_debug`, `run`, `execute`, `enter_interrupt` |
| Instruction encoding | `include/instruction_set.h`, `src/cpu.cpp:27-34, 336-339` | none | `encode_r`, `encode_i`, `encode_mem`, `encode_single`, `encode_call`; the fields `execute()` extracts |
| Watchpoints, instruction trace | `src/cpu.cpp` | `watchpoints_`, `trace_stream_` | `check_watchpoints`, `trace_instruction` |
| Debugger REPL | `src/main.cpp:236-405` | place in the loop, the CPU it drives | `step`, `continue`, `break`, `watch`, `regs`, `mem`, `trace`, `frame`, `quit` |
| Trace sink | `src/main.cpp:23-49, 315-391` | `TraceState` and its file | `trace on/off/stdout/file/status` |
| Command line driver | `src/main.cpp:407-687` | options | load, install breakpoints and watches, run or debug, report |
| GPU state | `src/gpu.cpp`, `include/gpu.h` | two targets (colour, depth), the active one, textures, blend and depth modes | `reset`, `set_render_target`, `swap_buffers`, `upload_texture`, `set_blend_mode`, `clear_depth`, `write_pixel` |
| GPU rasteriser | `src/gpu.cpp` | the active target | `draw_line`, `draw_triangle`, `draw_sprite`, `dma_blit`, `submit_rectangle` |
| Assembler | `src/assembler.cpp` | sections, symbols, fixups, patches | two passes over the source |
| THB and NRO packages | `src/homebrew_package.cpp`, `src/nro_package.cpp` | a file | `save_package`, `load_package` |
| Framebuffer output, GUI viewer | `src/gpu.cpp`, `src/gui.cpp` | none kept | PPM, checksum, ANSI preview, X11 window |

**Interactions.** The CPU calls the GPU directly from `execute()`, and through
the write callback of the window when a program stores to its command port.
`step()` reads `breakpoints_` and sets `step_mode_`; `run()` reads both; the
debugger writes both between calls. Reads and writes of memory report to the
watchpoints, which write to `trace_stream_`, which the trace commands redirect
while `TraceState` keeps a second record of where it points. Exceptions thrown
anywhere below `main()` reach `main()`'s caller: the process ends.

**What is hard.** There are no threads. The difficulty lies in order and in
edges.

- *CPU*: an interrupt is entered *inside* `step()`, after `run()` has looked for
  a breakpoint and before the instruction; `step()` looks for a breakpoint
  before it skips an instruction that left `pc` on itself; `step_debug()`
  restores the step mode `step()` may have set; every bounds check adds an
  address and a size that may wrap, that of `load_data` included, which copies
  to what lies in front of memory when it is fooled; the stack, a long program and the data
  segments can reach the GPU window, where a write is not a write to memory.
- *Trace*: a failed open leaves three records of one fact (status, stream,
  file) to be kept in step by hand.
- *Assembler*: an operand is computed in one place when its name is already
  defined and in another when it is not; a patch of data is opened, closed or
  bypassed by six directives in any order, each of which may or may not flush
  it; an include runs in the middle of all that and may change the section.
- *Encoding*: immediates lie over the register fields and may be negative; a
  `MOVI` is filled in later by an OR with bits of the old word, under a mask that
  is one bit off the field it is named for.
- *Packages*: a save truncates the file before it writes, writes through a
  buffer whose last flush nobody checks, and may stop at any point; a load
  tries one format after the other on the same file, and a count in the header
  says how much must follow.
- *GPU*: `swap_buffers()` exchanges the targets and leaves the index of the
  active one; the alpha byte is the depth; the error term of a line carries
  over from pixel to pixel; the sign of a triangle depends on the order of its
  corners.

**What makes each part correct.**
- *Memory and window*: what is stored is loaded back; a write changes its bytes
  or the window, never both; no load, store, push, pop or fetch, however close
  to 2^64 its address, reaches outside the array. (`load_data` has a check of its
  own and does not give this: see the run `wild_data`.)
- *CPU*: no instruction runs at a breakpoint; a pause has a reason; after HALT
  nothing changes; a requested interrupt is the next thing to happen and leaves
  the interrupted `pc` where a handler looks for it; every call ends; a debugger cannot be noticed
  by the program.
- *Debugger*: it is always paused at the prompt, and every command comes back to
  it, each of its stages bringing it closer.
- *Watchpoints and trace*: exactly the watched accesses are reported, to the
  sink the status names.
- *GPU*: depth and colour of a pixel belong together whatever swaps and target
  changes come between; the hidden target stays hidden; a figure is the pixels
  of the ideal one and no others.
- *Assembler*: an operand used before its definition is resolved to the same
  number as one used after; nothing emitted is lost or moved; data goes on where
  it was left, but for `.org` and a `.data` line outside an open patch; assembling
  ends; the processor finds in each word what the source wrote.
- *Packages*: what is saved is loaded; a truncated or foreign file is refused as
  a whole; what is reported as written is there.

## 2. Modules

| module | models | extends |
|---|---|---|
| `Memory` | the byte array and the accesses of 1, 2, 4, 8 bytes | |
| `Bus` | what an address means: window, array or exception | `Memory` |
| `ALU` | the values `execute()` computes | `Memory` |
| `Machine` | the processor a program sees: loading, each instruction, interrupts, exceptions; also the **abstract specification** the CPU implements | `Bus`, `ALU` |
| `CPU` | `run()`, `step_debug()`, step mode, breakpoints around the machine | `Machine` |
| `TraceSink` | `TraceState`, `trace_stream_`, the trace file | |
| `Debugger` | `main()` and `debug_repl()` composing the two, with the watchpoints | `CPU`, `TraceSink`, `Ranks` |
| `Encoding` | the instruction word: `encode_*` for each operation, and the fields `execute()` takes out of it | |
| `Assembler` | both passes: sections, data patches, labels, `.equ`, includes, fixups | `Memory`, `Encoding`, `Ranks` |
| `Assembly` | the assembler with the words it emits and fills in | `Assembler` |
| `Figures` | the pixels of rectangle, triangle, sprite and blit, and one round of `draw_line` | |
| `GPU` | the two targets, textures and depth mode, and every command | `Figures`, `Ranks` |
| `PackageStore` | the **abstract specification** of the packages: whole programs under paths | |
| `Package` | `save_package`, `load_package` and `main()` around them, unit by unit | `Ranks` (instantiates `PackageStore`) |
| `Ranks` | what it is for a tuple of numbers to go down; the measures of the components are stated with it | |
| `MCCPU`, `MCDebugger`, `MCAssembler`, `MCGPU`, `MCPackage` | the instances TLC checks | |
| `BusProofs`, `MachineProofs`, `CPUProofs`, `TraceSinkProofs`, `DebuggerProofs`, `AssemblerProofs`, `GPUProofs`, `PackageProofs` | the theorems | the modules above |

**Correspondence: processor and debugger.** The variables of `Machine` and `CPU`
carry the names of the members of class `CPU` (`last_cmp` is `last_cmp_`, and so
on). One action of `Machine` is one case of the switch in `execute()` together
with the rest of the `step()` around it (`Executing` is its beginning, `Advance`
its end). `Enter` and `Step` are the two halves of one `step()` when an interrupt
is pending: `in_step` holds between them, and no other action of the thread can
come between. `caller` is the call in progress and stands for the program counter
of the client. `status` is the life of the process; an exception sets it to
"terminated" (`Terminate`) and leaves the rest as it was, because nothing can
observe it afterwards. `LoadData` adds address and size as `load_data` does, in a
`size_t`: `EndOf` wraps, and a segment that passes although it begins just below
2^64 is copied to the places in front of memory. The registers are there, 32 of
them right before the array (cpu.h:71-72), and `PlaceOf` says where each of their
bytes is; in front of the registers are whatever variables of `main()` the compiler
put there, so a segment that starts before the first register may end the process
or not. `textures` is the map of the GPU as far as an exception
depends on it: the number of pixels by id. `repl` in `Debugger` is the place in
`main()` and in the loop of `debug_repl()`.

**Correspondence: assembler.** A step handles one statement; a line `lab: ADD ..`
is two. `input` is the stack of open files that the recursion of
`assemble_stream()` through `.include` amounts to. `status` separates the first
pass, `apply_fixups()` and the two ends; an exception leaves `run()` and is
"failed". `segments`, `patch`, `patch_active`, `next_data_address`, `symbols`,
`label_to_word` and `fixups` are the members of those names; an instruction keeps
its operation, its immediate and the operand it came from. A line the parser
cannot read is the one statement "malformed". `Assembly` adds `words`, the
`program_.code` that is handed to the processor, and, as history, the registers the
line of each word named: `EmitWords` stands for `emit_instruction()` and `PatchWord`
for the rewriting of a word by `apply_fixups()`.

**Correspondence: GPU.** A script is the commands a program issues, by
instructions or through the command port: both call the same functions. Every
command is one action, except that a line is drawn a pixel per step, since its
loop carries state; a wireframe triangle is three lines. A colour has an alpha,
which is its depth. `seen` and `over` are history: what each pixel was tested for
since its depth was cleared, and where it was written without a test. `Machine`
models the same commands as seen by the processor, where they can only throw.

**Correspondence: packages.** A file is a sequence of units: header, name (NRO),
words, patches, symbols in the arbitrary order of an `unordered_map`. `rest` and
`buffer` are what `save_package()` has still to write and what lies in the buffer
of its `ofstream`; each write stays there, goes through or fails, and closing
flushes, in whole or in part. `loaders`, `pos` and `acc` are the formats still to
be tried, the next unit and the program read so far. `Kill` ends the process at
any step. `image` and `origin` are history: what the last save of a path set out
to write, and of which program. `Stored` maps files to the store: a path holds the
program of its last save when the file is its whole image, and is damaged
otherwise.

**Data.** TLC's integers have 32 bits, so the number of values of a byte is a
constant `B`; all widths are derived from it (a word is `B^4`, an address and a
register `B^8`), and every wrap-around is that of an 8-byte number. `Decode` maps
instruction words to their fields, a constant of the processor: its 16-bit words
have no room for the encoding, which `Encoding` models by itself, with the widths
of the fields as constants (`Registers`, `Near`, `Far`) and the bitwise or of two
words as another. The bitwise operations are built from
constant tables for one byte. Signed overflow in `CMP` is undefined behaviour and
modelled as a choice between the two results a build can give. In the assembler a
token is a name or the spelling of a number (`Literal`); a range of immediates is
half its width (`Near`, `Far`). Coordinates of the GPU are integers without a
width; the code's `int` and `float` agree with them as long as no sum overflows
and no product of two differences passes 2^24.

## 3. Runs

Common instance of the processor (`MCCPU`, `MCDebugger`): two-bit bytes (`B` = 4,
16-bit registers, 65536 addresses), four registers with R2 as link register and R3
as stack pointer, memory of 168 bytes, code from 0, four vectors at 32, the window
at 64..135 between code and stack as in the real layout, the stack from 152.
That keeps every region, the border between any two of them, and the distance
from the end of memory to the wrap of an address.

| run | question | bounds and why they are enough |
|---|---|---|
| `control` | breakpoints, pauses, HALT, interrupts, self-branches, end of calls and how many steps they take; `CPU` implements `MachineSpec` | all 25 programs of two words from NOP, HALT, INT, RET, `BRANCH .`, plus five longer ones (return through the stack, nested request, call, stack that wraps below 0, mixed branches); vector 1 at instruction 1 or 2; breakpoints {}, {4}, {8}; `run(3)`. Three steps suffice for an interrupt, its first instruction and one more; longer behaviours come from repeated calls |
| `bus` | what each access does, wherever it is; the types of the processor; comparisons; loading; textures | 22 addresses: each side of every border of memory, window and address space, the mode register and the command port; each width, PUSH, POP and interrupt entry; every ALU instruction and comparison on extreme operands; descriptors of textures, sprites and blits with a pixel in the window, one row too many, or a negative height; two segments whose end wraps, one over all registers and the first bytes of memory and one that starts before the registers, loaded in any order with the others; programs that end in the window, behind it and beyond memory |
| `debugger` | sessions: pausing, liveness, watchpoints, the trace | four programs (straight, interrupt, endless loop, wild load), two watches that straddle accesses of code, data and interrupt frame, trace commands on two paths that open or fail, `--max-steps` 2, so a loop always outlives a `continue`; that every step brings the prompt nearer is checked besides |
| `assembler` | operands before and after their definition, the place of data, the words, branches that arrive at their label, termination | all sources of up to three of 33 statements, each operation with each register and a positive, zero or negative operand, and five-statement sources of data only (7 statements) and of code only (8): enough for a patch to be opened, bypassed, closed and opened again, and for a name to be used, defined and used. Includes that leave the section changed, include themselves or do not exist; three files open at most; `B` = 4, four registers, immediates of 2 and 32 values, so that both ranges are exceeded and every field is full |
| `gpu` | depth and colour, hidden target, figures | a screen of 3 by 2, four depths; all scripts of up to three of 22 commands; four-command mixes of depth, target and swap; every line of a 6 by 5 grid around the screen and every filled triangle of a 4 by 4 grid, so every octant, degenerate and clipped figure occurs |
| `package` | what is loaded is what was saved, or nothing | two files, one read as THB and one as either format, each absent or foreign at first; the empty program and one with a word, a patch and two symbols, so that every part of the layout may be missing or cut; every split between buffer, file and failure, a kill at any step, any number of processes in sequence |

Only `assembler` and `gpu` turn the deadlock check off: they are single computations
that end, and that they do is one of their properties.

Runs that end in a violation, each a disagreement between the code and what the
repository says of it:

| run | what it shows |
|---|---|
| `wild_access` | an access near 2^64 is taken for the window instead of throwing (cpu.cpp:759, 771) |
| `watch_pauses` | a watchpoint does not end `continue` (README.md:149, cpu.cpp:781) |
| `bad_spec` | `break` on an unknown name ends the debugger (main.cpp:175, 292) |
| `trace_status` | `trace status` says disabled while the trace goes on (README.md:158, main.cpp:362) |
| `package_flush` | "Wrote Toy Homebrew Binary" is printed although the last flush failed (main.cpp:576, homebrew_package.cpp:145) |
| `wild_data` | a data segment at an address near 2^64 passes the check of `load_data`, whose sum wraps, and overwrites the registers (cpu.cpp:232-235; the address comes unchecked out of a package, homebrew_package.cpp:82-84, nro_package.cpp:88-90) |

**Fairness.** All of it is weak, and of the one thread of the program.
`CPU!Spec` assumes `WF_vars(Work)`: the thread inside `run()` or `step_debug()`
keeps executing, since there is nothing it could wait for. No fairness is assumed
of the client: it may never call. `DebuggerSpec` assumes `WF(Busy)` for what
`main()` does without reading input; the user may never type. `AsmSpec` and
`GpuSpec` assume it of every step, since nothing outside takes part. `PkgSpec`
assumes it of a process that has started (`Steps`), not that one starts, nor that
one is killed.

## 4. Proofs

TLAPS checks the following for every value of the constants that satisfies the
named assumptions: every width of a byte, memory size, window, number of registers,
decoding, set of programs, breakpoints and limits, every data segment at any address
of the address space; every source; every
screen and script; every set of paths, programs and patches.

The theorems about the processor are stated of `Calls`, those about the assembler
of `Passes`: the specifications without their fairness. They hold of `Spec` and
`AsmSpec`, which imply these, and, because what composes them takes only their
steps, of sessions of the debugger (`SessionKeeps`) and of the assembler that
emits words (`AssemblyKeeps`).

**Assumptions.** `MemoryAssumption`, `BusAssumption`, `ALUAssumption`,
`MachineAssumption`, `CPUAssumption`, `SinkAssumption`, `DebuggerAssumption`: a
byte has at least two values; the window lies in memory, not in its first 8 bytes,
and is word-aligned; memory and 8 more bytes fit in the address space; the
interrupt vectors end below the window (0x100 + 31 * 16 + 8 is well below
0x1F0000); programs are made of words, and data segments of bytes, whose address and length are
64-bit numbers; `--max-steps` is a
limit and a breakpoint may be added. `ALUAssumption` also states that the powers of
two a shift needs are positive numbers, because the provers do not know
exponentiation. `AssemblerAssumption`: sources are made of statements, numbers are
integers. `EncodingAssumption`, `OrAssumption`: the number of registers is even, a
far immediate fills the word up to `rd`, and setting a bit that is set changes
nothing. `FiguresAssumption`, `GPUAssumption`, `ScriptsAssumption`: the screen is
not empty, an alpha is at most that of an opaque colour, scripts are made of
commands. `PackageAssumption`, `UnitAssumption`: programs are made of words,
patches and finitely many symbols; the values standing for "no file" and "damaged"
are not files. TLC evaluates all of them on the instances above.

| theorem | statement | argument |
|---|---|---|
| `BusProofs!LoadStore` | a load returns what a store of its width left | a number below p*q is its quotient and remainder by p (`Split`); the upper half, stored last, leaves the lower alone (`Store*Local`, `LoadLocal`) |
| `MachineTypeCorrect`, `CPUProofs!TypeCorrect` | `MachineTypeOK`, `TypeOK` | one lemma per kind of step; every value goes through `Wrap` or an access of its width (`ReadType`), which needs that the access is served; a register that a wrapping data segment has been copied over is eight bytes joined (`JoinedType`) |
| `CPUProofs!Transparent` | `Spec => MachineSpec` | each step of the CPU is a machine step or a stutter (`StepsMachine`) |
| `AccessCorrect` | `AccessInMemory` | from the types (`AccessibleInMemory`): an address that wraps is at least `MemSize`, so above the window's base, and its wrapped sum is below 8, so below the window's end: the window claims it |
| `FrameCorrect` | `FrameHolds`: the interrupted `pc` is in the link register and in the word on top of a stack in memory | only `Enter` sets `in_step`; the two registers are different ones, and `LoadStore8` reads the word back |
| `NoStrayCorrect`, `ReadsBackCorrect` | `NoStrayWrite`, `StoreReadsBack` | `StoreLocal`, `LoadStore` |
| `CompareCorrect` | `CompareOrders` | where the signed difference has a representation, its sign bit is the order (`Ordered`) |
| `StoredCorrect` | `ProgramIsStored` | the four bytes of a word join to the word (`BytesJoin`); the position that a memory index stores is unique |
| `MachineProofs!ProductUnsigned` | `MUL`, computed with signs, is the product modulo the width of a register | reading an operand with its sign changes it by a multiple of `B^8`, and remainders are unique (`Modulo`) |
| `MachineProofs!LogicByByte` | `AND`, `OR` and `XOR` act on each byte, with no carry, and yield a register | digits of a sum of digits (`EightBytes`), one position at a time |
| `ShrinkCorrect` | `CallShrinks`: `run(n)` takes at most 2n + 1 steps | needs `LimitInv`: `i` does not pass the limit, and only a `step()` under way has entered an interrupt |
| `SelfSpinCorrect` | `NoSelfSpin` | `pc + 4`, wrapped, is never `pc`; HALT itself moves on |
| `BreakpointCorrect` | `NeverPastBreakpoint` | the guard of the loop, and `RunStep` is no other action |
| `PauseCorrect` | `PauseHasReason` | not inductive: needs `PauseInv` (step mode was off when an interrupt was entered; once on, a breakpoint is at `pc` or one word before it) and `CallInv` (an entered interrupt belongs to a call of a loaded, unhalted processor) |
| `HaltCorrect` | `HaltIsFinal` | `HaltInv`: nothing halts before loading is over |
| `RequestCorrect` | `RequestIsNext` | with a request pending only `EnterInterrupt` moves `pc` |
| `TraceSinkProofs!ActiveCorrect`, `PreferredCorrect` | `ActiveIsReal`, `PreferredIsKnown` | `ActiveIsReal` is not inductive: `trace on` takes an open file on trust, which `OpenIsNamed` (the open file is the remembered one) justifies |
| `DebuggerProofs!SessionKeeps` | all properties of the processor, and `MachineSpec`, hold in every session | every step of a session is a step of `CPU` or leaves it alone (`SessionCalls`), and the theorems above |
| `SessionSink` | `ActiveIsReal` and `PreferredIsKnown` hold in every session | every step of a session is a step of `TraceSink` or leaves it alone (`StepUsesSink`) |
| `CommandCorrect` | `CommandShrinks` | each stage of a command makes at most one call, and calls shrink; needs `CallerInv`: a call is under way only where `main()` has made one |
| `PromptCorrect` | `PromptPaused` | `PausedInv`: at the prompt and during `step` the processor is in step mode or has halted, and no `run()` is under way |
| `WatchCorrect` | `WatchIsExact` | two ranges that do not wrap overlap exactly when neither ends before the other begins (`HitsIsOverlap`); that the accesses do not wrap follows from `AccessInMemory`. Hypothesis of the theorem: watched ranges are not empty and do not wrap; for others the code answers differently |
| `AssemblerProofs!AsmTypeCorrect` | `AsmTypeOK` | one lemma per directive; strengthened by the type of the sources |
| `NothingLostCorrect` | `NothingLost` | needs `PatchClosed`: a patch that is not open is empty, so opening one drops nothing |
| `DataContinuesCorrect` | `DataContinues`: the location moves by what is appended, but for the three places of `Displaced` | the location in terms of the patch and of `next_data_address`, before and after each directive; closing a patch (`CloseStays`) goes on at its end, or, if it has no byte, at `next_data_address`, which `Displaced` compares with it |
| `ResolvedAlikeCorrect` | `ResolvedAlike` | `ResolveInv`: a name is bound once and a label of the code is four times its word (`NamesAgree`); a fixup carries the operand of its instruction; every instruction either has its meaning already or waits for a fixup (`AllSettled`) |
| `ArrivalCorrect` | `LabelsArrive` | the label's address is four times its word (`NamesAgree`), the instruction's immediate is the distance to it (`ResolveInv`), and the word holds that immediate (`WordsAsWritten`) |
| `AssemblyCorrect` | `AssemblyShrinks` | the rank has one place for each depth of open files; an include puts lines only behind the place it takes one from (`AssemblyLeft`), and needs that no more files are open than `MaxOpen` + 1 |
| `AssemblyKeeps` | what is proved of the assembler holds when it emits words | `WordsFollow` |
| `WordsFollow`, `WordsCorrect` | `AssemblySpec` implements `Passes`; `WordsAsWritten` | quotient and remainder are unique (`QuotientAndRest`), so each field comes back (`UpperFields`, `SecondField`, `ThirdField`, `LowestField`) and each immediate with its sign (`SignReturns`); no two fixups are for one word and the word of a fixup is still zero (`FixupsFresh`), so the bits that a `MOVI` keeps are those of its own `rd` (`KeptOfRd`) |
| `GPUProofs!GpuTypeCorrect`, `NearestCorrect`, `LineTrueCorrect` | `GpuTypeOK`, `NearestShown`, `LineTrue` | one invariant `GpuInv`. For lines it holds (`Sound`) that `err` is D - E + W, with W = j*D - i*E after i and j steps, and that 2W is between -m and m for m the longer side; a step in a direction that is finished is then never taken |
| `LineThinCorrect` | `LineThin` | the same bounds: the round moves along the longer side unless it is the last |
| `LineLength` | a line takes as many rounds as its longer side, and is at its end when they are over | the counts i and j of `Sound`: when the longer side is done the bounds on W leave the shorter one nothing to do |
| `ScriptCorrect` | `ScriptShrinks` | `GpuInv` and `LineLength` |
| `SteadyCorrect` | `ScreenSteady` | one lemma per command |
| `TriangleCorrect` | `TriangleCovers` | three edge functions of a point sum to the area of the triangle and are its barycentric weights (`Barycentric`, `EdgeOfMean`); their common sign is that of the area |
| `PackageProofs!PkgTypeCorrect`, `ReportedCorrect` | `PkgTypeOK`, `ReportedIsWhole` | `PkgInv`: every file is the beginning of the image last saved there, an image is the layout of a program (`SerialIs`), and file, buffer and rest make up the image while it is being saved |
| `ProcessCorrect` | `ProcessShrinks` | `PkgInv`; a loader that refuses a file is never tried again, and each unit that is read or written is one less of the finite image |
| `StoreCorrect` | `StoreImplemented` | `LoadInv` says that `acc` is what the units before `pos` hold, so that `LoadDone` on a whole file yields the program saved and a truncated one never reaches it; steps map to `Load`, `Refuse`, `Spoil`, `Save`, `Leave`, or a stutter |

**Only model-checked.** The liveness properties `CallsEnd`, `Responsive`,
`AssemblyEnds`, `ScriptEnds` and `ProcessEnds`. Half of each is proved: every step
of the computation lowers a rank of natural numbers, compared from the front
(`CallShrinks`, `CommandShrinks`, `AssemblyShrinks`, `ScriptShrinks`,
`ProcessShrinks`; the runs `control`, `debugger` and `assembler` also check the
first three). What is left to TLC is
that a step is possible until the end is reached (ENABLED and fairness are beyond
the prover) and that such a rank cannot go down for ever (so is induction over
data). Of the values `Alu` computes, addition, subtraction and complement are their
definitions; comparison, multiplication and the bitwise operations of two registers
are proved; division and shifts are checked on the extreme operands of the run `bus`.

## 5. Not modelled

- *Formatting and output*: register dumps, `mem`, `frame`, PPM, checksum, ANSI
  preview, the GUI. They read state and change none.
- *Blending, the debug hook and `GPU::reset`*: no program and no option reaches
  them (`set_blend_mode` and `set_debug_hook` have no caller).
- *Parsing*: of options, and of a source line into mnemonic and tokens; the
  spelling of registers and numbers. The assembler's statements start where it ends.
- *`encode_gpu_immediate`*: it is called nowhere.
- *What a wrapping data segment does in front of the registers*: the variables of
  `main()` there. The model lets the process end or go on with them unchanged.
- *Overflow of coordinates* beyond `int` and rounding beyond `float`.
- *Content of the trace*: only which sink is written, and which accesses are
  reported.
- *Exhaustion of host memory*, and exceptions of the standard library for lack of
  it, a program with an enormous count in its header included.

Seen while modelling, but not the subject of a run:

- `CMP rn, rm` has two operands in README.md:171 and three in the assembler, which
  puts the first where nothing reads it (assembler.cpp:418); `GPUFLIP` has none in
  README.md:197 and one in the assembler (assembler.cpp:364); `BRANCHGT` and
  `BRANCHLT` have one in README.md:174 and two in the assembler (assembler.cpp:523).
- The bits a `MOVI` keeps when it is filled in are one place off the field `rn`
  (assembler.cpp:651); it does no harm (`WordsAsWritten`).
- The template does not assemble, although it says "Every directive used here is
  supported by the built-in assembler" (examples/homebrew_template.asm:5-6): its
  `LOAD` at line 41 takes `palette+8`, and `parse_value` knows a symbol or a number
  and no sum (assembler.cpp:580-593).
- `INT rd` uses the number of the register, not "the vector in `rd`" (README.md:177,
  cpu.cpp:625).
- `CMP` of operands whose difference overflows is undefined and may leave either
  sign, although README.md:174 says "signed comparison"; `CompareOrders` excepts them.
- A breakpoint on the first instruction of a handler is passed
  (`NeverPastBreakpoint` exempts exactly that).
- A push into the window is lost, and so are words of a long program that lie in it
  (`ProgramIsStored` excepts them); they execute as writes to its registers.
- A data section without `.org` starts at address 0, over the code.
- `.data` after an open patch is loaded before it, so the patch wins where they
  overlap. Outside an open patch it also moves the place of the data that follows,
  and inside one that has a label and no byte it does so at the next switch of
  section, away from the label (`Displaced`).
- A watch of length 0 reports accesses around its address; `--watch` without a trace
  logs nothing.
- After a failed `trace file`, `trace on` empties the file it resumes.
- An opaque pixel never passes the depth test on a cleared buffer: its alpha is the
  depth of the cleared buffer and the test is strict.
- A save truncates the file first: a failed one leaves neither the old package nor
  the new.

## 6. Plan

Done: `Memory`, `Bus`, `ALU`, `Machine`, `CPU`, `TraceSink`, `Debugger`,
`Encoding`, `Assembler`, `Assembly`, `Figures`, `GPU`, `PackageStore`, `Package`,
their runs, and the proofs
above. Left:

1. **`Interrupts`**: a history of calls and handlers over `CPU`; a handler that pops
   the link register and returns resumes the interrupted instruction with its
   registers; nested requests and the cost of `RET` without `POP`.
2. **`Emulator`**: assembler or package, CPU, GPU and report composed as in `main()`:
   the program that is run is the program that was assembled.
3. **Proofs**: the composition of `LabelsArrive` with `ProgramIsStored`: the address
   a branch leads to holds the word of its label in the memory of the processor;
   shifts as multiplication and division by a power of two; with `Interrupts`, that
   a handler gives back what it took.
