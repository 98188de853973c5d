# TigerShrimp, a tracing JIT for Java byte code: verification project

TigerShrimp interprets a class file, watches for hot loops, records the
instructions of one turn of such a loop (a *trace*), compiles the recording to
x86-64 and from then on runs that code instead of interpreting. This directory
holds TLA+ models of it, TLC configurations that check them, and TLAPS proofs.
Paths below are relative to the repository root.

## 1. Inventory

Everything runs in one thread. The hard behaviour is not concurrency but
*sequences*: five components keep state across turns of one loop, and what one
of them remembers (a counter, an unfinished recording, a table of exits, native
code linked to other native code) is used many turns later, after other
components have moved on.

| component | state it keeps | operations | what makes it correct |
|---|---|---|---|
| Run loop `src/RunTime.cpp` | the stack of `State`s of the `Program` | `run` (tracing, and `INTERPRETING_ONLY`), `initProgramState` | the program goes where the interpreter alone would go |
| Profiler `src/Profiler.cpp` | `lastPc`, `loopRecord` | `countVisitFor`, `countSideExitFor`, `isHot` | only backward moves and side exits make code hot |
| Trace recorder `src/TraceRecorder.cpp` | `recording`, `traceStart`, `loopHeader`, `recordedTrace`, `lastInstructionWasBranch`, two sets of branch targets | `initRecording`, `record` (with `branchFlip`), `recordingDone`, `getRecording` | a recording is one path of the program and its branches leave it exactly when the program does |
| Compiler `src/Compiler.cpp` | `nativeTrace`, `bailoutCode`, `exitPoints`, `exitId`, `operandStack`, `availableRegs` | `compileAndInstall`, `compile`, `compileBailoutFor`, `generate...` | each exit has its own id and resumes where the byte code would be; no throw |
| Assembler `src/Assembler.cpp` | `labels` | `assemble`, `convert` | every used label is bound once |
| Trace handler `src/TraceHandler.cpp` | `traces`, `exitPoints` | `hasTrace`, `insertTrace`, `runTrace`, assembly routine `handleTraceExit` | a side exit goes on in the trace that starts there, or returns its pc |
| Memory handler `src/MemoryHandler.cpp` | `allocatedMemory`, `cursor`, `currentPage` | `writeTrace`, `freeTraces` | a trace's bytes stay its own for good |
| Interpreter `src/Interpreter.cpp` | none (works on `Program`) | `prepareNext`, `evalInstruction`, `invoke` | JVM semantics of about 120 instructions |
| Byte code, program `include/JVM/ByteCodes.hpp`, `src/Program.cpp` | methods, constant pool, operand stacks | `peek`, `readNext`, `jump`, `push`, `pop` | control stays on instructions |
| Class file parser `src/JVM/Parser.cpp` | a cursor in the file, the constant pool so far | `parse` and one function per structure | reads each structure to its last byte and keeps what it says |
| Decoder `src/JVM/Decoder.cpp` | none | `decode`, `parseTypes` | each method gets its own code and parameter types |
| LRU queue `include/utils/LRUQueue.hpp` | a queue | - | unused |

How they interact in one turn of `run`: the pc of the top state is read once.
If a recording is under way and `recordingDone(pc)`, the compiler turns it into
native code, the memory handler places it and the trace handler installs it and
adds its exits to the shared table. Then, if there is a trace at the pc,
`runTrace` runs native code, which may jump from trace to trace through
`handleTraceExit` and finally returns an exit id; the profiler counts that exit
and, if it is hot, the recorder starts there. Otherwise the profiler counts the
pc, the recorder may start and records the instruction, and the interpreter
evaluates it.

Inside a turn there is a second level, that of values. A trace works on a copy
of the frame's local variables, 64 bits wide where the byte code has 32, keeps
operands in eleven registers handed out at compile time, and shares the copy
with every trace it jumps to; only when native code is left for good are the
values cut to 32 bits again and written back. Before the first turn, the class
file is read by a cursor that nothing puts right again once it is off by a byte.

What is hard here, and hardly reached by the tests (which run about thirty
programs and compare output): a recording interrupted by native execution,
restarted by another hot pc, or ended at a pc that is not a loop header;
branches turned round after the fact; exits linked to traces compiled later;
calls, returns and recursion in a recording; a compilation that throws half way;
fields no constructor writes; values that outgrow their width and shrink again;
files whose structures no sample program has. `PROJECT.json` lists them under
`hazards`, each at its line and with the properties that watch it.

## 2. Modules

    Bytecode            program counters, instruction lengths, targets
      Interpreter       EvalInstruction: what one instruction does to the frames
        InterpretingOnly   abstract specification: fetch, evaluate, repeat
      Profiler          lastPc, loopRecord
      TraceRecorder     recording, branchFlip, record
      Compiler          compile, bailout stubs, the assembler's label errors
        TraceHandler    installed traces, exit table, native execution
    RunTime             composes the five components; Init, Next, Spec, FairSpec
      RunTimeProperties type invariant, safety, action, refinement, liveness
        RunTimeProofs   TLAPS proofs of the invariant IInv
        RecordingInvariants     what a recording says about the program
          StackDepth    operand stack of the byte code, of compile()
            MCRunTime   small programs for TLC
          RecordingProofs       and of InterpretingOnly  (with RunTimeProofs)
            CompilingProofs     underflow and throws  (with StackDepth)
    MemoryHandler       blocks, cursor, written bytes
      MemoryHandlerProperties
        MCMemoryHandler
        MemoryHandlerProofs
    Words               two's complement words, division, int8_t
      ByteCodeValues    abstract specification: operand stack and locals of a frame
        CodeGenerator   what compile() emits for an entry, registers, x86
          TraceValues   a frame run by the interpreter and by traces in turn
            TraceValuesProperties   types, registers, refinement
              MCTraceValues
              TraceValuesProofs
    ClassFile           the structures and the bytes javac writes for them
      Parser            Parser::parse, a cursor and a stack of loops
        Decoder         Decoder::decode
          ClassLoadingProperties
            MCClassFile
            ParsingProofs       bytes, structures, loops, stages of a file
              ClassLoadingProofs   the decoder; what holds of every file
    CallingConvention   abstract specification: a call is one step
      Invocation        Interpreter::invoke and the returns, loop by loop
        MCInvocation
        InvocationProofs

There are five groups: the run loop (control), the memory handler, one frame's
values, class loading, and calls. They meet in constants, not in variables:
`Code` of the first and `Signatures` of the last are what class loading
delivers, `Entries` of the third are the instructions `TraceRecorder` records,
and a trace is a pointer to all but the memory handler.

**Programs are constants, values are not there (run loop).** `Code` maps a
program counter `[m, i]` (method, byte offset) to a mnemonic and the argument
control flow depends on. `CodeAssumption` is what javac and the JVM verifier
guarantee: control stays on instructions of the method. Two more facts of that
kind are hypotheses of single theorems and `ASSUME`s of `MCRunTime`, so that TLC
confirms them for the programs of the runs: `GotosAreThreaded` (javac lets no
backward `GOTO` lead to a forward one; it resolves such chains) and
`Verified(Depth)` (the operand stack is as deep at an instruction on every way
to it). Operand values are replaced by an oracle: `cond` says whether the
relation that the *next* conditional branch tests holds of its operands, and is
drawn anew whenever a branch has used it. One model run of a program thus stands
for all its runs on all inputs, including some its data would exclude. Native
code and byte code see the same oracle: `Taken` says whether a compiled jump is
taken, given what the byte code it was compiled from tests. Where the two test
the same relation or opposite ones the oracle decides; where the compiler chose
another relation, either can happen.

Registers are not there either (which one holds what is the matter of the values'
model), but how many are in use is: `NumRegisters` is eleven in the code, and
`CompileThrows` has the throw of `getFirstAvailableReg` (`OutOfRegisters`) beside
those of `compile`, `compileBailoutFor` and `generateCondBranch`.

**One action per step of a turn.** `phase` says how far the turn has come:

| action | code |
|---|---|
| `KeepGoing`, `GiveUpRecording`, `StartCompiling` | `RunTime.cpp:48`, `TraceRecorder.cpp:6-24`, `40-44`, `Compiler.cpp:71-82` |
| `CompileEntry`, `CompileFails` | one call of `Compiler::compile`, and its throws with those of what it calls |
| `Install`, `InstallFails` | `assemble`, `insertTrace` and their errors |
| `EnterTrace`, `RunNative`, `LinkTraces`, `LeaveTrace` | `runTrace`, native code block by block, `handleTraceExit`, `RunTime.cpp:58-68` |
| `GoWild` | native code at a label never bound, or past its last byte |
| `Profile`, `RecordAndInterpret`, `RecordFails` | `RunTime.cpp:69-83` |

While a trace runs, `state->pc` stays what it was on entry, as in the code; what
the program counter "really" is, is read off the native block (`NativePc`).

**Uninitialised memory.** `RunTime() {}` writes nothing and `TraceRecorder` and
`Profiler` have no constructor, so `recording`, `lastInstructionWasBranch`,
`traceStart`, `loopHeader` and `lastPc` start as whatever the stack held
(`UninitFlags`, `UninitPcs`). Method indices are constant pool indices, so
leftover bytes naming an instruction are not considered (`CodeAssumption`).
Runs about everything else set `UninitFlags = {FALSE}`.

**Values (`TraceValues`)** are checked for all methods at once. Control is left
open: in the interpreter and in a trace alike any entry may come next that the
byte code verifier would accept (`Verified`), a trace may be entered whenever
the operand stack is empty, and a branch or `GOTO` may lead back to the trace's
start, to another trace, or out. Native code is straight between jumps, so
generating it and running it can go in step: one record holds the compiler's
`operandStack` and `availableRegs` and the machine's registers and variables,
and emitting an instruction executes it. `VisibleStack` and `VisibleLocals` read
off that record what byte code would see, cut to ints: the refinement mapping to
`ByteCodeValues`. A throw of `compile` happens in the code when the recording is
compiled, and in the model when the run gets to the entry; native states of the
model are therefore a superset of those the code reaches. `calloc`'ed slots,
keys that `operator[]` creates, IDIV's 128-bit dividend and both division traps
are as in the code. `Tame` names the entries whose native code does not mean the
byte code: a negative IINC operand, IFNE (compiled to JZ), division of a
negative number, and comparison or division of a value that has outgrown an int.
`Wild = TRUE` lets them in.

| action | code |
|---|---|
| `Interpret`, `InterpretTraps` | `evalInstruction` on ints, and the CPU's trap in `operator/`, `operator%` |
| `EnterTrace`, `LeaveTrace` | `runTrace` before and after the call, `TraceHandler.cpp:38-66` |
| `RunEntry` | one call of `Compiler::compile` with the generators it uses, and its code |
| `FallThrough`, `GoOnInTrace` | a branch not taken; one taken to the trace's start or through `handleTraceExit` |
| `CompileFails`, `NativeTraps` | no register left, immediate compared, operands left at an exit; IDIV trapping |

**Class loading.** `ClassFile` writes the bytes of a class file (the reference:
the JVM's format, which the comments of `ClassFile.hpp` repeat); `Parser` reads
them with the code's functions, an action per turn of a loop, the calls under
way as a stack of tasks. A byte past the end is undefined behaviour and ends the
run (`overrun`). An attribute name that is no Utf8 constant is cast all the
same: either the process ends or no known name is found. An empty constant is a
name like others, one the parser skips; that no attribute is under way is marked
by something no constant can hold (`NoName`). Names are one character long, and the two halves of the magic number stand for themselves (TLC's
integers have 31 bits). `Decoder` goes on from there. What it takes for a
descriptor is searched as `typesRegex` does (`Parentheses`, `ArgString`,
`RetString`): in a misread file it can be any constant. Without a match the
process ends in a throw, with no constant in a crash (`MethodFails`), and a
constant of another kind is cast to a string: undefined behaviour, in the model a
crash, a match or none.

**Calls.** `Invocation` is the stack of `State`s with what calls and returns do to
it. `Interpreter::invoke` is taken apart into its two loops, an action per turn:
the sizes of all parameters are added up (`AddSize`), then the count goes down
again while arguments leave the caller's stack (`PlaceArgument`), and the new
state is pushed if the assertion holds (`EnterMethod`). The variables 0 and 1 are
in every new frame: the debug output of `invoke` asks for them with `operator[]`,
and `DEBUG_PRINT` evaluates its arguments also when it prints nothing
(`include/Definitions.hpp:17`). `found` is not in the code; it remembers the
caller's operands, to say in `CallingConvention` what became of them.

**The memory handler** is a model of its own: to the rest a trace is a pointer.
Memory is kept byte by byte, each byte holding the number of the trace that
wrote it, so that overwriting is visible. `aligned_alloc` may return any aligned
block of the heap that overlaps none in use, and may fail.

## 3. Checked by TLC

| run | instance | shows |
|---|---|---|
| `wellbehaved` | the loop of `ReportExample.j` in a method called twice, or a method that calls itself twice in one expression; no uninitialised flags, six frames, fair | for all ways the branches may go, the tracing loop refines the interpreter (`RefinesInterpreter`) and nothing throws (`NeverAborts`), also when recordings meet calls, returns and recursion and traces outlive the frame they were recorded in; the compile-time stack never underflows, a recording is always a path of the program, no trace runs during a recording (`RecordingsUndisturbed`), what is compiled ends in a `GOTO` and has guards the compiler can express (`LoopsCompiled`), recordings started in the middle of an expression, behind a recursive call, are never compiled (`StartsBetweenStatements`), and the hot loop is eventually compiled |
| `allloops` | nested loops, break, if-else in if, do-while with a three-operand expression, recursion; leftover flags both ways; two registers | type invariant; exit ids dense and without repeats; every stub's id leads back to its pc; only hot code compiled; used labels are bound; compiled guards jump exactly when the program goes where they jump (`GuardsAgree`); traces never replaced; the process ends in a throw only for one of the listed reasons (`AbortsHaveReason`). These programs also reach every throw, that of a compiler without a register left included, and native code that runs past its end |
| `memory` | four pages of four bytes, traces of 1, 3, 4 and 5 bytes | traces lie in one block and keep their bytes |
| `values` | two variables, two registers, ints of 3 bits and registers of 5, all integer operators, two comparisons, IFEQ, IINC, GOTO; seven steps; tame entries only (`Wild = FALSE`) | native code and interpreter in any alternation implement the byte code on ints (`RefinesByteCode`), tame branches and divisions are decided as in byte code (`DecidesAsByteCode`), registers are never lost or shared (`RegistersPartitioned`) |
| `classfile` | 36 class files: every constant kind, both orders of the pool, every frame form, exceptions, nests, bootstrap methods, six signatures, an overload, a method without code, an attribute whose name is empty, four files that are misread and still end where they should, so that the decoder meets a descriptor that is one, another string, another constant, or none | readable and decodable files are loaded without assertion, overrun or wrong cast; in readable ones each attribute is left where its length says it ends (`AttributesKeepToTheirLength`), and what comes out is what was written (`ParsedAsWritten`); methods have their code, parameter and result types (`MethodsAsWritten`); of every file, readable or not, each step reads on or gets nearer the end of a loop (`ParserAdvances`), with the loops nested as the code calls them (`LoadingTypeOK`) |
| `invoke` | up to three states, three operands each, six signatures with all sizes | a call is one step that puts every number among the arguments in the variable javac chose and leaves the caller the rest (`CallsKeepConvention`), for references too the sizes add up (`SizesAddUp`), and the unsigned count never wraps (`CallTypeOK`) |
| `nested` | two nested loops | **violation** of `RefinesInterpreter` |
| `guarded` | if-else in if, in a loop | **violation** of `RecordingEndsAtLoopHeader` |
| `even` | `if (i % 2 == 0)` in a loop | **violation** of `GuardsAgree` |
| `function_inside_trace` | `test/FunctionInsideTrace.java` | **violation** of `NeverAborts` |
| `unwritten_locals` | a frame with no local written yet | **violation** of `NoLocalIsLost` |
| `countdown` | `i--` and its test | **violation** of `RefinesByteCode` |

The six violations are findings in `PROJECT.json`:

* *nested*: `hasTrace` is asked also while a recording is under way. Once the
  inner loop has a trace, the outer recording contains nothing of it; compiled,
  the outer trace skips the inner loop whenever its branches allow.
* *guarded*: the comment at `RunTime.cpp:61` takes the pc before entering a
  trace for the header of its loop. A trace may itself start at a side exit, and
  then the next recording ends in the middle of a loop body.
* *even*: `IFNE` is compiled to `JZ` (`Compiler.cpp:146`), so an unflipped `IFNE`
  leaves the trace when it should stay and stays when it should leave.
* *function_inside_trace*: `record` keeps `INVOKESTATIC`, `compile` has no case
  for it, and a bare `throw` ends the process.
* *unwritten_locals*: `runTrace` writes back only variables the frame's map has.
  A frame that enters a trace compiled in an earlier frame of the method, and
  first assigns a variable there, finds 0 in it after a side exit. In a called
  frame this concerns variables from 2 on: the debug output of `invoke` touches
  variables 0 and 1 of every frame it makes, and so gives them entries.
* *countdown*: IINC's operand is cast to `int8_t` by the interpreter and added as
  an unsigned byte by `compile`, so `i--` adds 255.

Files that are not `Readable` or not `Decodable` are in the `classfile` run too,
and end as the code would: tag 247 without its offset, NestMembers and bootstrap
arguments counted in bytes, a parameter that is neither primitive nor a string,
a method without code. Of the first two, `ClassFile.hpp:273-277` and `371` document
the format, with the offset and with indices of two bytes, and the parser departs
from it. They are listed as hazards that no property covers: `ParsedAsWritten` and
`ReadableIsLoaded` hold because `Readable` leaves such files out, and of them only
`LoadingTypeOK` and `ParserAdvances` are shown.

**Bounds.** `HotThreshold` is the code's 2, and `NumRegisters` its 11, but 2 in
`allloops`, where an expression of three operands then uses one too many; the
theorems hold for any number. `loopRecord` counts to one above it,
since only `isHot` reads it. `MaxRecorded` (20 entries) exceeds the longest path
from any start to its loop header in these programs; longer recordings are
unrolled turns of a loop whose header is not reached, and the model stops there
(`Stopped`) as it does at `MaxFrames`: 4 frames are enough for two activations
of the recursive method under a caller and for a recording to meet both its call
and its return; `wellbehaved` has 6, so that a recording started where a
recursive call returns to gets back there. A stopped model stutters
(`StayStopped`), so deadlock checking stays on for the run loop, as it does for
`values`, `classfile` and `invoke`, which stutter (`Stop`) once the process has
ended; it is off for `memory`, where the process ends. The `memory` heap lets
traces share a block, fill it exactly, exceed a page, and land in blocks handed
out in any order. In `invoke` two values tell arguments apart since all their
combinations occur, and two calls deep the caller of a caller is seen to be left
alone; parameters of three different widths put the last argument three
variables off if one is counted wrong. In `wellbehaved` the branch on main's
argument chooses between the loop and the recursion: one after the other they
have too many states for the liveness check, so a recording left over from the
loop that runs into the recursion is covered by the proofs of section 4 and not
by this run. `values` has one register fewer than the stack has operands, so
that the queue runs empty and `getFirstAvailableReg` throws (eleven against any
`max_stack` in the code); ints of three bits overflow after one operation and
registers of five after two or three, so that wrapping late (at the write-back)
is told apart from wrapping never; seven steps (`MaxSteps`) are enough to enter
a trace, load two operands, compute, store, branch and look at the result in the
interpreter. The proofs have no such bound. Each class file of `classfile` has a
feature of its own beside the common ones; features are independent in the
parser, which keeps no state but the cursor and the pool. The proofs take files of
any size, with any features side by side.

**Fairness.** `FairSpec` is `WF_vars(Next)`: there is one thread, and nothing in
the loop waits. Which way branches go is not constrained, so liveness only says
what happens if a header is met again and again (`[]<>Meets(pc)`).

**Not every program is well-behaved.** `RefinesInterpreter`, `NeverAborts` and
`HotLoopsGetCompiled` hold for `wellbehaved` and fail for programs with
nested loops, calls in loops, or recursion between methods. `HotLoopsGetCompiled`
is checked there only: in nested loops the recording started at the inner
loop's exit and the one at the outer header can displace each other for ever.

## 4. Proved by TLAPS

`RunTimeProofs`, for every program satisfying `CodeAssumption`, every threshold,
bound and content of the uninitialised fields:

* `TypeCorrect`: the program counter, the recorder's targets, every label and
  exit stay on instructions, however recordings, flips and native code mix.
* `ExitIdsAreDense`, `InsertAssertionHolds`: exit ids are 0, 1, 2, ... over all
  traces, so `tracesArray` (allocated with as many slots as there are exits and
  indexed by id) is never overrun and the assertion in `insertTrace` never fails.
* `ExitsLeadHome`: the id a stub loads maps to the pc it was made for, in
  every trace and at all times.
* `CompiledCodeIsHot`, `TracesStay`: traces start at hot pcs, and an installed
  trace is never removed or replaced.

All follow from `IInv` (`RunTimeProperties`). The type invariant alone is not
inductive: turning a branch round puts its target three bytes on, which is an
instruction only because the entry is an unmodified branch of the program
(`LastEntryIsBranch`). `TracesStay` and `CompiledCodeIsHot` need that a recording
that can end started at a hot pc with no trace (`RecordingMayStart`), although
traces may be installed in between: only a finished recording installs one, and
finishing it ends it. Recordings that leftover flags start are excluded because
they can never end (their header is no pc). The exit table needs the same facts
about the trace half compiled (`NewStubsMatch`, and the middle case of
`ExitTableDense`). One lemma per action shows that the action keeps `IInv`.

`RecordingProofs` and `CompilingProofs` go on from there, again for every program, threshold and bound, with what they need of the program or the
run as hypotheses:

* `RecordedInvariance` (no hypothesis): every recorded entry is an instruction of
  the program or a noted branch turned round, never an omitted jump; the first is
  the one the recording was started for; the blocks compiled so far are those of
  the first entries, each with a stub for its way out.
* `JumpsBound`: `JumpsAreBound` if `GotosAreThreaded`. Otherwise a trace could start
  at a forward `GOTO`, which has no block, and a jump to its start no place to go.
* `GuardsAreRight`: `GuardsAgree` as long as no recorded entry is an `IFNE`, and
  `GuardsOfOtherPrograms`: always, for programs without `IFNE` and `IF_ICMPEQ`
  (`NoEqualityTests`). The run `even` shows the first hypothesis to be needed.
* `RecordingsArePaths`: `RecordingIsAPath` under `[]RecordingsUndisturbed`; the run
  `nested` shows what happens without it.
* `TracingImplementsInterpreting`: `RefinesInterpreter`, under
  `[]RecordingsUndisturbed` and the two parts of `LoopsCompiled`. Each hypothesis is
  needed: `nested` breaks the first, a recording that ends in no `GOTO` falls into
  its own stubs (`guarded` and `allloops` have such), and `even` breaks the third.
* `NativeStaysOnCode`: native code never runs wild, if recordings end in a `GOTO`
  and `GotosAreThreaded`, whatever ran during the recordings.
* `StackNeverUnderflows`: `NeverUnderflows` for every program with depths the verifier
  accepts (`Verified(d)`), as long as only recordings started on an empty operand
  stack are compiled (`StartsEmpty(d)`). The latter is needed: a method f with
  `y = 1 + (c ? 2 : f(x))` in a loop returns to a hot pc with 1 on the stack, and
  a recording from there to the loop's `GOTO` and on would pop it from nowhere.
* `AbortsAccountedFor`: under the same conditions the process ends in a throw for
  the reasons of `AbortsHaveReason` alone. What `NeverAborts` comes down to for
  one program is whether those can occur: an instruction compile() has no case
  for, a constant as first operand of a comparison, operands left at a jump, as many
  operands in use as there are registers when another one is needed.

The hypotheses about the run are themselves checked for `wellbehaved`
(`RecordingsUndisturbed`, `LoopsCompiled`, `StartsBetweenStatements`);
they depend on the program and have no proof for all.

The argument is about what a recording says. `RecordedInv` follows the entries from
`record` to the installed code. `PathInv` adds where the program is: `EntriesInOrder`
alone is not inductive, `RecordingKeepsUp` says that the program counter is where
the recording would go on, either way of a branch until `branchFlip` has looked at
the next entry. That `PastGotos` unfolds at a forward `GOTO` is proved without
induction, by the choice among the ends it defines. `TracesFollow` then says of
installed code that from any block control gets where the program gets from that
pc, for both outcomes of the tested relation; with it each native step is a step
of `InterpretingOnly` and all bookkeeping stutters. `LabelsInv` (a label is made for
every noted jump) accounts for the assembler. `DepthInv` compares the byte code's
stack depth with `operandStack`; it needs no undisturbed recordings, since traces
start and are left with an empty stack (`TracesBalanced`).

`InvocationProofs`, for all signatures, values and nestings of calls:

* `CallsImplementConvention`: `Invocation` implements `CallingConvention`.
* `InvokeAssertionHolds`, `CallsTypeCorrect`: the assertion never fails, for
  references either, and the unsigned count never wraps.

The invariant says that there is a variable for each parameter, every one the sum
of the sizes before it (`Summed`), that the count is at the one of the loop's
argument, and that the arguments placed are in theirs, all at or above the count
(`Placed`), so that none is overwritten. Where the variables are would be a
recursive function; the invariant only says that there are some, and the first
loop extends them one by one, so that no induction is needed.

`MemoryHandlerProofs`, for every page size, heap and sequence of trace sizes:
`TracesStayInBlocks`, `TracesStayIntact`, `MemoryTypeCorrect`. The invariant adds
that blocks are disjoint and that in the block in use everything written lies
below the cursor.

`TraceValuesProofs`, for every word size (`WordAssumption`: a register holds a
multiple of an int's range), register pool, set of instructions and stack bound:

* `ValuesTypeCorrect`: interpreted values stay ints, native ones 64-bit words.
* `RegistersArePartitioned`: between two entries every register of the pool is
  either in the queue, once, or on the operand stack, once. The generators break
  this while they work; `Partitioned(c, held)` names what they hold meanwhile,
  and one lemma per helper (`Mov`, `Free`, `TakeReg`, ...) says how it moves.
* `TracesImplementByteCode`: tame traces and interpreter together implement
  `ByteCodeValues!ValuesSpec`, under the assumption that the frame's variables
  all have entries on entry. It is the simulation argument: each
  native step changes `VisibleStack` and `VisibleLocals` as `EvalInstruction`
  would, since `AsInt` commutes with 64-bit sums, differences and products
  (`NativeArithmetic`, `CutLate`), and every other step leaves them alone. That
  `RegistersPartitioned` holds is what makes a write to one register leave the
  other operands as they were.
* `TracesDecideAsByteCode`: tame branches and divisions in native code are decided
  as the byte code decides them. Only comparison and division look at whole
  words, so it rests on `FitInts`: an int read as a long word is itself.

`ParsingProofs`, for every set of class files (`WellFormedFiles`: numbers are as
wide as their places in the file, counts and lengths fit in theirs, the names of
attributes and the descriptors of methods are in the pool, and no attribute the
parser knows comes twice) with any number of constants, members,
attributes, frames and exceptions:

* `ParsingKeeps`: `ParsedAsWritten`, for readable files.
* `LengthsKept`: `AttributesKeepToTheirLength`, for readable files.

The invariant, `ParsedSoFar`, gives the stage a readable file is at: the version,
the constants up to the j-th, the access flags, the members of a section up to the
m-th, within one of them, the attributes of the class. Each stage says that the
bytes ahead (`Follows`) are those written for the rest of the file, that what is
stored is what should be kept of the part read (`Kept...`), and which loops are
under way. Within a list of attributes, `AtAny` and `AtSimple` say the same of the
loop over it, inside which there may be another: over the frames of a stack map
table, or over the attributes of code. `StageStep` shows that each step leads to a
stage again or to the end; it rests on lemmas about what is read where certain bytes
are (`ReadBytes`, `ReadVerifications`, `ConstantWritten`, `FrameRead`, ...).

Those about sequences are by induction over their length. The library's induction
theorems cannot be instantiated here, for they take an operator; well-founded
relations can, for `WFMin` takes sets. `LeastElement` gets from it that every set
of numbers has a least one, and `Induction` that a set with 0 and the successor of
each of its numbers has them all; an induction is then a claim about the set of
the numbers for which the formula holds. What a recursive function computes
(`place` in `VerificationsFrom`) and that it exists (`PlacesExist`) is proved so,
and so is what `FlattenSeq` does to the bytes of a list (`RestFacts`).

`ClassLoadingProofs` goes on from there:

* `Loaded`, `MethodsFound`: `ReadableIsLoaded` and `MethodsAsWritten`. The invariant
  (`DecodedSoFar`) says which methods the program has already (that the regular
  expression finds the two halves a descriptor was written with is `DescriptorSplit`),
  and of the one under way that the types split off are the first ones of its descriptor and that the
  rest of the string is what was written for the others: the lengths `parseTypes`
  cuts by are right for lists of the primitive types it knows and of
  `java.lang.String`, which is what `Decodable` asks for.
* `LoadingTypes`, `ParsingAdvances`: `LoadingTypeOK` and `ParserAdvances` for
  every class file, also those the parser misreads. Of these nothing can be said
  about the bytes ahead, so this is an invariant of its own, `ParserOK` and
  `DecoderOK`: each loop under way fits the one that called it (`Fits`), the
  class file's loop is at the section they belong to, members parsed so far have
  their shape. `LoadingTypeOK` is not inductive: what a return stores is well-typed
  only if the caller is the loop the code was called from, and
  the end an attribute states may lie behind the cursor, except that of one about
  to be skipped (`NotBeyond`), without which skipping could go back in the file.

Only model-checked:

* `NeverAborts`, which is false of some programs (`AbortsAccountedFor` says what is
  left to look at);
* `HotLoopsGetCompiled`, which is liveness;
* `RecordingsUndisturbed`, `LoopsCompiled` and `StartsBetweenStatements`, the
  hypotheses of theorems above: facts about single programs.

## 5. Not modelled

* Values of long, float and double, conversions and comparisons of them, arrays
  and strings: none of it gets into a trace, and the interpreter's cases are one
  C++ operator each. `FREM` and `DREM` (`Program.cpp:167`) and slots that change
  their type on the way through a trace (`TraceHandler.cpp:60`) are listed as
  hazards for that reason.
* Control and values in one model: the run loop's oracle stands for the values,
  the open control of `TraceValues` for the program. Their product adds states
  and no behaviour either lacks.
* Which callee-saved registers the C++ compiler keeps live across `runTrace`
  (traces use rbx and r12 to r15): not in the source.
* Encodings (asmjit), the text assembler and the `.asm` input (`main.cpp` still
  assembles it; what `RunTime.cpp:8-10` would do with it is commented out).
* Printing: `contentsString`, `info`, `toString`, debug output. Opening files.
* The LRU queue, which nothing uses; command line and scripts.

## 6. Plan

1. Syntactic conditions on programs under which recordings stay undisturbed and
   end in a `GOTO`, as far as there are any.
2. That parsing terminates, as a theorem from `ParserAdvances` and the
   well-founded order it decreases in; liveness itself is for TLC.
3. Values of the other types through `runTrace`'s array.
