------------------------- MODULE RunTimeProperties -------------------------
(***************************************************************************)
(* What the tracing run loop is to do, whatever the program.               *)
(***************************************************************************)
EXTENDS RunTime

(* A recorded jump has its target in the program, flipped or not.          *)
RecordedMnemonics ==
    {Mnemonic(pc) : pc \in Pcs} \cup {LongForm[mn] : mn \in DOMAIN LongForm}
                                \cup {FlipOf[mn] : mn \in DOMAIN FlipOf}
Entries ==
    {entry \in [pc : Pcs, mn : RecordedMnemonics,
                arg : {Code[pc].arg : pc \in Pcs} \cup {3}] :
        entry.mn \in Branches \cup {"GOTO"} => LabelOf(entry) \in Pcs}
Blocks == [pc : Pcs, jump : DOMAIN JumpsOn \cup {"jmp", "none"}, label : Pcs]
Stubs == [label : Pcs, id : Nat]
Traces == [code : Seq(Blocks), stubs : Seq(Stubs), inner : SUBSET Pcs]
ExitMap(f) == DOMAIN f \subseteq Nat /\ \A id \in DOMAIN f : f[id] \in Pcs

ProfilerTypeOK ==
    /\ lastPc \in Pcs \cup UninitPcs
    /\ loopRecord \in [Pcs -> 0 .. HotThreshold + 1]

RecorderTypeOK ==
    /\ recording \in BOOLEAN /\ lastInstructionWasBranch \in BOOLEAN
    /\ traceStart \in Pcs \cup UninitPcs
    /\ loopHeader \in Pcs \cup UninitPcs
    /\ recordedTrace \in Seq(Entries)
    /\ innerBranchTargets \in SUBSET Pcs
    /\ outerBranchTargets \in SUBSET Pcs

CompilerTypeOK ==
    /\ nativeTrace \in Seq(Blocks)
    /\ bailoutCode \in Seq(Stubs)
    /\ exitId \in Nat
    /\ ExitMap(newExitPoints)
    /\ operandStack \in Seq({"reg", "imm"})

HandlerTypeOK ==
    /\ DOMAIN traces \subseteq Pcs /\ \A pc \in DOMAIN traces : traces[pc] \in Traces
    /\ ExitMap(exitPoints)
    /\ native \in [trace : Pcs, seg : {"block", "stub", "none"}, at : Nat]

(* Type invariant.  The interpreter of a well-formed program, and with it  *)
(* the recorder, the compiler and the exit table, stays on instructions.   *)
TypeOK ==
    /\ ProfilerTypeOK /\ RecorderTypeOK /\ CompilerTypeOK /\ HandlerTypeOK
    /\ frames \in Seq(Pcs)
    /\ cond \in BOOLEAN
    /\ phase \in Phases

-----------------------------------------------------------------------------
(* runTrace indexes tracesArray, allocated with exitPoints.size() slots,   *)
(* by exit id.  The ids in the table, with those of a trace being compiled,*)
(* are 0, 1, 2, ... without a gap or a repeat, across all the traces ever  *)
(* compiled, so that the array is never overrun.                           *)
ExitTableDense ==
    phase # "aborted" =>
        IF phase = "compile"
        THEN /\ DOMAIN exitPoints \cup DOMAIN newExitPoints = 0 .. exitId - 1
             /\ DOMAIN exitPoints \cap DOMAIN newExitPoints = {}
        ELSE DOMAIN exitPoints = 0 .. exitId - 1

(* The id a stub loads names, in the table shared by all traces, the pc    *)
(* the stub was made for: native code that leaves anywhere resumes there.  *)
StubsMatchExitTable ==
    \A pc \in DOMAIN traces :
      \A k \in DOMAIN traces[pc].stubs :
        LET stub == traces[pc].stubs[k]
        IN  stub.id \in DOMAIN exitPoints /\ exitPoints[stub.id] = stub.label

(* A trace is installed once and stays: linked exits jump to its address.  *)
TracesNeverReplaced ==
    [][\A pc \in DOMAIN traces : pc \in DOMAIN traces' /\ traces'[pc] = traces[pc]]_vars

(* Compiling is only for hot code: a trace starts at a pc that was counted *)
(* more often than the threshold, whatever the recorder's fields held at   *)
(* first and however often a recording was restarted or abandoned.         *)
OnlyHotCodeCompiled == \A pc \in DOMAIN traces : loopRecord[pc] > HotThreshold

(* A jump of an installed trace has one place to go: a block of the trace  *)
(* or a stub.  (asmjit would leave a label that is used but never bound    *)
(* pointing nowhere, without an error.)                                    *)
JumpsAreBound ==
    \A pc \in DOMAIN traces : \A k \in DOMAIN traces[pc].code :
      LET t == traces[pc]
          label == t.code[k].label
      IN  t.code[k].jump # "none" =>
            \/ label \in t.inner /\ \E j \in DOMAIN t.code : t.code[j].pc = label
            \/ \E j \in DOMAIN t.stubs : t.stubs[j].label = label

(* A guard of the code being compiled jumps exactly when the program would *)
(* go where the jump goes: what branchFlip turned round, and the condition *)
(* compile() chose, agree with the byte code.                              *)
Way(pc, holds) == IF holds THEN Target(pc) ELSE After(pc)

GuardAgrees(block) ==
    \A holds \in BOOLEAN :
        \/ Taken(block, holds) = {TRUE} /\ Way(block.pc, holds) = block.label
        \/ /\ Taken(block, holds) = {FALSE}
           /\ \E other \in BOOLEAN : /\ Way(block.pc, other) = block.label
                                     /\ Way(block.pc, ~other) = Way(block.pc, holds)

GuardsAgree ==
    phase = "compile" =>
      \A k \in DOMAIN nativeTrace :
        nativeTrace[k].jump \in DOMAIN JumpsOn => GuardAgrees(nativeTrace[k])

(* popAndFree never pops an empty operand stack: a recording starts and    *)
(* its branches leave where the byte code's stack is empty.                *)
NeverUnderflows == Compiling => ~Underflows(NextEntry.mn)

(* Native code never runs off the code that was written for it.            *)
NeverRunsWild == phase # "wild"

(* The ways a throw of record(), compile() or assemble() can come about.   *)
(* Popping an empty stack, a label that was forgotten and an exit id given *)
(* twice are not among them.                                               *)
RecordReason ==
    \/ lastInstructionWasBranch /\ recordedTrace = <<>> /\ TRUE \in UninitFlags
    \/ recordedTrace # <<>> /\ LastEntry.mn = "IFEQ" /\ Target(LastEntry.pc) = Top

CompileReason ==
    \/ NextEntry.mn \notin Compilable
    \/ NextEntry.mn \in DOMAIN JumpFor \ {"GOTO"} /\ FirstOperand(NextEntry.mn) = "imm"
    \/ NextEntry.mn \in DOMAIN JumpFor /\ Popped(NextEntry.mn) # <<>>
    \/ NextEntry.mn \in Loads \cup Arithmetic /\ Len(operandStack) >= NumRegisters

AssembleReason ==
    \/ LastEntry.mn \in Branches
    \/ \E k \in DOMAIN recordedTrace : Mnemonic(recordedTrace[k].pc) = "IF_ICMPEQ"
    \/ \E label \in innerBranchTargets \cup outerBranchTargets :
         \E p, q \in BoundAt(label, innerBranchTargets) : p # q

(* The process ends in a throw only for one of these reasons: everything   *)
(* else the three functions rely on has been seen to by their callers.     *)
AbortsHaveReason ==
    [][phase' = "aborted" /\ phase # "aborted" =>
        \/ phase = "execute" /\ recording /\ RecordReason
        \/ Compiling /\ CompileReason
        \/ Compiled /\ AssembleReason]_vars

(* No recording, compilation or assembly ends in a throw.                  *)
NeverAborts == phase \notin {"aborted", "wild"}

-----------------------------------------------------------------------------
(* A recording is a path of the program: what it holds next is where the   *)
(* entry before leads, either way of a branch, past the omitted jumps.     *)
Successors(pc) ==
    CASE Mnemonic(pc) \in Branches -> {PastGotos[Target(pc)], PastGotos[After(pc)]}
      [] Mnemonic(pc) = "GOTO" -> {PastGotos[Target(pc)]}
      [] Mnemonic(pc) = "INVOKESTATIC" -> {PastGotos[EntryPc(Code[pc].arg)]}
      [] OTHER -> {PastGotos[After(pc)]}

RecordingIsAPath ==
    recording =>
      /\ recordedTrace # <<>> /\ traceStart \in Pcs =>
            recordedTrace[1].pc = PastGotos[traceStart]
      /\ \A k \in 1 .. Len(recordedTrace) - 1 :
            Mnemonic(recordedTrace[k].pc) \in Returns
              \/ recordedTrace[k + 1].pc \in Successors(recordedTrace[k].pc)

(* What the recorder takes for granted: no trace runs while it is at work. *)
(* record() sees interpreted instructions only.                            *)
RecordingsUndisturbed == phase = "native" => ~recording

(* What the compiler takes for granted: the recording goes back to a loop  *)
(* by a GOTO, so that no block falls into the stubs,                       *)
RecordingsEndInGoto == phase = "compile" => LastEntry.mn = "GOTO"

(* an IFNE has been turned round (else it becomes a JZ), and there is no   *)
(* IF_ICMPEQ of the program in it (record() does not note one, so that it  *)
(* is never turned round).                                                 *)
GuardsCompilable ==
    phase = "compile" =>
        \A k \in DOMAIN recordedTrace :
            recordedTrace[k].mn # "IFNE" /\ Mnemonic(recordedTrace[k].pc) # "IF_ICMPEQ"

(* Every recording that is compiled is one turn of a loop the compiler     *)
(* can express.                                                            *)
LoopsCompiled == RecordingsEndInGoto /\ GuardsCompilable

-----------------------------------------------------------------------------
(* Refinement: where the program is, seen from outside.  Inside native     *)
(* code state->pc is stale, and the running block says where it is.        *)
ArchFrames ==
    IF phase \in {"native", "wild"}
    THEN <<PastGotos[NativePc]>> \o Tail(frames)
    ELSE Settle(frames)

Machine == INSTANCE InterpretingOnly WITH frames <- ArchFrames

(* The tracing loop goes where the interpreter alone would go: test.py     *)
(* compares the two outputs.                                               *)
RefinesInterpreter == Machine!Spec

LoopHeaders == {Target(pc) : pc \in {pc \in Pcs : Mnemonic(pc) = "GOTO" /\ ~ForwardGoto(pc)}}

(* A recording ends where a loop begins: the comment in run() takes the pc *)
(* a trace was entered at for the header of its loop.                      *)
RecordingEndsAtLoopHeader ==
    recording /\ loopHeader \in Pcs => loopHeader \in LoopHeaders

(* A loop header that is met again and again gets a trace: recordings are  *)
(* not restarted, abandoned or diverted for ever.                          *)
Meets(pc) == phase = "dispatch" /\ Top = pc
HotLoopsGetCompiled ==
    \A pc \in LoopHeaders : []<>Meets(pc) => <>HasTrace(pc)

-----------------------------------------------------------------------------
(* The inductive invariant behind the properties above: what else holds    *)
(* between the fields of the recorder, the compiler and the trace handler. *)

(* An unflipped branch at the end of the recording is as the program has   *)
(* it.  (On an empty recording the flag is leftover memory.)               *)
LastEntryIsBranch ==
    lastInstructionWasBranch /\ recordedTrace # <<>> =>
        LastEntry.mn = Mnemonic(LastEntry.pc) /\ LastEntry.mn \in NotedBranches

(* A pc that may start a trace: hot, and without a trace so far.           *)
MayStart(pc) ==
    pc \in Pcs /\ pc \notin DOMAIN traces /\ loopRecord[pc] > HotThreshold

(* Only a recording that can end counts: with leftover flags the recorder  *)
(* may run from the start, but then towards no header in the program.      *)
RecordingMayStart == recording /\ loopHeader \in Pcs => MayStart(traceStart)

CompilingMayStart ==
    phase = "compile" =>
        /\ ~recording /\ MayStart(traceStart)
        /\ recordedTrace # <<>> /\ Len(nativeTrace) <= Len(recordedTrace)

NewStubsMatch ==
    phase = "compile" =>
        \A k \in DOMAIN bailoutCode :
            /\ bailoutCode[k].id \in DOMAIN newExitPoints
            /\ newExitPoints[bailoutCode[k].id] = bailoutCode[k].label

TracesHaveCode == \A pc \in DOMAIN traces : traces[pc].code # <<>>

NativeInTrace ==
    phase = "native" =>
        /\ native.trace \in DOMAIN traces
        /\ \/ native.seg = "block" /\ native.at \in DOMAIN Running.code
           \/ native.seg = "stub" /\ native.at \in DOMAIN Running.stubs

SomeFrame == phase \in {"compile", "dispatch", "native", "execute"} => frames # <<>>

IInv ==
    /\ TypeOK /\ LastEntryIsBranch /\ SomeFrame
    /\ RecordingMayStart /\ CompilingMayStart
    /\ TracesHaveCode /\ NativeInTrace
    /\ NewStubsMatch /\ StubsMatchExitTable /\ ExitTableDense
    /\ OnlyHotCodeCompiled
=============================================================================
