--------------------------- MODULE RunTimeProofs ---------------------------
(***************************************************************************)
(* Proofs about the run loop for every program, threshold and bound.       *)
(***************************************************************************)
EXTENDS RunTimeProperties, TLAPS

-----------------------------------------------------------------------------
(* Where control goes from an instruction.                                 *)

LEMMA BranchNames ==
    Branches = {"IFEQ", "IFNE", "IFLT", "IFGE", "IFGT", "IFLE", "IF_ICMPEQ",
                "IF_ICMPNE", "IF_ICMPLT", "IF_ICMPGE", "IF_ICMPGT", "IF_ICMPLE"}
BY DEF Branches, RelationOf

(* The bytes a jump takes: the constant 3 in branchFlip and in             *)
(* program->jump(offset, 3).                                               *)
LEMMA BranchSize ==
    ASSUME NEW pc \in Pcs, Mnemonic(pc) \in Branches
    PROVE  After(pc) = Jump(pc, 3)
BY DEF After, GetParameters, TwoByteParameters

LEMMA TargetTyped ==
    ASSUME NEW pc \in Pcs, Mnemonic(pc) \in Branches \cup {"GOTO"}
    PROVE  Target(pc) \in Pcs
BY CodeAssumption

LEMMA AfterTyped ==
    ASSUME NEW pc \in Pcs, Mnemonic(pc) \notin Returns \cup {"GOTO"}
    PROVE  After(pc) \in Pcs
BY CodeAssumption

LEMMA BranchGoesOn ==
    ASSUME NEW pc \in Pcs, Mnemonic(pc) \in Branches
    PROVE  After(pc) \in Pcs
BY AfterTyped, BranchNames DEF Returns

(* Interpreting an instruction leaves every frame on an instruction.       *)
LEMMA EvalTyped ==
    ASSUME NEW fs \in Seq(Pcs), fs # <<>>, NEW c \in BOOLEAN
    PROVE  EvalInstruction(fs, c) \in Seq(Pcs)
<1> DEFINE pc == Head(fs)
<1>1. pc \in Pcs /\ Tail(fs) \in Seq(Pcs)
  OBVIOUS
<1>2. CASE Mnemonic(pc) \in Branches
  <2>1. EvalInstruction(fs, c) = <<IF c THEN Target(pc) ELSE After(pc)>> \o Tail(fs)
    BY <1>2, BranchNames DEF EvalInstruction, Returns
  <2>2. (IF c THEN Target(pc) ELSE After(pc)) \in Pcs
    BY <1>1, <1>2, TargetTyped, BranchGoesOn
  <2> QED
    BY <1>1, <2>1, <2>2
<1>3. CASE Mnemonic(pc) = "GOTO"
  BY <1>1, <1>3, TargetTyped, BranchNames DEF EvalInstruction
<1>4. CASE Mnemonic(pc) = "INVOKESTATIC"
  <2>1. EntryPc(Code[pc].arg) \in Pcs
    BY <1>1, <1>4, CodeAssumption
  <2>2. After(pc) \in Pcs
    BY <1>1, <1>4, AfterTyped DEF Returns
  <2> QED
    BY <1>1, <1>4, <2>1, <2>2, BranchNames DEF EvalInstruction
<1>5. CASE Mnemonic(pc) \in Returns
  BY <1>1, <1>5, BranchNames DEF EvalInstruction, Returns
<1>6. CASE Mnemonic(pc) \notin Branches \cup {"GOTO", "INVOKESTATIC"} \cup Returns
  BY <1>1, <1>6, AfterTyped DEF EvalInstruction
<1> QED
  BY <1>2, <1>3, <1>4, <1>5, <1>6

-----------------------------------------------------------------------------
(* The recorder.                                                           *)

LEMMA EntryTyped ==
    ASSUME NEW pc \in Pcs
    PROVE  EntryFor(pc) \in Entries
<1> DEFINE mn == EntryFor(pc).mn
<1>1. mn \in RecordedMnemonics
  BY DEF EntryFor, RecordedMnemonics
<1>2. ASSUME mn \in Branches \cup {"GOTO"}
      PROVE  LabelOf(EntryFor(pc)) \in Pcs
  <2>1. Mnemonic(pc) \notin DOMAIN LongForm
    BY <1>2, BranchNames DEF EntryFor, LongForm
  <2>2. Mnemonic(pc) \in Branches \cup {"GOTO"}
    BY <1>2, <2>1 DEF EntryFor
  <2> QED
    BY <2>2, TargetTyped DEF EntryFor, LabelOf, Target
<1> QED
  BY <1>1, <1>2 DEF EntryFor, Entries

LEMMA FlipNames ==
    /\ DOMAIN FlipOf \subseteq Branches
    /\ NotedBranches \subseteq Branches
    /\ \A mn \in DOMAIN FlipOf : FlipOf[mn] \in Branches
BY BranchNames DEF FlipOf, NotedBranches

(* Turned round or not, the entry branchFlip leaves is a branch with its   *)
(* target in the program: three bytes on is the next instruction.          *)
LEMMA FlippedTyped ==
    ASSUME NEW pc \in Pcs, RecorderTypeOK, LastEntryIsBranch,
           lastInstructionWasBranch, ~RecordThrows(pc)
    PROVE  /\ LastEntryFlipped(pc) \in Entries
           /\ LastEntryFlipped(pc).mn \in Branches
<1>1. recordedTrace # <<>> /\ LastEntry \in Entries
  BY DEF RecorderTypeOK, RecordThrows, LastEntry
<1>2. LastEntry.mn = Mnemonic(LastEntry.pc) /\ LastEntry.mn \in NotedBranches
  BY <1>1 DEF LastEntryIsBranch
<1>3. CASE ~MustFlip(pc)
  BY <1>1, <1>2, <1>3, FlipNames DEF LastEntryFlipped
<1>4. CASE MustFlip(pc)
  <2> DEFINE e == LastEntry
             f == [pc |-> e.pc, mn |-> FlipOf[e.mn], arg |-> 3]
  <2>1. e.mn \in DOMAIN FlipOf
    BY <1>4 DEF RecordThrows
  <2>2. FlipOf[e.mn] \in Branches /\ FlipOf[e.mn] \in RecordedMnemonics
    BY <2>1, FlipNames DEF RecordedMnemonics
  <2>3. e.pc \in Pcs
    BY <1>1 DEF Entries
  <2>4. LabelOf(f) = After(e.pc)
    BY <1>2, <2>3, BranchSize, FlipNames DEF LabelOf
  <2>5. After(e.pc) \in Pcs
    BY <1>2, <2>3, BranchGoesOn, FlipNames
  <2>6. f \in Entries
    BY <2>2, <2>3, <2>4, <2>5 DEF Entries
  <2> QED
    BY <1>4, <2>2, <2>6 DEF LastEntryFlipped
<1> QED
  BY <1>3, <1>4

LEMMA FlipTyped ==
    ASSUME NEW pc \in Pcs, RecorderTypeOK, LastEntryIsBranch, ~RecordThrows(pc)
    PROVE  /\ TraceAfterFlip(pc) \in Seq(Entries)
           /\ FlipTargets(pc, TRUE) \subseteq Pcs
           /\ FlipTargets(pc, FALSE) \subseteq Pcs
<1>1. CASE ~lastInstructionWasBranch
  BY <1>1 DEF TraceAfterFlip, FlipTargets, RecorderTypeOK
<1>2. CASE lastInstructionWasBranch
  <2> DEFINE e == LastEntryFlipped(pc)
  <2>1. e \in Entries /\ e.mn \in Branches
    BY <1>2, FlippedTyped
  <2>2. LabelOf(e) \in Pcs
    BY <2>1 DEF Entries
  <2> HIDE DEF e
  <2>3. recordedTrace \in Seq(Entries) /\ recordedTrace # <<>>
    BY <1>2 DEF RecorderTypeOK, RecordThrows
  <2>4. [recordedTrace EXCEPT ![Len(recordedTrace)] = e] \in Seq(Entries)
    BY <2>1, <2>3
  <2> QED
    BY <1>2, <2>2, <2>4 DEF TraceAfterFlip, FlipTargets, e
<1> QED
  BY <1>1, <1>2

LEMMA RecordKeeps ==
    ASSUME NEW pc \in Pcs, RecorderTypeOK, LastEntryIsBranch, Record(pc)
    PROVE  /\ RecorderTypeOK' /\ LastEntryIsBranch'
           /\ traceStart' = traceStart /\ loopHeader' = loopHeader
           /\ recording' => recording
<1>1. ~RecordThrows(pc)
  BY DEF Record
<1>2. /\ TraceAfterFlip(pc) \in Seq(Entries)
      /\ FlipTargets(pc, TRUE) \subseteq Pcs
      /\ FlipTargets(pc, FALSE) \subseteq Pcs
  BY <1>1, FlipTyped
<1>3. CASE RecordForwardGoto(pc) \/ RecordRecursiveCall(pc)
  <2>1. recordedTrace' = TraceAfterFlip(pc) \o <<>> /\ lastInstructionWasBranch' = FALSE
    BY <1>3 DEF RecordForwardGoto, RecordRecursiveCall, Keep
  <2>2. /\ innerBranchTargets' = innerBranchTargets \cup FlipTargets(pc, TRUE)
        /\ outerBranchTargets' = outerBranchTargets \cup FlipTargets(pc, FALSE)
        /\ traceStart' = traceStart /\ loopHeader' = loopHeader
    BY <1>3 DEF RecordForwardGoto, RecordRecursiveCall, Keep
  <2>3. recording' = recording \/ recording' = FALSE
    BY <1>3 DEF RecordForwardGoto, RecordRecursiveCall
  <2>4. recording' \in BOOLEAN /\ (recording' => recording)
    <3>1. recording \in BOOLEAN
      BY DEF RecorderTypeOK
    <3>2. CASE recording' = recording
      BY <3>1, <3>2
    <3>3. CASE recording' = FALSE
      BY <3>3
    <3> QED
      BY <2>3, <3>2, <3>3
  <2>5. recordedTrace' \in Seq(Entries)
    BY <1>2, <2>1
  <2>6. RecorderTypeOK'
    BY <1>2, <2>1, <2>2, <2>4, <2>5 DEF RecorderTypeOK
  <2> QED
    BY <2>1, <2>2, <2>4, <2>6 DEF LastEntryIsBranch
<1>4. CASE RecordEntry(pc)
  <2> DEFINE e == EntryFor(pc)
             rest == TraceAfterFlip(pc)
  <2>1. e \in Entries
    BY EntryTyped
  <2>2. GotoTargets(pc, TRUE) \subseteq Pcs /\ GotoTargets(pc, FALSE) \subseteq Pcs
    BY TargetTyped DEF GotoTargets
  <2>3. /\ recordedTrace' = rest \o <<e>>
        /\ innerBranchTargets' =
              innerBranchTargets \cup FlipTargets(pc, TRUE) \cup GotoTargets(pc, TRUE)
        /\ outerBranchTargets' =
              outerBranchTargets \cup FlipTargets(pc, FALSE) \cup GotoTargets(pc, FALSE)
        /\ traceStart' = traceStart /\ loopHeader' = loopHeader
        /\ recording' = recording
        /\ lastInstructionWasBranch' = (Mnemonic(pc) \in NotedBranches)
    BY <1>4 DEF RecordEntry, Keep
  <2>4. e.pc = pc /\ (Mnemonic(pc) \in NotedBranches => e.mn = Mnemonic(pc))
    BY DEF EntryFor, NotedBranches, FlipOf, LongForm
  <2> HIDE DEF e, rest
  <2>5. recordedTrace' \in Seq(Entries) /\ LastEntry' = e
    BY <1>2, <2>1, <2>3 DEF LastEntry, rest
  <2>6. RecorderTypeOK'
    <3>1. recording' \in BOOLEAN /\ lastInstructionWasBranch' \in BOOLEAN
      BY <2>3 DEF RecorderTypeOK
    <3>2. /\ traceStart' \in Pcs \cup UninitPcs /\ loopHeader' \in Pcs \cup UninitPcs
          /\ innerBranchTargets' \in SUBSET Pcs /\ outerBranchTargets' \in SUBSET Pcs
      BY <1>2, <2>2, <2>3 DEF RecorderTypeOK
    <3> QED
      BY <2>5, <3>1, <3>2 DEF RecorderTypeOK
  <2>7. LastEntryIsBranch'
    BY <2>3, <2>4, <2>5 DEF LastEntryIsBranch
  <2> QED
    BY <2>3, <2>6, <2>7
<1> QED
  BY <1>3, <1>4 DEF Record

LEMMA InitRecordingKeeps ==
    ASSUME NEW header \in Pcs, NEW start \in Pcs,
           RecorderTypeOK, LastEntryIsBranch, InitRecording(header, start)
    PROVE  /\ RecorderTypeOK' /\ LastEntryIsBranch'
           /\ traceStart' = start /\ recording'
<1>1. CASE recording /\ traceStart = start
  BY <1>1 DEF InitRecording, recorderVars, RecorderTypeOK, LastEntryIsBranch, LastEntry
<1>2. CASE ~(recording /\ traceStart = start)
  <2>1. /\ recording' = TRUE /\ lastInstructionWasBranch' = FALSE
        /\ traceStart' = start /\ loopHeader' = header /\ recordedTrace' = <<>>
        /\ innerBranchTargets' = {} /\ outerBranchTargets' = {}
    BY <1>2 DEF InitRecording
  <2>2. recording' \in BOOLEAN /\ lastInstructionWasBranch' \in BOOLEAN
    BY <2>1
  <2>3. recordedTrace' \in Seq(Entries)
    BY <2>1
  <2> QED
    BY <2>1, <2>2, <2>3 DEF RecorderTypeOK, LastEntryIsBranch
<1> QED
  BY <1>1, <1>2

-----------------------------------------------------------------------------
(* The profiler: a count never goes down, so that hot stays hot.           *)

LEMMA IncrementGrows ==
    ASSUME NEW count \in 0 .. HotThreshold + 1
    PROVE  Increment(count) \in 0 .. HotThreshold + 1 /\ Increment(count) >= count
BY ProfilerAssumption DEF Increment

LEMMA CountingKeeps ==
    ASSUME NEW pc \in Pcs, ProfilerTypeOK, CountVisitFor(pc) \/ CountSideExitFor(pc)
    PROVE  /\ ProfilerTypeOK'
           /\ \A p \in Pcs : loopRecord[p] > HotThreshold => loopRecord'[p] > HotThreshold
<1> DEFINE counted == [loopRecord EXCEPT ![pc] = Increment(@)]
<1>1. loopRecord \in [Pcs -> 0 .. HotThreshold + 1]
  BY DEF ProfilerTypeOK
<1>2. loopRecord' \in {counted, loopRecord} /\ lastPc' = pc
  BY DEF CountVisitFor, CountSideExitFor
<1>3. Increment(loopRecord[pc]) \in 0 .. HotThreshold + 1 /\ Increment(loopRecord[pc]) >= loopRecord[pc]
  BY <1>1, IncrementGrows
<1>4. counted \in [Pcs -> 0 .. HotThreshold + 1]
  BY <1>1, <1>3
<1>5. \A p \in Pcs : counted[p] >= loopRecord[p]
  BY <1>1, <1>3, ProfilerAssumption
<1> HIDE DEF counted
<1>6. ProfilerTypeOK'
  BY <1>1, <1>2, <1>4 DEF ProfilerTypeOK
<1>7. \A p \in Pcs : loopRecord[p] > HotThreshold => loopRecord'[p] > HotThreshold
  BY <1>1, <1>2, <1>4, <1>5, ProfilerAssumption
<1> QED
  BY <1>6, <1>7

-----------------------------------------------------------------------------
(* The compiler.                                                           *)

LEMMA JumpNames ==
    /\ DOMAIN JumpFor \subseteq Branches \cup {"GOTO"}
    /\ \A mn \in DOMAIN JumpFor : JumpFor[mn] \in DOMAIN JumpsOn \cup {"jmp"}
BY BranchNames DEF JumpFor, JumpsOn

LEMMA BlockTyped ==
    ASSUME NEW entry \in Entries
    PROVE  /\ BlockFor(entry, LabelOf(entry)) \in Blocks
           /\ entry.mn \in DOMAIN JumpFor => LabelOf(entry) \in Pcs
BY JumpNames DEF BlockFor, Blocks, Entries

LEMMA OperandsTyped ==
    ASSUME NEW mn, operandStack \in Seq({"reg", "imm"}), ~Underflows(mn)
    PROVE  Popped(mn) \o Pushed(mn) \in Seq({"reg", "imm"})
<1>1. Pops(mn) \in 0 .. 2
  BY DEF Pops
<1>2. Pushed(mn) \in Seq({"reg", "imm"})
  <2>1. Pushed(mn) \in {<<"reg">>, <<"imm">>, <<>>}
    BY Zenon DEF Pushed
  <2>2. <<"reg">> \in Seq({"reg", "imm"}) /\ <<"imm">> \in Seq({"reg", "imm"})
    OBVIOUS
  <2>3. <<>> \in Seq({"reg", "imm"})
    OBVIOUS
  <2> QED
    BY <2>1, <2>2, <2>3, Zenon
<1>3. Popped(mn) \in Seq({"reg", "imm"})
  BY <1>1 DEF Popped, Underflows
<1> QED
  BY <1>2, <1>3

(* The ids given out so far, to installed traces and to this one.          *)
IdsDense ==
    /\ DOMAIN exitPoints \cup DOMAIN newExitPoints = 0 .. exitId - 1
    /\ DOMAIN exitPoints \cap DOMAIN newExitPoints = {}

NewStubsNamed ==
    \A k \in DOMAIN bailoutCode :
        /\ bailoutCode[k].id \in DOMAIN newExitPoints
        /\ newExitPoints[bailoutCode[k].id] = bailoutCode[k].label

(* A stub takes the next id, which no exit has had.                        *)
LEMMA BailoutKeeps ==
    ASSUME NEW label \in Pcs, CompilerTypeOK, IdsDense, NewStubsNamed,
           UNCHANGED exitPoints, CompileBailoutFor(label)
    PROVE  /\ bailoutCode' \in Seq(Stubs) /\ exitId' \in Nat /\ ExitMap(newExitPoints')
           /\ IdsDense' /\ NewStubsNamed'
<1> DEFINE ids == DOMAIN newExitPoints
<1>1. exitId \in Nat /\ bailoutCode \in Seq(Stubs) /\ ExitMap(newExitPoints)
  BY DEF CompilerTypeOK
<1>2. exitId' = exitId + 1 /\ bailoutCode' = Append(bailoutCode, StubFor(label))
  BY DEF CompileBailoutFor
<1>3. /\ DOMAIN newExitPoints' = ids \cup {exitId}
      /\ newExitPoints'[exitId] = label
      /\ \A id \in ids \ {exitId} : newExitPoints'[id] = newExitPoints[id]
  BY DEF CompileBailoutFor
<1>4. exitId \notin ids /\ exitId \notin DOMAIN exitPoints
  BY <1>1 DEF IdsDense
<1>5. StubFor(label) \in Stubs
  BY <1>1 DEF StubFor, Stubs
<1>6. bailoutCode' \in Seq(Stubs)
  BY <1>1, <1>2, <1>5
<1>7. ExitMap(newExitPoints')
  BY <1>1, <1>3, <1>4 DEF ExitMap
<1>8. IdsDense'
  <2>1. 0 .. exitId' - 1 = (0 .. exitId - 1) \cup {exitId}
    BY <1>1, <1>2
  <2> QED
    BY <1>3, <1>4, <2>1 DEF IdsDense
<1>9. NewStubsNamed'
  <2> SUFFICES ASSUME NEW k \in DOMAIN bailoutCode'
               PROVE  /\ bailoutCode'[k].id \in DOMAIN newExitPoints'
                      /\ newExitPoints'[bailoutCode'[k].id] = bailoutCode'[k].label
    BY DEF NewStubsNamed
  <2>1. CASE k = Len(bailoutCode) + 1
    BY <1>1, <1>2, <1>3, <2>1 DEF StubFor
  <2>2. CASE k # Len(bailoutCode) + 1
    <3>1. k \in DOMAIN bailoutCode /\ bailoutCode'[k] = bailoutCode[k]
      BY <1>1, <1>2, <1>5, <2>2
    <3> QED
      BY <1>3, <1>4, <3>1 DEF NewStubsNamed
  <2> QED
    BY <2>1, <2>2
<1> QED
  BY <1>1, <1>2, <1>6, <1>7, <1>8, <1>9

LEMMA CompileKeeps ==
    ASSUME NEW entry \in Entries, NEW inner, CompilerTypeOK, IdsDense, NewStubsNamed,
           UNCHANGED exitPoints, Compile(entry, LabelOf(entry), inner)
    PROVE  /\ CompilerTypeOK' /\ IdsDense' /\ NewStubsNamed'
           /\ Len(nativeTrace') = Len(nativeTrace) + 1
<1> DEFINE label == LabelOf(entry)
<1>1. ~Underflows(entry.mn)
  BY DEF Compile, CompileThrows
<1>2. operandStack' \in Seq({"reg", "imm"})
  BY <1>1, OperandsTyped DEF Compile, CompilerTypeOK
<1>3. nativeTrace' \in Seq(Blocks) /\ Len(nativeTrace') = Len(nativeTrace) + 1
  <2>1. BlockFor(entry, label) \in Blocks
    BY BlockTyped
  <2> QED
    BY <2>1 DEF Compile, CompilerTypeOK
<1>4. CASE NeedsBailout(entry, label, inner)
  <2>1. label \in Pcs
    BY <1>4, BlockTyped DEF NeedsBailout
  <2>2. CompileBailoutFor(label)
    BY <1>4 DEF Compile
  <2>3. /\ bailoutCode' \in Seq(Stubs) /\ exitId' \in Nat /\ ExitMap(newExitPoints')
        /\ IdsDense' /\ NewStubsNamed'
    BY <2>1, <2>2, BailoutKeeps
  <2> QED
    BY <1>2, <1>3, <2>3 DEF CompilerTypeOK
<1>5. CASE ~NeedsBailout(entry, label, inner)
  <2>1. UNCHANGED <<bailoutCode, newExitPoints, exitId>>
    BY <1>5 DEF Compile
  <2> QED
    BY <1>2, <1>3, <2>1 DEF CompilerTypeOK, IdsDense, NewStubsNamed
<1> QED
  BY <1>4, <1>5

-----------------------------------------------------------------------------
(* What an action leaves alone stays as the invariant has it.              *)

LEMMA UnchangedKeeps ==
    /\ ProfilerTypeOK /\ UNCHANGED profilerVars => ProfilerTypeOK'
    /\ RecorderTypeOK /\ LastEntryIsBranch /\ UNCHANGED recorderVars =>
            RecorderTypeOK' /\ LastEntryIsBranch'
    /\ CompilerTypeOK /\ UNCHANGED compilerVars => CompilerTypeOK'
    /\ HandlerTypeOK /\ UNCHANGED handlerVars => HandlerTypeOK'
<1>1. ProfilerTypeOK /\ UNCHANGED profilerVars => ProfilerTypeOK'
  BY DEF ProfilerTypeOK, profilerVars
<1>2. RecorderTypeOK /\ LastEntryIsBranch /\ UNCHANGED recorderVars =>
            RecorderTypeOK' /\ LastEntryIsBranch'
  BY DEF RecorderTypeOK, LastEntryIsBranch, LastEntry, recorderVars
<1>3. CompilerTypeOK /\ UNCHANGED compilerVars => CompilerTypeOK'
  BY DEF CompilerTypeOK, compilerVars
<1>4. HandlerTypeOK /\ UNCHANGED handlerVars => HandlerTypeOK'
  BY DEF HandlerTypeOK, handlerVars
<1> QED
  BY <1>1, <1>2, <1>3, <1>4

(* The parts of the invariant that are about installed traces.             *)
TracesInv == TracesHaveCode /\ StubsMatchExitTable /\ OnlyHotCodeCompiled

LEMMA TracesUnchanged ==
    ASSUME IInv, UNCHANGED <<traces, exitPoints>>,
           \A p \in Pcs : loopRecord[p] > HotThreshold => loopRecord'[p] > HotThreshold
    PROVE  TracesInv'
BY DEF IInv, TypeOK, HandlerTypeOK, TracesInv, TracesHaveCode, StubsMatchExitTable,
       OnlyHotCodeCompiled

(* Only the phase changes: to dispatch from check, or to an end.           *)
LEMMA PhaseKeeps ==
    ASSUME IInv,
           UNCHANGED <<profilerVars, recorderVars, compilerVars, handlerVars, frames, cond>>,
           \/ phase' = "aborted"
           \/ phase = "native" /\ phase' = "wild"
           \/ phase = "check" /\ phase' = "dispatch" /\ frames # <<>>
           \/ phase' = phase
    PROVE  IInv'
<1>1. TypeOK' /\ LastEntryIsBranch'
  BY UnchangedKeeps DEF IInv, TypeOK, Phases
<1>2. TracesInv'
  BY TracesUnchanged DEF handlerVars, profilerVars
<1>3. RecordingMayStart'
  BY DEF IInv, RecordingMayStart, MayStart, recorderVars, handlerVars, profilerVars
<1>4. SomeFrame' /\ NativeInTrace'
  BY DEF IInv, SomeFrame, NativeInTrace, handlerVars, Running
<1>5. CompilingMayStart'
  BY DEF IInv, CompilingMayStart, MayStart, recorderVars, handlerVars, profilerVars,
         compilerVars
<1>6. NewStubsMatch' /\ ExitTableDense'
  BY DEF IInv, NewStubsMatch, ExitTableDense, compilerVars, handlerVars
<1> QED
  BY <1>1, <1>2, <1>3, <1>4, <1>5, <1>6 DEF IInv, TracesInv

-----------------------------------------------------------------------------
(* The invariant holds at first.                                           *)

LEMMA InitInv == Init => IInv
<1> SUFFICES ASSUME Init PROVE IInv
  OBVIOUS
<1> USE DEF Init
<1>1. ProfilerTypeOK
  BY ProfilerAssumption DEF InitProfiler, ProfilerTypeOK
<1>2. RecorderTypeOK /\ LastEntryIsBranch
  <2>1. recording \in BOOLEAN /\ lastInstructionWasBranch \in BOOLEAN
    BY RecorderAssumption DEF InitRecorder
  <2>2. recordedTrace = <<>> /\ recordedTrace \in Seq(Entries)
    BY DEF InitRecorder
  <2> QED
    BY <2>1, <2>2 DEF InitRecorder, RecorderTypeOK, LastEntryIsBranch
<1>3. CompilerTypeOK
  BY DEF InitCompiler, CompilerTypeOK, ExitMap
<1>4. EntryPc(MainMethod) \in Pcs
  BY CodeAssumption
<1>5. HandlerTypeOK
  BY <1>4 DEF InitHandler, HandlerTypeOK, NotNative, ExitMap
<1>6. TypeOK
  BY <1>1, <1>2, <1>3, <1>4, <1>5 DEF TypeOK, Phases
<1>7. ~(loopHeader \in Pcs)
  BY CodeAssumption DEF InitRecorder
<1>8. SomeFrame /\ RecordingMayStart /\ CompilingMayStart /\ NativeInTrace /\ NewStubsMatch
  BY <1>7 DEF SomeFrame, RecordingMayStart, CompilingMayStart, NativeInTrace, NewStubsMatch
<1>9. TracesInv
  BY DEF InitHandler, TracesInv, TracesHaveCode, StubsMatchExitTable, OnlyHotCodeCompiled
<1>10. ExitTableDense
  BY DEF InitHandler, InitCompiler, ExitTableDense
<1> QED
  BY <1>2, <1>6, <1>8, <1>9, <1>10 DEF IInv, TracesInv

-----------------------------------------------------------------------------
(* One lemma for each action that does more than move the phase.           *)

LEMMA TopTyped ==
    ASSUME IInv, frames # <<>>
    PROVE  Top \in Pcs /\ Tail(frames) \in Seq(Pcs)
BY DEF IInv, TypeOK, Top

LEMMA GiveUpRecordingKeeps == IInv /\ GiveUpRecording => IInv'
<1> SUFFICES ASSUME IInv, GiveUpRecording PROVE IInv'
  OBVIOUS
<1> USE DEF GiveUpRecording, AbandonRecording
<1>1. RecorderTypeOK' /\ LastEntryIsBranch'
  <2>1. recording' \in BOOLEAN
    OBVIOUS
  <2> QED
    BY <2>1 DEF IInv, TypeOK, RecorderTypeOK, LastEntryIsBranch, LastEntry
<1>2. TypeOK'
  BY <1>1, UnchangedKeeps DEF IInv, TypeOK, Phases
<1>3. TracesInv'
  BY TracesUnchanged DEF handlerVars, profilerVars
<1>4. RecordingMayStart'
  BY DEF RecordingMayStart
<1>5. SomeFrame' /\ CompilingMayStart' /\ NativeInTrace' /\ NewStubsMatch'
  BY DEF SomeFrame, CompilingMayStart, NativeInTrace, NewStubsMatch
<1>6. ExitTableDense'
  BY DEF IInv, ExitTableDense, handlerVars, compilerVars
<1> QED
  BY <1>1, <1>2, <1>3, <1>4, <1>5, <1>6 DEF IInv, TracesInv

(* The one place where a recording becomes something to compile: control   *)
(* is at the loop header, so the header is a pc and the start is hot.      *)
LEMMA StartCompilingKeeps == IInv /\ StartCompiling => IInv'
<1> SUFFICES ASSUME IInv, StartCompiling PROVE IInv'
  OBVIOUS
<1> USE DEF StartCompiling, GetRecording, AbandonRecording, ResetCompilerState
<1>1. RecorderTypeOK' /\ LastEntryIsBranch'
  <2>1. recording' \in BOOLEAN
    OBVIOUS
  <2> QED
    BY <2>1 DEF IInv, TypeOK, RecorderTypeOK, LastEntryIsBranch, LastEntry
<1>2. CompilerTypeOK'
  BY DEF IInv, TypeOK, CompilerTypeOK, ExitMap
<1>3. TypeOK'
  BY <1>1, <1>2, UnchangedKeeps DEF IInv, TypeOK, Phases
<1>4. TracesInv'
  BY TracesUnchanged DEF handlerVars, profilerVars
<1>5. MayStart(traceStart)
  BY TopTyped DEF IInv, RecordingMayStart, RecordingDone
<1>6. CompilingMayStart'
  <2>1. recordedTrace \in Seq(Entries) /\ recordedTrace # <<>>
    BY DEF IInv, TypeOK, RecorderTypeOK, RecordingDone
  <2>2. MayStart(traceStart)'
    BY <1>5 DEF MayStart, handlerVars, profilerVars
  <2>3. Len(nativeTrace') <= Len(recordedTrace')
    BY <2>1
  <2> QED
    BY <2>1, <2>2, <2>3 DEF CompilingMayStart
<1>7. RecordingMayStart' /\ SomeFrame' /\ NativeInTrace' /\ NewStubsMatch'
  BY DEF RecordingMayStart, SomeFrame, NativeInTrace, NewStubsMatch
<1>8. ExitTableDense'
  BY DEF IInv, ExitTableDense, handlerVars
<1> QED
  BY <1>1, <1>3, <1>4, <1>6, <1>7, <1>8 DEF IInv, TracesInv

LEMMA CompileEntryKeeps == IInv /\ CompileEntry => IInv'
<1> SUFFICES ASSUME IInv, CompileEntry PROVE IInv'
  OBVIOUS
<1> USE DEF CompileEntry, Compiling
<1>1. NextEntry \in Entries
  BY DEF IInv, TypeOK, RecorderTypeOK, CompilerTypeOK, NextEntry
<1>2. CompilerTypeOK /\ IdsDense /\ NewStubsNamed
  BY DEF IInv, TypeOK, ExitTableDense, NewStubsMatch, IdsDense, NewStubsNamed
<1>3. /\ CompilerTypeOK' /\ IdsDense' /\ NewStubsNamed'
      /\ Len(nativeTrace') = Len(nativeTrace) + 1
  BY <1>1, <1>2, CompileKeeps DEF handlerVars
<1>4. RecorderTypeOK' /\ LastEntryIsBranch' /\ TypeOK'
  BY <1>3, UnchangedKeeps DEF IInv, TypeOK, Phases
<1>5. TracesInv'
  BY TracesUnchanged DEF handlerVars, profilerVars
<1>6. CompilingMayStart'
  <2>1. /\ ~recording /\ MayStart(traceStart)
        /\ recordedTrace # <<>>
    BY DEF IInv, CompilingMayStart
  <2>2. MayStart(traceStart)' /\ ~recording' /\ recordedTrace' = recordedTrace
    BY <2>1 DEF MayStart, handlerVars, profilerVars, recorderVars
  <2>3. Len(nativeTrace') <= Len(recordedTrace')
    BY <1>3, <2>2 DEF IInv, TypeOK, RecorderTypeOK, CompilerTypeOK
  <2> QED
    BY <2>1, <2>2, <2>3 DEF CompilingMayStart
<1>7. RecordingMayStart' /\ SomeFrame' /\ NativeInTrace'
  BY DEF IInv, RecordingMayStart, MayStart, SomeFrame, NativeInTrace,
         recorderVars, handlerVars, profilerVars
<1>8. NewStubsMatch' /\ ExitTableDense'
  BY <1>3 DEF IInv, NewStubsMatch, ExitTableDense, NewStubsNamed, IdsDense, handlerVars
<1> QED
  BY <1>4, <1>5, <1>6, <1>7, <1>8 DEF IInv, TracesInv

(* The new ids are new to the table, so that what it said before of the    *)
(* traces already installed still stands.                                  *)
LEMMA InstallKeeps == IInv /\ Install => IInv'
<1> SUFFICES ASSUME IInv, Install PROVE IInv'
  OBVIOUS
<1> USE DEF Install, Compiled
<1> DEFINE new == Trace(innerBranchTargets)
<1>1. MayStart(traceStart) /\ ~recording /\ recordedTrace # <<>>
  BY DEF IInv, CompilingMayStart
<1>2. /\ DOMAIN traces' = DOMAIN traces \cup {traceStart}
      /\ traces'[traceStart] = new
      /\ \A pc \in DOMAIN traces : traces'[pc] = traces[pc]
  BY <1>1 DEF InsertTrace, MayStart
<1>3. /\ DOMAIN exitPoints' = DOMAIN exitPoints \cup DOMAIN newExitPoints
      /\ \A id \in DOMAIN newExitPoints : exitPoints'[id] = newExitPoints[id]
      /\ \A id \in DOMAIN exitPoints : exitPoints'[id] = exitPoints[id]
  BY DEF InsertTrace, ExitIdsAreNew
<1>4. new \in Traces
  BY DEF IInv, TypeOK, CompilerTypeOK, RecorderTypeOK, Traces, Trace
<1>5. HandlerTypeOK'
  <2>1. DOMAIN traces' \subseteq Pcs /\ \A pc \in DOMAIN traces' : traces'[pc] \in Traces
    BY <1>1, <1>2, <1>4 DEF IInv, TypeOK, HandlerTypeOK, MayStart
  <2>2. ExitMap(exitPoints')
    BY <1>3 DEF IInv, TypeOK, HandlerTypeOK, CompilerTypeOK, ExitMap
  <2> QED
    BY <2>1, <2>2 DEF IInv, TypeOK, HandlerTypeOK
<1>6. RecorderTypeOK' /\ LastEntryIsBranch' /\ TypeOK'
  BY <1>5, UnchangedKeeps DEF IInv, TypeOK, Phases
<1>7. TracesHaveCode'
  <2>1. nativeTrace # <<>>
    BY <1>1 DEF IInv, TypeOK, CompilerTypeOK, RecorderTypeOK
  <2> QED
    BY <1>2, <2>1 DEF IInv, TracesHaveCode, Trace
<1>8. StubsMatchExitTable'
  <2> SUFFICES ASSUME NEW pc \in DOMAIN traces', NEW k \in DOMAIN traces'[pc].stubs
               PROVE  /\ traces'[pc].stubs[k].id \in DOMAIN exitPoints'
                      /\ exitPoints'[traces'[pc].stubs[k].id] = traces'[pc].stubs[k].label
    BY DEF StubsMatchExitTable
  <2>1. CASE pc = traceStart
    BY <1>2, <1>3, <2>1 DEF IInv, NewStubsMatch, Trace
  <2>2. CASE pc # traceStart
    BY <1>2, <1>3, <2>2 DEF IInv, StubsMatchExitTable
  <2> QED
    BY <2>1, <2>2
<1>9. OnlyHotCodeCompiled'
  BY <1>1, <1>2 DEF IInv, OnlyHotCodeCompiled, MayStart, profilerVars
<1>10. ExitTableDense'
  BY <1>3 DEF IInv, ExitTableDense, compilerVars
<1>11. RecordingMayStart' /\ SomeFrame' /\ CompilingMayStart' /\ NativeInTrace' /\ NewStubsMatch'
  BY <1>1 DEF IInv, RecordingMayStart, SomeFrame, CompilingMayStart, NativeInTrace,
         NewStubsMatch, recorderVars
<1> QED
  BY <1>6, <1>7, <1>8, <1>9, <1>10, <1>11 DEF IInv

(* Native code moves only inside the traces that are installed.            *)
LEMMA NativeKeeps ==
    ASSUME IInv,
           UNCHANGED <<profilerVars, recorderVars, compilerVars, traces, exitPoints, frames>>,
           cond' \in BOOLEAN, phase' = "native", phase \in {"dispatch", "native"}, frames # <<>>,
           native' \in [trace : Pcs, seg : {"block", "stub", "none"}, at : Nat],
           NativeInTrace'
    PROVE  IInv'
<1>1. HandlerTypeOK'
  BY DEF IInv, TypeOK, HandlerTypeOK
<1>2. RecorderTypeOK' /\ LastEntryIsBranch' /\ TypeOK'
  BY <1>1, UnchangedKeeps DEF IInv, TypeOK, Phases
<1>3. TracesInv'
  BY TracesUnchanged DEF profilerVars
<1>4. RecordingMayStart'
  BY DEF IInv, RecordingMayStart, MayStart, recorderVars, profilerVars
<1>5. SomeFrame' /\ CompilingMayStart' /\ NewStubsMatch'
  BY DEF SomeFrame, CompilingMayStart, NewStubsMatch
<1>6. ExitTableDense'
  BY DEF IInv, ExitTableDense, compilerVars
<1> QED
  BY <1>2, <1>3, <1>4, <1>5, <1>6 DEF IInv, TracesInv

LEMMA FirstBlockTyped ==
    ASSUME IInv, NEW pc \in DOMAIN traces
    PROVE  /\ InBlock(pc, 1) \in [trace : Pcs, seg : {"block", "stub", "none"}, at : Nat]
           /\ 1 \in DOMAIN traces[pc].code
<1>1. pc \in Pcs /\ traces[pc] \in Traces /\ traces[pc].code # <<>>
  BY DEF IInv, TypeOK, HandlerTypeOK, TracesHaveCode
<1>2. traces[pc].code \in Seq(Blocks)
  BY <1>1 DEF Traces
<1> QED
  BY <1>1, <1>2 DEF InBlock

LEMMA EnterTraceKeeps == IInv /\ EnterTrace => IInv'
<1> SUFFICES ASSUME IInv, EnterTrace PROVE IInv'
  OBVIOUS
<1> USE DEF EnterTrace
<1>1. Top \in DOMAIN traces
  BY DEF HasTrace
<1>2. native' \in [trace : Pcs, seg : {"block", "stub", "none"}, at : Nat]
  BY <1>1, FirstBlockTyped
<1>3. NativeInTrace'
  BY <1>1, FirstBlockTyped DEF NativeInTrace, Running, InBlock
<1>4. frames # <<>> /\ cond' \in BOOLEAN
  BY DEF IInv, SomeFrame, TypeOK
<1> QED
  BY <1>2, <1>3, <1>4, NativeKeeps

LEMMA LinkTracesKeeps == IInv /\ LinkTraces => IInv'
<1> SUFFICES ASSUME IInv, LinkTraces PROVE IInv'
  OBVIOUS
<1> USE DEF LinkTraces, FollowLink
<1> DEFINE pc == ExitPcOf(Stub.id)
<1>1. pc \in DOMAIN traces /\ native' = InBlock(pc, 1)
  BY DEF HasTrace
<1> HIDE DEF pc
<1>2. native' \in [trace : Pcs, seg : {"block", "stub", "none"}, at : Nat]
  BY <1>1, FirstBlockTyped
<1>3. NativeInTrace'
  BY <1>1, FirstBlockTyped DEF NativeInTrace, Running, InBlock
<1>4. frames # <<>> /\ cond' \in BOOLEAN
  BY DEF IInv, SomeFrame, TypeOK
<1> QED
  BY <1>2, <1>3, <1>4, NativeKeeps

LEMMA RunNativeKeeps == IInv /\ RunNative => IInv'
<1> SUFFICES ASSUME IInv, RunNative PROVE IInv'
  OBVIOUS
<1>1. phase = "native" /\ UNCHANGED <<traces, exitPoints, frames, phase>>
      /\ UNCHANGED <<profilerVars, recorderVars, compilerVars>>
  BY DEF RunNative
<1>2. native.trace \in DOMAIN traces /\ native.at \in Nat /\ native.trace \in Pcs
  BY <1>1 DEF IInv, NativeInTrace, TypeOK, HandlerTypeOK
<1>3. Running.code \in Seq(Blocks) /\ Running.stubs \in Seq(Stubs)
  BY <1>2 DEF IInv, TypeOK, HandlerTypeOK, Traces, Running
<1>4. native.at \in DOMAIN Running.code
  BY <1>1 DEF IInv, NativeInTrace, RunNative, RunBlock
<1>5. PICK taken \in Taken(Block, cond) : native' \in NextPlaces(taken)
  BY DEF RunNative, RunBlock
<1>6. \/ \E k \in DOMAIN Running.code : native' = InBlock(native.trace, k)
      \/ \E k \in DOMAIN Running.stubs : native' = InStub(native.trace, k)
  <2>1. CASE native' \in JumpTo(Block.label)
    BY <2>1 DEF JumpTo
  <2>2. CASE native' \in FallThrough
    <3>1. CASE native.at < Len(Running.code)
      <4>1. native.at + 1 \in DOMAIN Running.code
        BY <1>3, <1>4, <3>1
      <4> QED
        BY <2>2, <3>1, <4>1 DEF FallThrough
    <3>2. CASE ~(native.at < Len(Running.code))
      <4>1. Running.stubs # <<>> /\ native' = InStub(native.trace, 1)
        BY <2>2, <3>2 DEF FallThrough
      <4> QED
        BY <1>3, <4>1
    <3> QED
      BY <3>1, <3>2
  <2> QED
    BY <1>5, <2>1, <2>2 DEF NextPlaces
<1>7. native' \in [trace : Pcs, seg : {"block", "stub", "none"}, at : Nat]
  BY <1>2, <1>3, <1>6 DEF InBlock, InStub
<1>8. NativeInTrace'
  BY <1>1, <1>2, <1>6 DEF NativeInTrace, Running, InBlock, InStub
<1>9. frames # <<>> /\ cond' \in BOOLEAN
  BY <1>1 DEF IInv, SomeFrame, TypeOK, RunNative, Redraw
<1> QED
  BY <1>1, <1>7, <1>8, <1>9, NativeKeeps

-----------------------------------------------------------------------------
(* Counting a pc and, if that makes it hot, recording from it: what is     *)
(* left of the invariant when control comes out of a trace or goes on in   *)
(* the interpreter.                                                        *)
LEMMA CountKeeps ==
    ASSUME IInv, NEW header \in Pcs, NEW start \in Pcs, ~HasTrace(start),
           CountVisitFor(start) \/ CountSideExitFor(start),
           IF IsHot(loopRecord', start)
           THEN InitRecording(header, start) ELSE UNCHANGED recorderVars,
           UNCHANGED <<compilerVars, traces, exitPoints, cond>>,
           native' \in [trace : Pcs, seg : {"block", "stub", "none"}, at : Nat],
           frames' \in Seq(Pcs), phase \in {"native", "dispatch"},
           \/ phase' = "check"
           \/ phase' = "execute" /\ frames' # <<>>
    PROVE  IInv'
<1>1. /\ ProfilerTypeOK'
      /\ \A p \in Pcs : loopRecord[p] > HotThreshold => loopRecord'[p] > HotThreshold
  BY CountingKeeps DEF IInv, TypeOK
<1>2. RecorderTypeOK' /\ LastEntryIsBranch' /\ RecordingMayStart'
  <2>1. CASE IsHot(loopRecord', start)
    <3>1. InitRecording(header, start)
      BY <2>1
    <3>2. RecorderTypeOK' /\ LastEntryIsBranch' /\ traceStart' = start
      BY <3>1, InitRecordingKeeps DEF IInv, TypeOK
    <3>3. MayStart(traceStart)'
      BY <2>1, <3>2 DEF MayStart, HasTrace, IsHot
    <3> QED
      BY <3>2, <3>3 DEF RecordingMayStart
  <2>2. CASE ~IsHot(loopRecord', start)
    <3>1. UNCHANGED recorderVars
      BY <2>2
    <3>2. RecorderTypeOK' /\ LastEntryIsBranch'
      BY <3>1, UnchangedKeeps DEF IInv, TypeOK
    <3>3. RecordingMayStart'
      BY <1>1, <3>1 DEF IInv, RecordingMayStart, MayStart, recorderVars
    <3> QED
      BY <3>2, <3>3
  <2> QED
    BY <2>1, <2>2
<1>3. HandlerTypeOK'
  BY DEF IInv, TypeOK, HandlerTypeOK
<1>4. CompilerTypeOK'
  BY UnchangedKeeps DEF IInv, TypeOK
<1>5. TypeOK'
  BY <1>1, <1>2, <1>3, <1>4 DEF IInv, TypeOK, Phases
<1>6. TracesInv'
  BY <1>1, TracesUnchanged
<1>7. SomeFrame' /\ CompilingMayStart' /\ NativeInTrace' /\ NewStubsMatch'
  BY DEF SomeFrame, CompilingMayStart, NativeInTrace, NewStubsMatch
<1>8. ExitTableDense'
  BY DEF IInv, ExitTableDense, compilerVars
<1> QED
  BY <1>2, <1>5, <1>6, <1>7, <1>8 DEF IInv, TracesInv

LEMMA LeaveTraceKeeps == IInv /\ LeaveTrace => IInv'
<1> SUFFICES ASSUME IInv, LeaveTrace PROVE IInv'
  OBVIOUS
<1>1. phase = "native" /\ phase' = "check"
      /\ UNCHANGED <<compilerVars, traces, exitPoints, cond>>
  BY DEF LeaveTrace
<1>2. PICK exitPc \in Pcs :
         /\ ReturnsTo(exitPc)
         /\ CountSideExitFor(exitPc)
         /\ IF IsHot(loopRecord', exitPc)
            THEN InitRecording(Top, exitPc)
            ELSE UNCHANGED recorderVars
         /\ frames' = <<exitPc>> \o Tail(frames)
  BY DEF LeaveTrace
<1>3. frames # <<>> /\ Top \in Pcs /\ Tail(frames) \in Seq(Pcs)
  BY <1>1, TopTyped DEF IInv, SomeFrame
<1>4. frames' \in Seq(Pcs)
  BY <1>2, <1>3
<1>5. native' \in [trace : Pcs, seg : {"block", "stub", "none"}, at : Nat]
  BY <1>2, CodeAssumption DEF ReturnsTo, NotNative
<1>6. ~HasTrace(exitPc)
  BY <1>2 DEF ReturnsTo
<1> QED
  BY <1>1, <1>2, <1>3, <1>4, <1>5, <1>6, CountKeeps

LEMMA ProfileKeeps == IInv /\ Profile => IInv'
<1> SUFFICES ASSUME IInv, Profile PROVE IInv'
  OBVIOUS
<1> USE DEF Profile
<1>1. frames # <<>> /\ Top \in Pcs
  BY TopTyped DEF IInv, SomeFrame
<1>2. frames' \in Seq(Pcs)
      /\ native' \in [trace : Pcs, seg : {"block", "stub", "none"}, at : Nat]
  BY DEF IInv, TypeOK, HandlerTypeOK, handlerVars
<1>3. UNCHANGED <<compilerVars, traces, exitPoints, cond>>
  BY DEF handlerVars
<1> QED
  BY <1>1, <1>2, <1>3, CountKeeps

LEMMA RecordAndInterpretKeeps == IInv /\ RecordAndInterpret => IInv'
<1> SUFFICES ASSUME IInv, RecordAndInterpret PROVE IInv'
  OBVIOUS
<1> USE DEF RecordAndInterpret
<1>1. frames # <<>> /\ Top \in Pcs
  BY TopTyped DEF IInv, SomeFrame
<1>2. frames' \in Seq(Pcs)
  BY <1>1, EvalTyped DEF IInv, TypeOK
<1>3. /\ RecorderTypeOK' /\ LastEntryIsBranch'
      /\ traceStart' = traceStart /\ loopHeader' = loopHeader
      /\ recording' => recording
  <2>1. CASE recording
    <3>1. Record(Top)
      BY <2>1
    <3> QED
      BY <1>1, <3>1, RecordKeeps DEF IInv, TypeOK
  <2>2. CASE ~recording
    <3>1. UNCHANGED recorderVars
      BY <2>2
    <3>2. RecorderTypeOK' /\ LastEntryIsBranch'
      BY <3>1, UnchangedKeeps DEF IInv, TypeOK
    <3> QED
      BY <3>1, <3>2 DEF recorderVars
  <2> QED
    BY <2>1, <2>2
<1>4. cond' \in BOOLEAN
  BY DEF Redraw, IInv, TypeOK
<1>5. TypeOK'
  BY <1>2, <1>3, <1>4, UnchangedKeeps DEF IInv, TypeOK, Phases
<1>6. TracesInv'
  BY TracesUnchanged DEF handlerVars, profilerVars
<1>7. RecordingMayStart'
  <2>1. ASSUME recording', loopHeader' \in Pcs PROVE MayStart(traceStart)'
    <3>1. recording /\ loopHeader \in Pcs
      BY <1>3, <2>1
    <3>2. MayStart(traceStart)
      BY <3>1 DEF IInv, RecordingMayStart
    <3> QED
      BY <1>3, <3>2 DEF MayStart, handlerVars, profilerVars
  <2> QED
    BY <2>1 DEF RecordingMayStart
<1>8. SomeFrame' /\ CompilingMayStart' /\ NativeInTrace' /\ NewStubsMatch'
  BY DEF SomeFrame, CompilingMayStart, NativeInTrace, NewStubsMatch
<1>9. ExitTableDense'
  BY DEF IInv, ExitTableDense, handlerVars, compilerVars
<1> QED
  BY <1>3, <1>5, <1>6, <1>7, <1>8, <1>9 DEF IInv, TracesInv

-----------------------------------------------------------------------------
(* Every step of the run loop keeps the invariant.                         *)
LEMMA NextKeeps == IInv /\ [Next]_vars => IInv'
<1> SUFFICES ASSUME IInv, [Next]_vars PROVE IInv'
  OBVIOUS
<1>1. CASE KeepGoing
  BY <1>1, PhaseKeeps DEF KeepGoing
<1>2. CASE GiveUpRecording
  BY <1>2, GiveUpRecordingKeeps
<1>3. CASE StartCompiling
  BY <1>3, StartCompilingKeeps
<1>4. CASE CompileEntry
  BY <1>4, CompileEntryKeeps
<1>5. CASE CompileFails
  BY <1>5, PhaseKeeps DEF CompileFails
<1>6. CASE InstallFails
  BY <1>6, PhaseKeeps DEF InstallFails
<1>7. CASE Install
  BY <1>7, InstallKeeps
<1>8. CASE EnterTrace
  BY <1>8, EnterTraceKeeps
<1>9. CASE RunNative
  BY <1>9, RunNativeKeeps
<1>10. CASE GoWild
  BY <1>10, PhaseKeeps DEF GoWild
<1>11. CASE LinkTraces
  BY <1>11, LinkTracesKeeps
<1>12. CASE LeaveTrace
  BY <1>12, LeaveTraceKeeps
<1>13. CASE Profile
  BY <1>13, ProfileKeeps
<1>14. CASE RecordAndInterpret
  BY <1>14, RecordAndInterpretKeeps
<1>15. CASE RecordFails
  BY <1>15, PhaseKeeps DEF RecordFails
<1>16. CASE StayStopped \/ UNCHANGED vars
  BY <1>16, PhaseKeeps DEF StayStopped, vars
<1> QED
  BY <1>1, <1>2, <1>3, <1>4, <1>5, <1>6, <1>7, <1>8, <1>9, <1>10, <1>11, <1>12,
     <1>13, <1>14, <1>15, <1>16 DEF Next

(* The invariant the theorems below follow from: between the recorder, the *)
(* compiler, the exit table and the installed traces.                      *)
THEOREM Invariance == Spec => []IInv
BY InitInv, NextKeeps, PTL DEF Spec

(* Interpreting, recording and compiling never leave the instructions of   *)
(* the program, whatever the uninitialised fields of RunTime held.         *)
THEOREM TypeCorrect == Spec => []TypeOK
<1>1. IInv => TypeOK
  BY DEF IInv
<1> QED
  BY <1>1, Invariance, PTL

(* tracesArray of runTrace, one slot per exit, is never indexed outside.   *)
THEOREM ExitIdsAreDense == Spec => []ExitTableDense
<1>1. IInv => ExitTableDense
  BY DEF IInv
<1> QED
  BY <1>1, Invariance, PTL

(* The id in a stub leads back to the pc the stub was compiled for.        *)
THEOREM ExitsLeadHome == Spec => []StubsMatchExitTable
<1>1. IInv => StubsMatchExitTable
  BY DEF IInv
<1> QED
  BY <1>1, Invariance, PTL

(* The assertion of insertTrace, "Cannot have more than one same exitId",  *)
(* never fails.                                                            *)
THEOREM InsertAssertionHolds == Spec => [](Compiled => ExitIdsAreNew)
<1>1. IInv => (Compiled => ExitIdsAreNew)
  BY DEF IInv, ExitTableDense, Compiled, ExitIdsAreNew
<1> QED
  BY <1>1, Invariance, PTL

(* A trace starts at a pc counted more often than the threshold.           *)
THEOREM CompiledCodeIsHot == Spec => []OnlyHotCodeCompiled
<1>1. IInv => OnlyHotCodeCompiled
  BY DEF IInv
<1> QED
  BY <1>1, Invariance, PTL

LEMMA OnlyInstallInstalls ==
    ASSUME [Next]_vars, ~Install
    PROVE  traces' = traces
BY DEF Next, KeepGoing, GiveUpRecording, StartCompiling, CompileEntry, CompileFails,
       InstallFails, EnterTrace, RunNative, GoWild, LinkTraces, LeaveTrace, Profile,
       RecordAndInterpret, RecordFails, StayStopped, handlerVars, vars

(* No step takes an installed trace away or puts another in its place.     *)
THEOREM TracesStay == Spec => TracesNeverReplaced
<1> DEFINE Stay == \A pc \in DOMAIN traces : pc \in DOMAIN traces' /\ traces'[pc] = traces[pc]
<1>1. IInv /\ [Next]_vars => [Stay]_vars
  <2> SUFFICES ASSUME IInv, Next PROVE Stay
    OBVIOUS
  <2>1. CASE Install
    <3>1. traceStart \notin DOMAIN traces
      BY <2>1 DEF Install, Compiled, IInv, CompilingMayStart, MayStart
    <3> QED
      BY <2>1, <3>1 DEF Install, InsertTrace
  <2>2. CASE ~Install
    BY <2>2, OnlyInstallInstalls
  <2> QED
    BY <2>1, <2>2
<1> QED
  BY <1>1, Invariance, PTL DEF Spec, TracesNeverReplaced
=============================================================================
