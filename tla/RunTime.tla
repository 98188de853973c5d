------------------------------ MODULE RunTime ------------------------------
(***************************************************************************)
(* RunTime::run, the loop that ties the components together.  Each turn:   *)
(* finish a recording that is back at its header (compile and install it), *)
(* then either run the native trace at the pc or profile, record and       *)
(* interpret one instruction.  `phase` is how far the turn has come.       *)
(***************************************************************************)
EXTENDS Interpreter, Profiler, TraceRecorder, TraceHandler

CONSTANT MaxFrames   \* bound of the model: depth of program->states

ASSUME FramesAssumption == MaxFrames \in Nat \ {0}

VARIABLES
    frames,   \* program->states as a sequence of pcs, top first
    cond,     \* whether the relation the next conditional branch tests holds
    phase

Phases == {"check", "compile", "dispatch", "native", "execute", "aborted", "wild"}

vars == <<profilerVars, recorderVars, compilerVars, handlerVars, frames, cond, phase>>

(* The pc of program->states.top().                                        *)
Top == Head(frames)

Init ==
    /\ InitProfiler /\ InitRecorder /\ InitCompiler /\ InitHandler
    /\ frames = <<EntryPc(MainMethod)>>
    /\ cond \in BOOLEAN
    /\ phase = "check"

(* A branch uses the oracle up; nothing else touches it.                   *)
Redraw(pc) == cond' \in (IF Mnemonic(pc) \in Branches THEN BOOLEAN ELSE {cond})

-----------------------------------------------------------------------------
(* if (isRecording() && recordingDone(pc))                                 *)
KeepGoing ==
    /\ phase = "check" /\ frames # <<>>
    /\ recording => ~RecordingDone(Top) /\ ~ReturnedRecursively(Top)
    /\ phase' = "dispatch"
    /\ UNCHANGED <<profilerVars, recorderVars, compilerVars, handlerVars, frames, cond>>

GiveUpRecording ==
    /\ phase = "check" /\ frames # <<>>
    /\ recording /\ ReturnedRecursively(Top)
    /\ AbandonRecording
    /\ phase' = "dispatch"
    /\ UNCHANGED <<profilerVars, compilerVars, handlerVars, frames, cond>>

StartCompiling ==
    /\ phase = "check" /\ frames # <<>>
    /\ recording /\ RecordingDone(Top)
    /\ GetRecording
    /\ ResetCompilerState
    /\ phase' = "compile"
    /\ UNCHANGED <<profilerVars, handlerVars, frames, cond>>

(* compileAndInstall works on a copy of the recording; the recorder's      *)
(* fields stay as copied until it returns, so they stand for the copy.  A  *)
(* block is made for each entry, so the blocks say which entry is next.    *)
NextEntry == recordedTrace[Len(nativeTrace) + 1]

Compiling == phase = "compile" /\ Len(nativeTrace) < Len(recordedTrace)
Compiled == phase = "compile" /\ Len(nativeTrace) = Len(recordedTrace)

CompileEntry ==
    /\ Compiling
    /\ Compile(NextEntry, LabelOf(NextEntry), innerBranchTargets)
    /\ UNCHANGED <<profilerVars, recorderVars, handlerVars, frames, cond, phase>>

(* A throw with nothing to throw ends the process.                         *)
CompileFails ==
    /\ Compiling
    /\ CompileThrows(NextEntry, LabelOf(NextEntry), innerBranchTargets)
    /\ phase' = "aborted"
    /\ UNCHANGED <<profilerVars, recorderVars, compilerVars, handlerVars, frames, cond>>

InstallFails ==
    /\ Compiled
    /\ AssembleThrows(innerBranchTargets, outerBranchTargets) \/ ~ExitIdsAreNew
    /\ phase' = "aborted"
    /\ UNCHANGED <<profilerVars, recorderVars, compilerVars, handlerVars, frames, cond>>

Install ==
    /\ Compiled
    /\ ~AssembleThrows(innerBranchTargets, outerBranchTargets) /\ ExitIdsAreNew
    /\ InsertTrace(traceStart, Trace(innerBranchTargets))
    /\ phase' = "dispatch"
    /\ UNCHANGED <<profilerVars, recorderVars, compilerVars, native, frames, cond>>

-----------------------------------------------------------------------------
(* runTrace(state).  state->pc keeps the pc of the trace that was entered  *)
(* until native code returns, however many traces it went through.         *)
EnterTrace ==
    /\ phase = "dispatch" /\ HasTrace(Top)
    /\ native' = InBlock(Top, 1)
    /\ phase' = "native"
    /\ UNCHANGED <<profilerVars, recorderVars, compilerVars, traces, exitPoints,
                   frames, cond>>

RunNative ==
    /\ phase = "native"
    /\ RunBlock(cond)
    /\ Redraw(Block.pc)
    /\ UNCHANGED <<profilerVars, recorderVars, compilerVars, traces, exitPoints,
                   frames, phase>>

GoWild ==
    /\ phase = "native"
    /\ RunsWild(cond)
    /\ phase' = "wild"
    /\ UNCHANGED <<profilerVars, recorderVars, compilerVars, handlerVars, frames, cond>>

LinkTraces ==
    /\ phase = "native"
    /\ FollowLink
    /\ UNCHANGED <<profilerVars, recorderVars, compilerVars, traces, exitPoints,
                   frames, cond, phase>>

(* An exit that has become hot starts a recording there; the pc the trace  *)
(* was entered at is taken for the loop header.                            *)
LeaveTrace ==
    /\ phase = "native"
    /\ \E exitPc \in Pcs :
         /\ ReturnsTo(exitPc)
         /\ CountSideExitFor(exitPc)
         /\ IF IsHot(loopRecord', exitPc)
            THEN InitRecording(Top, exitPc)
            ELSE UNCHANGED recorderVars
         /\ frames' = <<exitPc>> \o Tail(frames)
    /\ phase' = "check"
    /\ UNCHANGED <<compilerVars, traces, exitPoints, cond>>

-----------------------------------------------------------------------------
(* prepareNext moves the pc on, but countVisitFor, isHot and record all    *)
(* get the pc read at the start of the turn.                               *)
Profile ==
    /\ phase = "dispatch" /\ ~HasTrace(Top)
    /\ CountVisitFor(Top)
    /\ IF IsHot(loopRecord', Top)
       THEN InitRecording(Top, Top)
       ELSE UNCHANGED recorderVars
    /\ phase' = "execute"
    /\ UNCHANGED <<compilerVars, handlerVars, frames, cond>>

FramesFull == Mnemonic(Top) = "INVOKESTATIC" /\ Len(frames) = MaxFrames

RecordAndInterpret ==
    /\ phase = "execute" /\ ~FramesFull
    /\ IF recording THEN Record(Top) ELSE UNCHANGED recorderVars
    /\ frames' = EvalInstruction(frames, cond)
    /\ Redraw(Top)
    /\ phase' = "check"
    /\ UNCHANGED <<profilerVars, compilerVars, handlerVars>>

RecordFails ==
    /\ phase = "execute"
    /\ recording /\ RecordThrows(Top)
    /\ phase' = "aborted"
    /\ UNCHANGED <<profilerVars, recorderVars, compilerVars, handlerVars, frames, cond>>

-----------------------------------------------------------------------------
(* The process has ended, or the model has reached one of its bounds.      *)
RecordingFull == recording /\ Len(recordedTrace) = MaxRecorded
Stopped ==
    \/ frames = <<>>
    \/ phase \in {"aborted", "wild"}
    \/ phase = "execute" /\ (FramesFull \/ RecordingFull)

StayStopped == Stopped /\ UNCHANGED vars

Next ==
    \/ KeepGoing \/ GiveUpRecording \/ StartCompiling
    \/ CompileEntry \/ CompileFails \/ InstallFails \/ Install
    \/ EnterTrace \/ RunNative \/ GoWild \/ LinkTraces \/ LeaveTrace
    \/ Profile \/ RecordAndInterpret \/ RecordFails
    \/ StayStopped

Spec == Init /\ [][Next]_vars

(* One thread runs the loop and nothing in it waits: it always goes on.    *)
FairSpec == Spec /\ WF_vars(Next)
=============================================================================
