--------------------------- MODULE TraceRecorder ---------------------------
(***************************************************************************)
(* The trace recorder keeps the instructions interpreted since a pc became *)
(* hot, until control is back at the loop header.  Branches are turned     *)
(* round where needed so that, in the compiled trace, a jump leaves the    *)
(* recorded path and falling through stays on it.                          *)
(***************************************************************************)
EXTENDS Bytecode

CONSTANTS
    UninitFlags,   \* what a bool no constructor has written may hold
    MaxRecorded    \* bound of the model: entries in one recording

ASSUME RecorderAssumption ==
    /\ UninitFlags \subseteq BOOLEAN
    /\ MaxRecorded \in Nat

VARIABLES
    recording, lastInstructionWasBranch, traceStart, loopHeader,
    recordedTrace,       \* sequence of RecordEntry: [pc, mn, arg]
    innerBranchTargets, outerBranchTargets

recorderVars == <<recording, lastInstructionWasBranch, traceStart, loopHeader,
                  recordedTrace, innerBranchTargets, outerBranchTargets>>

(* RunTime() has an empty body and TraceRecorder no constructor: the flags *)
(* and the two pcs start as whatever the stack held.                       *)
InitRecorder ==
    /\ recording \in UninitFlags
    /\ lastInstructionWasBranch \in UninitFlags
    /\ traceStart \in UninitPcs
    /\ loopHeader \in UninitPcs
    /\ recordedTrace = <<>>
    /\ innerBranchTargets = {} /\ outerBranchTargets = {}

-----------------------------------------------------------------------------
LastEntry == recordedTrace[Len(recordedTrace)]

(* Mutant of LabelOf: offsets taken from the next instruction.             *)
LabelOfFromNext(entry) == Jump(entry.pc, entry.arg + 3)

LabelOf(entry) == Jump(entry.pc, entry.arg)

(* Mutant of ReturnedRecursively: returns are followed wherever they lead. *)
ReturnedRecursivelyNever(pc) == FALSE

(* recordingDone gives up when a method the recording passed through has   *)
(* returned into itself.                                                   *)
ReturnedRecursively(pc) ==
    /\ recordedTrace # <<>>
    /\ LastEntry.mn \in Returns
    /\ LastEntry.pc.m = pc.m

(* Mutant of RecordingDone: any pc of the header's method will do.         *)
RecordingDoneInMethod(pc) ==
    /\ recordedTrace # <<>>
    /\ ~ReturnedRecursively(pc)
    /\ pc.m = loopHeader.m

RecordingDone(pc) ==
    /\ recordedTrace # <<>>
    /\ ~ReturnedRecursively(pc)
    /\ pc = loopHeader

AbandonRecording ==
    /\ recording' = FALSE
    /\ UNCHANGED <<lastInstructionWasBranch, traceStart, loopHeader,
                   recordedTrace, innerBranchTargets, outerBranchTargets>>

(* Mutant of GetRecording: the recorder is left switched on.               *)
GetRecordingStillOn == UNCHANGED recorderVars

(* getRecording hands out copies and leaves the originals as they are.     *)
GetRecording == AbandonRecording

(* Mutant of InitRecording: the last recording's entries are kept.         *)
InitRecordingNoClear(header, start) ==
    IF recording /\ traceStart = start
    THEN UNCHANGED recorderVars
    ELSE /\ recording' = TRUE
         /\ lastInstructionWasBranch' = FALSE
         /\ traceStart' = start
         /\ loopHeader' = header
         /\ innerBranchTargets' = {} /\ outerBranchTargets' = {}
         /\ UNCHANGED recordedTrace

InitRecording(header, start) ==
    IF recording /\ traceStart = start
    THEN UNCHANGED recorderVars
    ELSE /\ recording' = TRUE
         /\ lastInstructionWasBranch' = FALSE
         /\ traceStart' = start
         /\ loopHeader' = header
         /\ recordedTrace' = <<>>
         /\ innerBranchTargets' = {} /\ outerBranchTargets' = {}

-----------------------------------------------------------------------------
(* branchFlip: the branch recorded last was taken iff its target is the pc *)
(* recorded now.                                                           *)
FlipOf ==
    [IFNE |-> "IFEQ", IFGT |-> "IFLE",
     IF_ICMPGE |-> "IF_ICMPLT", IF_ICMPGT |-> "IF_ICMPLE",
     IF_ICMPLE |-> "IF_ICMPGT", IF_ICMPNE |-> "IF_ICMPEQ"]

(* Mutant of MustFlip: branches are never turned round.                    *)
MustFlipNever(pc) == FALSE

MustFlip(pc) ==
    lastInstructionWasBranch /\ recordedTrace # <<>> /\ LabelOf(LastEntry) = pc

(* The throw of branchFlip's default case.  On an empty vector, which only *)
(* an uninitialised lastInstructionWasBranch leads to, size() - 1 wraps    *)
(* and the read faults.                                                    *)
RecordThrows(pc) ==
    /\ lastInstructionWasBranch
    /\ \/ recordedTrace = <<>>
       \/ MustFlip(pc) /\ LastEntry.mn \notin DOMAIN FlipOf

(* Mutant of LastEntryFlipped: a new target under the old condition.       *)
LastEntryRetargeted(pc) ==
    IF MustFlip(pc) THEN [LastEntry EXCEPT !.arg = 3] ELSE LastEntry

(* A flipped branch jumps to the instruction behind it, three bytes on.    *)
LastEntryFlipped(pc) ==
    IF MustFlip(pc)
    THEN [pc |-> LastEntry.pc, mn |-> FlipOf[LastEntry.mn], arg |-> 3]
    ELSE LastEntry

TraceAfterFlip(pc) ==
    IF lastInstructionWasBranch
    THEN [recordedTrace EXCEPT ![Len(recordedTrace)] = LastEntryFlipped(pc)]
    ELSE recordedTrace

(* Mutant of FlipTargets: a way out that leads forwards is not noted.      *)
FlipTargetsBackward(pc, backward) ==
    IF lastInstructionWasBranch /\ LastEntryFlipped(pc).arg < 0 /\ backward
    THEN {LabelOf(LastEntryFlipped(pc))} ELSE {}

FlipTargets(pc, backward) ==
    IF lastInstructionWasBranch /\ (LastEntryFlipped(pc).arg < 0) = backward
    THEN {LabelOf(LastEntryFlipped(pc))} ELSE {}

-----------------------------------------------------------------------------
(* The branches record() knows.  After one of the others (IFLT, IFGE, IFLE,*)
(* IF_ICMPEQ, IF_ICMPLT) there is no flip and no branch target.            *)
NotedBranches == DOMAIN FlipOf \cup {"IFEQ"}

(* Short forms become their parameterised counterparts.                    *)
LongForm ==
    [ILOAD_n |-> "ILOAD", LLOAD_n |-> "LLOAD", FLOAD_n |-> "FLOAD",
     DLOAD_n |-> "DLOAD", ISTORE_n |-> "ISTORE", LSTORE_n |-> "LSTORE",
     FSTORE_n |-> "FSTORE", DSTORE_n |-> "DSTORE", ICONST_n |-> "LDC",
     FCONST_n |-> "LDC", LCONST_n |-> "LDC2_W", DCONST_n |-> "LDC2_W"]

(* Mutant of EntryFor: short forms are recorded as they are.               *)
EntryForAsRead(pc) == [pc |-> pc, arg |-> Code[pc].arg, mn |-> Mnemonic(pc)]

EntryFor(pc) ==
    [pc  |-> pc, arg |-> Code[pc].arg,
     mn  |-> IF Mnemonic(pc) \in DOMAIN LongForm
             THEN LongForm[Mnemonic(pc)] ELSE Mnemonic(pc)]

(* Mutant of RecursiveCall: calls are recorded whatever they call.         *)
RecursiveCallIgnored(pc) == FALSE

RecursiveCall(pc) ==
    Mnemonic(pc) = "INVOKESTATIC" /\ Code[pc].arg = traceStart.m

(* The target of a backward GOTO: the trace's own start, or a way out.     *)
GotoTargets(pc, toStart) ==
    IF Mnemonic(pc) = "GOTO" /\ (Target(pc) = traceStart) = toStart
    THEN {Target(pc)} ELSE {}

(* branchFlip for the entry before, then the push_back of this one.        *)
Keep(pc, entries, inner, outer) ==
    /\ recordedTrace' = TraceAfterFlip(pc) \o entries
    /\ innerBranchTargets' = innerBranchTargets \cup FlipTargets(pc, TRUE) \cup inner
    /\ outerBranchTargets' = outerBranchTargets \cup FlipTargets(pc, FALSE) \cup outer
    /\ UNCHANGED <<traceStart, loopHeader>>

(* record() returns before the push_back for a forward GOTO ...            *)
RecordForwardGoto(pc) ==
    /\ ForwardGoto(pc)
    /\ Keep(pc, <<>>, {}, {})
    /\ lastInstructionWasBranch' = FALSE
    /\ UNCHANGED recording

(* ... and gives up at a call back into the method being traced.           *)
RecordRecursiveCall(pc) ==
    /\ RecursiveCall(pc)
    /\ Keep(pc, <<>>, {}, {})
    /\ lastInstructionWasBranch' = FALSE
    /\ recording' = FALSE

RecordEntry(pc) ==
    /\ ~ForwardGoto(pc)
    /\ ~RecursiveCall(pc)
    /\ Len(recordedTrace) < MaxRecorded
    /\ Keep(pc, <<EntryFor(pc)>>, GotoTargets(pc, TRUE), GotoTargets(pc, FALSE))
    /\ lastInstructionWasBranch' = (Mnemonic(pc) \in NotedBranches)
    /\ UNCHANGED recording

Record(pc) ==
    /\ ~RecordThrows(pc)
    /\ \/ RecordForwardGoto(pc)
       \/ RecordRecursiveCall(pc)
       \/ RecordEntry(pc)
=============================================================================
