--------------------------- MODULE RecordingProofs ---------------------------
(***************************************************************************)
(* Proofs about what recordings and the traces made of them say of the     *)
(* program, and, from there, that the tracing run loop implements the      *)
(* interpreter: control follows the program through every installed trace, *)
(* then the refinement, action by action.                                  *)
(***************************************************************************)
EXTENDS RunTimeProofs, RecordingInvariants

-----------------------------------------------------------------------------
(* Turning the last entry round.                                           *)

LEMMA FlipFaithful ==
    ASSUME NEW pc \in Pcs, RecorderTypeOK, LastEntryIsBranch, EntriesFaithful,
           lastInstructionWasBranch, ~RecordThrows(pc)
    PROVE  Faithful(LastEntryFlipped(pc)) /\ LastEntryFlipped(pc).pc = LastEntry.pc
<1>1. recordedTrace \in Seq(Entries) /\ recordedTrace # <<>>
  BY DEF RecorderTypeOK, RecordThrows
<1>2. Faithful(LastEntry)
  BY <1>1 DEF EntriesFaithful, LastEntry
<1>3. CASE MustFlip(pc)
  <2>1. LastEntry.mn \in DOMAIN FlipOf /\ LastEntry.mn = Mnemonic(LastEntry.pc)
    BY <1>1, <1>3 DEF RecordThrows, LastEntryIsBranch
  <2>2. LastEntryFlipped(pc) = TurnedRound(LastEntry.pc)
    BY <1>3, <2>1 DEF LastEntryFlipped, TurnedRound
  <2> QED
    BY <1>2, <2>1, <2>2 DEF Faithful, TurnedRound
<1>4. CASE ~MustFlip(pc)
  BY <1>2, <1>4 DEF LastEntryFlipped
<1> QED
  BY <1>3, <1>4

(* branchFlip changes at most the last entry, and never its pc.            *)
LEMMA FlipChangesLast ==
    ASSUME NEW pc \in Pcs, RecorderTypeOK, LastEntryIsBranch, ~RecordThrows(pc)
    PROVE  /\ TraceAfterFlip(pc) \in Seq(Entries)
           /\ Len(TraceAfterFlip(pc)) = Len(recordedTrace)
           /\ \A k \in 1 .. Len(recordedTrace) :
                /\ TraceAfterFlip(pc)[k].pc = recordedTrace[k].pc
                /\ (lastInstructionWasBranch => k # Len(recordedTrace)) =>
                        TraceAfterFlip(pc)[k] = recordedTrace[k]
           /\ lastInstructionWasBranch =>
                /\ recordedTrace # <<>>
                /\ TraceAfterFlip(pc)[Len(recordedTrace)] = LastEntryFlipped(pc)
<1>1. recordedTrace \in Seq(Entries)
  BY DEF RecorderTypeOK
<1>2. TraceAfterFlip(pc) \in Seq(Entries)
  BY FlipTyped
<1>3. CASE ~lastInstructionWasBranch
  BY <1>1, <1>2, <1>3 DEF TraceAfterFlip
<1>4. CASE lastInstructionWasBranch
  <2> DEFINE e == LastEntryFlipped(pc)
             n == Len(recordedTrace)
  <2>1. recordedTrace # <<>>
    BY <1>4 DEF RecordThrows
  <2>2. e.pc = LastEntry.pc
    BY DEF LastEntryFlipped
  <2>3. n \in 1 .. n /\ LastEntry = recordedTrace[n]
    BY <1>1, <2>1 DEF LastEntry
  <2> HIDE DEF e
  <2>4. TraceAfterFlip(pc) = [recordedTrace EXCEPT ![n] = e]
    BY <1>4 DEF TraceAfterFlip, e
  <2>5. Len(TraceAfterFlip(pc)) = n
    BY <1>1, <2>4
  <2>6. TraceAfterFlip(pc)[n] = e
    BY <1>1, <2>3, <2>4
  <2>7. \A k \in 1 .. n : k # n => TraceAfterFlip(pc)[k] = recordedTrace[k]
    BY <1>1, <2>4
  <2> QED
    BY <1>2, <1>4, <2>1, <2>2, <2>3, <2>5, <2>6, <2>7 DEF e
<1> QED
  BY <1>3, <1>4

(* What record() does to the entries: an instruction that stays in the     *)
(* recording comes last, any other changes only what branchFlip changes.   *)
Kept(pc) == ~ForwardGoto(pc) /\ ~RecursiveCall(pc)

LEMMA RecordShape ==
    ASSUME NEW pc \in Pcs, Record(pc)
    PROVE  /\ ~RecordThrows(pc)
           /\ traceStart' = traceStart /\ loopHeader' = loopHeader
           /\ IF Kept(pc)
              THEN /\ recordedTrace' = TraceAfterFlip(pc) \o <<EntryFor(pc)>>
                   /\ innerBranchTargets' =
                        innerBranchTargets \cup FlipTargets(pc, TRUE) \cup GotoTargets(pc, TRUE)
                   /\ lastInstructionWasBranch' = (Mnemonic(pc) \in NotedBranches)
                   /\ recording' = recording
              ELSE /\ recordedTrace' = TraceAfterFlip(pc) \o <<>>
                   /\ innerBranchTargets' = innerBranchTargets \cup FlipTargets(pc, TRUE)
                   /\ lastInstructionWasBranch' = FALSE
                   /\ recording' = recording \/ recording' = FALSE
                   /\ RecursiveCall(pc) => recording' = FALSE
<1>1. ~RecordThrows(pc)
  BY DEF Record
<1>2. CASE RecordForwardGoto(pc)
  BY <1>1, <1>2 DEF RecordForwardGoto, Keep, Kept, RecursiveCall, ForwardGoto
<1>3. CASE RecordRecursiveCall(pc)
  BY <1>1, <1>3 DEF RecordRecursiveCall, Keep, Kept
<1>4. CASE RecordEntry(pc)
  BY <1>1, <1>4 DEF RecordEntry, Keep, Kept
<1> QED
  BY <1>2, <1>3, <1>4 DEF Record

LEMMA EntryFaithful ==
    ASSUME NEW pc \in Pcs, ~ForwardGoto(pc)
    PROVE  Faithful(EntryFor(pc))
BY DEF Faithful, EntryFor

LEMMA RecordedEntries ==
    ASSUME NEW pc \in Pcs, RecorderTypeOK, LastEntryIsBranch, Record(pc)
    PROVE  /\ recordedTrace' \in Seq(Entries)
           /\ DOMAIN recordedTrace \subseteq DOMAIN recordedTrace'
           /\ \A k \in DOMAIN recordedTrace : recordedTrace'[k] = TraceAfterFlip(pc)[k]
           /\ IF Kept(pc)
              THEN /\ DOMAIN recordedTrace' = DOMAIN recordedTrace \cup {Len(recordedTrace')}
                   /\ Len(recordedTrace') = Len(recordedTrace) + 1
                   /\ recordedTrace'[Len(recordedTrace')] = EntryFor(pc)
              ELSE DOMAIN recordedTrace' = DOMAIN recordedTrace
<1>1. ~RecordThrows(pc)
  BY RecordShape
<1>2. /\ TraceAfterFlip(pc) \in Seq(Entries)
      /\ Len(TraceAfterFlip(pc)) = Len(recordedTrace)
  BY <1>1, FlipChangesLast
<1>3. recordedTrace \in Seq(Entries)
  BY DEF RecorderTypeOK
<1>4. recordedTrace' = TraceAfterFlip(pc) \o (IF Kept(pc) THEN <<EntryFor(pc)>> ELSE <<>>)
  BY RecordShape, Zenon
<1>5. EntryFor(pc) \in Entries
  BY EntryTyped
<1>6. CASE Kept(pc)
  BY <1>2, <1>3, <1>4, <1>5, <1>6
<1>7. CASE ~Kept(pc)
  BY <1>2, <1>3, <1>4, <1>7
<1> QED
  BY <1>6, <1>7

LEMMA RecordKeepsFaithful ==
    ASSUME NEW pc \in Pcs, RecorderTypeOK, LastEntryIsBranch, EntriesFaithful, Record(pc)
    PROVE  EntriesFaithful'
<1> SUFFICES ASSUME NEW k \in DOMAIN recordedTrace'
             PROVE  Faithful(recordedTrace'[k])
  BY DEF EntriesFaithful, Faithful
<1>1. ~RecordThrows(pc)
  BY RecordShape
<1>2. CASE k \notin DOMAIN recordedTrace
  BY <1>2, RecordedEntries, EntryFaithful DEF Kept
<1>3. CASE k \in DOMAIN recordedTrace /\ (lastInstructionWasBranch => k # Len(recordedTrace))
  <2>1. recordedTrace'[k] = recordedTrace[k]
    BY <1>1, <1>3, RecordedEntries, FlipChangesLast DEF RecorderTypeOK
  <2> QED
    BY <1>3, <2>1 DEF EntriesFaithful
<1>4. CASE lastInstructionWasBranch /\ k = Len(recordedTrace)
  <2>1. recordedTrace'[k] = LastEntryFlipped(pc)
    BY <1>1, <1>4, RecordedEntries, FlipChangesLast DEF RecorderTypeOK
  <2> QED
    BY <1>1, <1>4, <2>1, FlipFaithful
<1> QED
  BY <1>2, <1>3, <1>4

LEMMA RecordKeepsTargets ==
    ASSUME NEW pc \in Pcs, RecorderTypeOK, LastEntryIsBranch, InnerTargetsRecorded, Record(pc)
    PROVE  InnerTargetsRecorded'
<1> DEFINE Recorded(label, k) ==
               /\ k \in DOMAIN recordedTrace'
               /\ lastInstructionWasBranch' => k # Len(recordedTrace')
               /\ recordedTrace'[k].mn \in Branches /\ LabelOf(recordedTrace'[k]) = label
<1> SUFFICES ASSUME NEW label \in innerBranchTargets'
             PROVE  label = traceStart \/ \E k : Recorded(label, k)
  BY RecordShape DEF InnerTargetsRecorded, LabelOf
<1>1. ~RecordThrows(pc) /\ recordedTrace \in Seq(Entries)
  BY RecordShape DEF RecorderTypeOK
<1>2. \A k \in DOMAIN recordedTrace : lastInstructionWasBranch' => k # Len(recordedTrace')
  <2>1. CASE Kept(pc)
    BY <1>1, <2>1, RecordedEntries
  <2>2. CASE ~Kept(pc)
    <3>1. ~lastInstructionWasBranch'
      BY <2>2, RecordShape
    <3> QED
      BY <3>1
  <2> QED
    BY <2>1, <2>2
<1>3. \/ label \in innerBranchTargets
      \/ label \in FlipTargets(pc, TRUE)
      \/ label \in GotoTargets(pc, TRUE)
  BY RecordShape
<1>4. CASE label \in innerBranchTargets /\ label # traceStart
  <2>1. PICK k \in DOMAIN recordedTrace :
             /\ lastInstructionWasBranch => k # Len(recordedTrace)
             /\ recordedTrace[k].mn \in Branches /\ LabelOf(recordedTrace[k]) = label
    BY <1>4 DEF InnerTargetsRecorded
  <2>2. recordedTrace'[k] = recordedTrace[k] /\ k \in DOMAIN recordedTrace'
    BY <1>1, <2>1, RecordedEntries, FlipChangesLast
  <2>3. Recorded(label, k)
    BY <1>2, <2>1, <2>2
  <2> QED
    BY <2>3
<1>5. CASE label \in FlipTargets(pc, TRUE)
  <2> DEFINE k == Len(recordedTrace)
  <2>1. lastInstructionWasBranch /\ label = LabelOf(LastEntryFlipped(pc))
    BY <1>5 DEF FlipTargets
  <2>2. recordedTrace # <<>> /\ TraceAfterFlip(pc)[k] = LastEntryFlipped(pc)
    BY <1>1, <2>1, FlipChangesLast
  <2>3. k \in DOMAIN recordedTrace
    BY <1>1, <2>2
  <2>4. recordedTrace'[k] = LastEntryFlipped(pc) /\ k \in DOMAIN recordedTrace'
    BY <2>2, <2>3, RecordedEntries
  <2>5. LastEntryFlipped(pc).mn \in Branches
    BY <1>1, <2>1, FlippedTyped
  <2> HIDE DEF k
  <2>6. Recorded(label, k)
    BY <1>2, <2>1, <2>3, <2>4, <2>5
  <2> QED
    BY <2>6
<1>6. CASE label \in GotoTargets(pc, TRUE)
  BY <1>6 DEF GotoTargets
<1> QED
  BY <1>3, <1>4, <1>5, <1>6

-----------------------------------------------------------------------------
(* The parts of the invariant that only the recorder's fields are in.      *)
RecorderInv == EntriesFaithful /\ HeaderKnown /\ InnerTargetsRecorded

LEMMA RecorderUnchanged ==
    ASSUME RecorderInv, UNCHANGED recorderVars
    PROVE  RecorderInv'
<1> USE DEF recorderVars
<1>1. EntriesFaithful' /\ HeaderKnown'
  BY DEF RecorderInv, EntriesFaithful, Faithful, HeaderKnown
<1>2. InnerTargetsRecorded'
  BY DEF RecorderInv, InnerTargetsRecorded, LabelOf
<1> QED
  BY <1>1, <1>2 DEF RecorderInv

LEMMA RecorderStarted ==
    ASSUME NEW header \in Pcs, NEW start \in Pcs, RecorderInv, InitRecording(header, start)
    PROVE  /\ RecorderInv'
           /\ traceStart' = start
           /\ \/ recordedTrace' = <<>>
              \/ recording /\ UNCHANGED recorderVars
<1>1. CASE recording /\ traceStart = start
  BY <1>1, RecorderUnchanged DEF InitRecording, recorderVars
<1>2. CASE ~(recording /\ traceStart = start)
  <2>1. /\ traceStart' = start /\ loopHeader' = header /\ recordedTrace' = <<>>
        /\ innerBranchTargets' = {}
    BY <1>2 DEF InitRecording
  <2> QED
    BY <2>1 DEF RecorderInv, EntriesFaithful, HeaderKnown, InnerTargetsRecorded
<1> QED
  BY <1>1, <1>2

(* Once there is an entry, the first one stays.                            *)
LEMMA FirstStays ==
    ASSUME FirstIsStart, UNCHANGED <<recordedTrace, traceStart>>, recordedTrace # <<>>
    PROVE  FirstIsStart'
BY DEF FirstIsStart

LEMMA RecordedUnchanged ==
    ASSUME RecordedInv, UNCHANGED recorderVars, FirstIsStart', phase' # "compile"
    PROVE  RecordedInv'
BY RecorderUnchanged DEF RecordedInv, RecorderInv, BlocksAreEntries

-----------------------------------------------------------------------------
LEMMA InitRecorded == Init => RecordedInv
<1> SUFFICES ASSUME Init PROVE RecordedInv
  OBVIOUS
<1>1. /\ traceStart \notin Pcs /\ recordedTrace = <<>> /\ innerBranchTargets = {}
      /\ phase = "check"
  BY CodeAssumption DEF Init, InitRecorder
<1> QED
  BY <1>1 DEF RecordedInv, EntriesFaithful, FirstIsStart, HeaderKnown, InnerTargetsRecorded,
              BlocksAreEntries

(* Steps of the run loop that leave the recorder and the frames alone.     *)
LEMMA QuietStepsRecorded ==
    ASSUME IInv, RecordedInv, UNCHANGED <<recorderVars, frames>>, phase' # "compile",
           \/ phase' \in {"dispatch", "aborted", phase}
           \/ phase \in {"compile", "native"}
           \/ HasTrace(Top) /\ phase = "dispatch"
    PROVE  RecordedInv'
<1>1. FirstIsStart'
  <2>1. CASE recordedTrace # <<>>
    BY <2>1, FirstStays DEF RecordedInv, recorderVars
  <2>2. CASE recordedTrace = <<>> /\ recording /\ traceStart \in Pcs /\ ~ForwardGoto(traceStart)
    <3>1. frames # <<>> /\ Top = traceStart /\ phase \notin {"compile", "native", "wild"}
      BY <2>2 DEF RecordedInv, FirstIsStart
    <3>2. traceStart \notin DOMAIN traces
      BY <2>2 DEF RecordedInv, HeaderKnown, IInv, RecordingMayStart, MayStart
    <3>3. phase' \in {"dispatch", "aborted", phase}
      BY <3>1, <3>2 DEF HasTrace
    <3> QED
      BY <2>2, <3>1, <3>3 DEF FirstIsStart, Top, recorderVars
  <2>3. CASE recordedTrace = <<>> /\ ~(recording /\ traceStart \in Pcs /\ ~ForwardGoto(traceStart))
    BY <2>3 DEF FirstIsStart, recorderVars
  <2> QED
    BY <2>1, <2>2, <2>3
<1> QED
  BY <1>1, RecordedUnchanged

LEMMA GiveUpRecorded == IInv /\ RecordedInv /\ GiveUpRecording => RecordedInv'
<1> SUFFICES ASSUME IInv, RecordedInv, GiveUpRecording PROVE RecordedInv'
  OBVIOUS
<1> USE DEF GiveUpRecording, AbandonRecording
<1>1. recordedTrace # <<>>
  BY DEF ReturnedRecursively
<1>2. FirstIsStart'
  BY <1>1, FirstStays DEF RecordedInv
<1>3. EntriesFaithful' /\ HeaderKnown'
  BY DEF RecordedInv, EntriesFaithful, Faithful, HeaderKnown
<1>4. InnerTargetsRecorded'
  BY DEF RecordedInv, InnerTargetsRecorded, LabelOf
<1> QED
  BY <1>2, <1>3, <1>4 DEF RecordedInv, BlocksAreEntries

LEMMA StartCompilingRecorded == IInv /\ RecordedInv /\ StartCompiling => RecordedInv'
<1> SUFFICES ASSUME IInv, RecordedInv, StartCompiling PROVE RecordedInv'
  OBVIOUS
<1> USE DEF StartCompiling, GetRecording, AbandonRecording
<1>1. recordedTrace # <<>>
  BY DEF RecordingDone
<1>2. FirstIsStart'
  BY <1>1, FirstStays DEF RecordedInv
<1>3. EntriesFaithful' /\ HeaderKnown'
  BY DEF RecordedInv, EntriesFaithful, Faithful, HeaderKnown
<1>4. InnerTargetsRecorded'
  BY DEF RecordedInv, InnerTargetsRecorded, LabelOf
<1>5. BlocksAreEntries'
  BY DEF ResetCompilerState, BlocksAreEntries
<1> QED
  BY <1>2, <1>3, <1>4, <1>5 DEF RecordedInv

LEMMA CompileEntryRecorded == IInv /\ RecordedInv /\ CompileEntry => RecordedInv'
<1> SUFFICES ASSUME IInv, RecordedInv, CompileEntry PROVE RecordedInv'
  OBVIOUS
<1> USE DEF CompileEntry, Compiling
<1> DEFINE n == Len(nativeTrace) + 1
           label == LabelOf(NextEntry)
<1>1. RecorderInv'
  BY RecorderUnchanged DEF RecordedInv, RecorderInv
<1>2. FirstIsStart'
  BY FirstStays DEF RecordedInv, recorderVars, IInv, CompilingMayStart
<1>3. nativeTrace \in Seq(Blocks) /\ bailoutCode \in Seq(Stubs)
  BY DEF IInv, TypeOK, CompilerTypeOK
<1>4. nativeTrace' = Append(nativeTrace, BlockFor(NextEntry, label)) /\ NextEntry.mn \in Compilable
  BY DEF Compile, CompileThrows
<1>5. /\ \A j \in DOMAIN bailoutCode :
            j \in DOMAIN bailoutCode' /\ bailoutCode'[j].label = bailoutCode[j].label
      /\ NeedsBailout(NextEntry, label, innerBranchTargets) =>
            \E j \in DOMAIN bailoutCode' : bailoutCode'[j].label = label
  <2>1. CASE NeedsBailout(NextEntry, label, innerBranchTargets)
    <3> DEFINE stub == StubFor(label)
    <3>1. bailoutCode' = Append(bailoutCode, stub)
      BY <2>1 DEF Compile, CompileBailoutFor
    <3>2. stub.label = label
      BY DEF StubFor
    <3> HIDE DEF stub, label
    <3>3. /\ Len(bailoutCode) + 1 \in DOMAIN bailoutCode'
          /\ bailoutCode'[Len(bailoutCode) + 1] = stub
          /\ \A j \in DOMAIN bailoutCode :
                j \in DOMAIN bailoutCode' /\ bailoutCode'[j] = bailoutCode[j]
      BY <1>3, <3>1
    <3> QED
      BY <3>2, <3>3
  <2>2. CASE ~NeedsBailout(NextEntry, label, innerBranchTargets)
    BY <2>2 DEF Compile
  <2> QED
    BY <2>1, <2>2
<1>6. BlocksAreEntries'
  <2> SUFFICES ASSUME NEW k \in DOMAIN nativeTrace', NEW entry, entry = recordedTrace[k]
               PROVE  /\ nativeTrace'[k] = BlockFor(entry, LabelOf(entry))
                      /\ entry.mn \in Compilable
                      /\ NeedsBailout(entry, LabelOf(entry), innerBranchTargets) =>
                            \E j \in DOMAIN bailoutCode' : bailoutCode'[j].label = LabelOf(entry)
    BY DEF BlocksAreEntries, recorderVars, NeedsBailout, BlockFor, LabelOf
  <2>1. CASE k = n
    BY <1>3, <1>4, <1>5, <2>1 DEF NextEntry
  <2>2. CASE k # n
    <3> DEFINE block == BlockFor(NextEntry, label)
    <3> HIDE DEF block
    <3>1. k \in DOMAIN nativeTrace /\ nativeTrace'[k] = nativeTrace[k]
      BY <1>3, <1>4, <2>2 DEF block
    <3> QED
      BY <1>5, <3>1 DEF RecordedInv, BlocksAreEntries
  <2> QED
    BY <2>1, <2>2
<1> QED
  BY <1>1, <1>2, <1>6 DEF RecordedInv, RecorderInv

(* A trace is left, or the profiler finds a pc hot.                        *)
LEMMA CountRecorded ==
    ASSUME IInv, RecordedInv, NEW header \in Pcs, NEW start \in Pcs,
           IF IsHot(loopRecord', start)
           THEN InitRecording(header, start) ELSE UNCHANGED recorderVars,
           frames' # <<>>, Top' = start,
           \/ phase = "native"
           \/ phase = "dispatch" /\ frames' = frames,
           phase' \in {"check", "execute"}
    PROVE  RecordedInv'
<1>1. /\ RecorderInv'
      /\ \/ traceStart' = start /\ recordedTrace' = <<>>
         \/ UNCHANGED recorderVars
  BY RecorderStarted, RecorderUnchanged DEF RecordedInv, RecorderInv
<1>2. FirstIsStart'
  <2>1. CASE traceStart' = start /\ recordedTrace' = <<>>
    BY <2>1 DEF FirstIsStart
  <2>2. CASE UNCHANGED recorderVars
    BY <2>2 DEF RecordedInv, FirstIsStart, recorderVars, Top
  <2> QED
    BY <1>1, <2>1, <2>2
<1> QED
  BY <1>1, <1>2 DEF RecordedInv, RecorderInv, BlocksAreEntries

LEMMA LeaveTraceRecorded == IInv /\ RecordedInv /\ LeaveTrace => RecordedInv'
<1> SUFFICES ASSUME IInv, RecordedInv, LeaveTrace PROVE RecordedInv'
  OBVIOUS
<1>1. PICK exitPc \in Pcs :
         /\ IF IsHot(loopRecord', exitPc)
            THEN InitRecording(Top, exitPc)
            ELSE UNCHANGED recorderVars
         /\ frames' = <<exitPc>> \o Tail(frames)
  BY DEF LeaveTrace
<1>2. phase = "native" /\ phase' = "check"
  BY DEF LeaveTrace
<1>3. Top \in Pcs /\ Tail(frames) \in Seq(Pcs)
  BY <1>2, TopTyped DEF IInv, SomeFrame
<1>4. frames' # <<>> /\ Top' = exitPc
  BY <1>1, <1>3 DEF Top
<1> QED
  BY <1>1, <1>2, <1>3, <1>4, CountRecorded

LEMMA ProfileRecorded == IInv /\ RecordedInv /\ Profile => RecordedInv'
<1> SUFFICES ASSUME IInv, RecordedInv, Profile PROVE RecordedInv'
  OBVIOUS
<1> USE DEF Profile
<1>1. frames # <<>> /\ Top \in Pcs /\ Top' = Top
  BY TopTyped DEF IInv, SomeFrame, Top
<1> QED
  BY <1>1, CountRecorded

LEMMA RecordAndInterpretRecorded ==
    IInv /\ RecordedInv /\ RecordAndInterpret => RecordedInv'
<1> SUFFICES ASSUME IInv, RecordedInv, RecordAndInterpret PROVE RecordedInv'
  OBVIOUS
<1> USE DEF RecordAndInterpret
<1>1. Top \in Pcs /\ RecorderTypeOK /\ LastEntryIsBranch
  BY TopTyped DEF IInv, SomeFrame, TypeOK
<1>2. CASE ~recording
  <2>1. FirstIsStart'
    BY <1>2 DEF RecordedInv, FirstIsStart, recorderVars
  <2> QED
    BY <1>2, <2>1, RecordedUnchanged
<1>3. CASE recording
  <2>1. Record(Top)
    BY <1>3
  <2>2. EntriesFaithful' /\ InnerTargetsRecorded'
    BY <1>1, <2>1, RecordKeepsFaithful, RecordKeepsTargets DEF RecordedInv
  <2>3. HeaderKnown'
    BY <1>1, <2>1, RecordShape DEF RecordedInv, HeaderKnown
  <2>4. FirstIsStart'
    <3> SUFFICES ASSUME traceStart \in Pcs, ~ForwardGoto(traceStart)
                 PROVE  IF recordedTrace' # <<>> THEN recordedTrace'[1].pc = traceStart
                        ELSE ~recording'
      BY <1>1, <2>1, RecordShape DEF FirstIsStart
    <3>1. recordedTrace \in Seq(Entries) /\ ~RecordThrows(Top)
      BY <1>1, <2>1, RecordShape DEF RecorderTypeOK
    <3>2. CASE recordedTrace # <<>>
      <4>1. 1 \in DOMAIN recordedTrace
        BY <3>1, <3>2
      <4>2. recordedTrace'[1].pc = recordedTrace[1].pc
        BY <1>1, <2>1, <3>1, <4>1, RecordedEntries, FlipChangesLast
      <4>3. recordedTrace' # <<>>
        BY <1>1, <2>1, <4>1, RecordedEntries
      <4> QED
        BY <3>2, <4>2, <4>3 DEF RecordedInv, FirstIsStart
    <3>3. CASE recordedTrace = <<>>
      <4>1. Top = traceStart
        BY <1>3, <3>3 DEF RecordedInv, FirstIsStart
      <4>2. CASE Kept(Top)
        <5>1. Len(recordedTrace') = 1 /\ recordedTrace'[1] = EntryFor(Top)
          BY <1>1, <2>1, <3>3, <4>2, RecordedEntries
        <5>2. recordedTrace' # <<>>
          BY <5>1
        <5> QED
          BY <4>1, <5>1, <5>2 DEF EntryFor
      <4>3. CASE ~Kept(Top)
        <5>1. ~recording'
          BY <1>1, <2>1, <4>1, <4>3, RecordShape DEF Kept
        <5>2. DOMAIN recordedTrace' = DOMAIN recordedTrace /\ recordedTrace' \in Seq(Entries)
          BY <1>1, <2>1, <4>3, RecordedEntries
        <5>3. recordedTrace' = <<>>
          BY <3>3, <5>2
        <5> QED
          BY <5>1, <5>3
      <4> QED
        BY <4>2, <4>3
    <3> QED
      BY <3>2, <3>3
  <2> QED
    BY <2>2, <2>3, <2>4 DEF RecordedInv, BlocksAreEntries
<1> QED
  BY <1>2, <1>3

LEMMA NextRecorded == IInv /\ RecordedInv /\ [Next]_vars => RecordedInv'
<1> SUFFICES ASSUME IInv, RecordedInv, [Next]_vars PROVE RecordedInv'
  OBVIOUS
<1>1. CASE KeepGoing \/ CompileFails \/ InstallFails \/ Install \/ RecordFails
  BY <1>1, QuietStepsRecorded DEF KeepGoing, CompileFails, InstallFails, Install, RecordFails,
     Compiling, Compiled
<1>2. CASE EnterTrace \/ RunNative \/ GoWild \/ LinkTraces
  BY <1>2, QuietStepsRecorded DEF EnterTrace, RunNative, GoWild, LinkTraces
<1>3. CASE GiveUpRecording
  BY <1>3, GiveUpRecorded
<1>4. CASE StartCompiling
  BY <1>4, StartCompilingRecorded
<1>5. CASE CompileEntry
  BY <1>5, CompileEntryRecorded
<1>6. CASE LeaveTrace
  BY <1>6, LeaveTraceRecorded
<1>7. CASE Profile
  BY <1>7, ProfileRecorded
<1>8. CASE RecordAndInterpret
  BY <1>8, RecordAndInterpretRecorded
<1>9. CASE UNCHANGED vars
  <2>1. RecorderInv'
    BY <1>9, RecorderUnchanged DEF vars, RecordedInv, RecorderInv
  <2>2. FirstIsStart' /\ BlocksAreEntries'
    BY <1>9 DEF vars, recorderVars, compilerVars, RecordedInv, FirstIsStart, Top,
       BlocksAreEntries, NeedsBailout, BlockFor, LabelOf
  <2> QED
    BY <2>1, <2>2 DEF RecordedInv, RecorderInv
<1> QED
  BY <1>1, <1>2, <1>3, <1>4, <1>5, <1>6, <1>7, <1>8, <1>9 DEF Next, StayStopped

(* What a recording and the blocks made from it say of the program.        *)
THEOREM RecordedInvariance == Spec => [](IInv /\ RecordedInv)
<1>1. Init => IInv /\ RecordedInv
  BY InitInv, InitRecorded
<1>2. IInv /\ RecordedInv /\ [Next]_vars => (IInv /\ RecordedInv)'
  BY NextKeeps, NextRecorded
<1> QED
  BY <1>1, <1>2, PTL DEF Spec

-----------------------------------------------------------------------------
(* From entries to blocks.                                                 *)

LEMMA LongFormNames ==
    ASSUME NEW pc \in Pcs
    PROVE  /\ EntryFor(pc).mn \in Branches \cup {"GOTO"} => EntryFor(pc).mn = Mnemonic(pc)
           /\ Mnemonic(pc) \in Branches \cup {"GOTO", "INVOKESTATIC"} \cup Returns =>
                    EntryFor(pc).mn = Mnemonic(pc)
BY BranchNames DEF EntryFor, LongForm, Returns

(* A faithful entry that jumps is a jump of the program.                   *)
LEMMA JumpingEntry ==
    ASSUME NEW entry, entry.pc \in Pcs, Faithful(entry), entry.mn \in Branches \cup {"GOTO"}
    PROVE  /\ entry.mn = "GOTO" =>
                /\ entry = EntryFor(entry.pc)
                /\ Mnemonic(entry.pc) = "GOTO" /\ LabelOf(entry) = Target(entry.pc)
           /\ entry.mn # "GOTO" =>
                \/ /\ entry = EntryFor(entry.pc)
                   /\ entry.mn = Mnemonic(entry.pc) /\ LabelOf(entry) = Target(entry.pc)
                \/ /\ Mnemonic(entry.pc) \in DOMAIN FlipOf /\ entry = TurnedRound(entry.pc)
                   /\ entry.mn = FlipOf[Mnemonic(entry.pc)] /\ LabelOf(entry) = After(entry.pc)
<1> DEFINE pc == entry.pc
<1>1. CASE entry = EntryFor(pc)
  <2>1. entry.mn = Mnemonic(pc)
    BY <1>1, LongFormNames
  <2>2. LabelOf(entry) = Target(pc)
    BY <1>1 DEF LabelOf, Target, EntryFor
  <2> QED
    BY <1>1, <2>1, <2>2
<1>2. CASE Mnemonic(pc) \in DOMAIN FlipOf /\ entry = TurnedRound(pc)
  <2>1. entry.mn = FlipOf[Mnemonic(pc)] /\ entry.arg = 3
    BY <1>2 DEF TurnedRound
  <2>2. entry.mn \in Branches /\ Mnemonic(pc) \in Branches
    BY <1>2, <2>1, FlipNames
  <2>3. LabelOf(entry) = After(pc)
    BY <2>1, <2>2, BranchSize DEF LabelOf
  <2> QED
    BY <1>2, <2>1, <2>2, <2>3, BranchNames
<1> QED
  BY <1>1, <1>2 DEF Faithful

(* What is known of a block while its trace is compiled.                   *)
LEMMA BlockOfEntry ==
    ASSUME IInv, RecordedInv, phase = "compile", NEW k \in DOMAIN nativeTrace
    PROVE  LET entry == recordedTrace[k]
               block == nativeTrace[k]
           IN  /\ k \in DOMAIN recordedTrace
               /\ entry \in Entries /\ Faithful(entry)
               /\ block.pc = entry.pc
               /\ entry.mn \in Compilable
               /\ IF entry.mn \in DOMAIN JumpFor
                  THEN block.jump = JumpFor[entry.mn] /\ block.label = LabelOf(entry)
                  ELSE block.jump = "none"
               /\ NeedsBailout(entry, LabelOf(entry), innerBranchTargets) =>
                    \E j \in DOMAIN bailoutCode : bailoutCode[j].label = LabelOf(entry)
<1>1. k \in DOMAIN recordedTrace /\ recordedTrace[k] \in Entries
  BY DEF IInv, TypeOK, RecorderTypeOK, CompilerTypeOK, CompilingMayStart
<1>2. Faithful(recordedTrace[k])
  BY <1>1 DEF RecordedInv, EntriesFaithful
<1>3. /\ nativeTrace[k] = BlockFor(recordedTrace[k], LabelOf(recordedTrace[k]))
      /\ recordedTrace[k].mn \in Compilable
      /\ NeedsBailout(recordedTrace[k], LabelOf(recordedTrace[k]), innerBranchTargets) =>
           \E j \in DOMAIN bailoutCode : bailoutCode[j].label = LabelOf(recordedTrace[k])
  BY DEF RecordedInv, BlocksAreEntries
<1> QED
  BY <1>1, <1>2, <1>3 DEF BlockFor

-----------------------------------------------------------------------------
(* Where a jump goes that needs no way out: to the start of the trace, or  *)
(* to a label that has a stub for another entry's sake.                    *)
LEMMA NewJumpsBound ==
    ASSUME GotosAreThreaded, IInv, RecordedInv, Compiled,
           NEW k \in DOMAIN nativeTrace, nativeTrace[k].jump # "none"
    PROVE  LET label == nativeTrace[k].label
           IN  \/ /\ label \in innerBranchTargets
                  /\ \E j \in DOMAIN nativeTrace : nativeTrace[j].pc = label
               \/ \E j \in DOMAIN bailoutCode : bailoutCode[j].label = label
<1> DEFINE entry == recordedTrace[k]
           label == nativeTrace[k].label
<1>1. phase = "compile" /\ Len(nativeTrace) = Len(recordedTrace)
  BY DEF Compiled
<1>2. nativeTrace \in Seq(Blocks) /\ recordedTrace \in Seq(Entries)
  BY DEF IInv, TypeOK, RecorderTypeOK, CompilerTypeOK
<1>3. /\ entry.mn \in DOMAIN JumpFor /\ label = LabelOf(entry)
      /\ entry \in Entries /\ Faithful(entry)
      /\ NeedsBailout(entry, label, innerBranchTargets) =>
            \E j \in DOMAIN bailoutCode : bailoutCode[j].label = label
  BY <1>1, BlockOfEntry
<1>4. CASE ~NeedsBailout(entry, label, innerBranchTargets)
  <2>1. entry.mn = "GOTO" /\ label \in innerBranchTargets
    BY <1>3, <1>4 DEF NeedsBailout
  <2>2. ~ForwardGoto(label)
    BY <1>3, <2>1, JumpingEntry DEF Entries, Faithful, GotosAreThreaded
  <2>3. label \in Pcs
    BY <1>3, <2>1 DEF Entries
  <2>4. CASE label = traceStart
    <3>1. 1 \in DOMAIN nativeTrace /\ recordedTrace # <<>>
      BY <1>1, <1>2
    <3>2. recordedTrace[1].pc = label
      BY <2>2, <2>3, <2>4, <3>1 DEF RecordedInv, FirstIsStart
    <3>3. nativeTrace[1].pc = label
      BY <1>1, <3>1, <3>2, BlockOfEntry
    <3> QED
      BY <2>1, <3>1, <3>3
  <2>5. CASE label # traceStart
    <3>1. PICK j \in DOMAIN recordedTrace :
             recordedTrace[j].mn \in Branches /\ LabelOf(recordedTrace[j]) = label
      BY <2>1, <2>5 DEF RecordedInv, InnerTargetsRecorded
    <3>2. j \in DOMAIN nativeTrace
      BY <1>1, <1>2, <3>1
    <3>3. recordedTrace[j].mn \in Compilable
      BY <1>1, <3>2, BlockOfEntry
    <3>4. NeedsBailout(recordedTrace[j], label, innerBranchTargets)
      BY <3>1, <3>3, BranchNames DEF NeedsBailout, Compilable, JumpFor, Loads, Immediates, Arithmetic, Divisions
    <3> QED
      BY <1>1, <3>1, <3>2, <3>4, BlockOfEntry
  <2> QED
    BY <2>4, <2>5
<1> QED
  BY <1>3, <1>4

(* Every jump of an installed trace has a place to go to, for every program*)
(* in which no backward GOTO leads to a forward one.                       *)
THEOREM JumpsBound == GotosAreThreaded => (Spec => []JumpsAreBound)
<1> SUFFICES ASSUME GotosAreThreaded PROVE Spec => []JumpsAreBound
  OBVIOUS
<1>1. Init => JumpsAreBound
  BY DEF Init, InitHandler, JumpsAreBound
<1>2. IInv /\ RecordedInv /\ JumpsAreBound /\ [Next]_vars => JumpsAreBound'
  <2> SUFFICES ASSUME IInv, RecordedInv, JumpsAreBound, [Next]_vars PROVE JumpsAreBound'
    OBVIOUS
  <2>1. CASE Install
    <3>1. /\ DOMAIN traces' = DOMAIN traces \cup {traceStart}
          /\ traces'[traceStart] = Trace(innerBranchTargets)
          /\ \A pc \in DOMAIN traces : pc # traceStart => traces'[pc] = traces[pc]
      BY <2>1 DEF Install, InsertTrace
    <3>2. ASSUME NEW k \in DOMAIN nativeTrace, nativeTrace[k].jump # "none"
          PROVE  LET label == nativeTrace[k].label
                 IN  \/ /\ label \in innerBranchTargets
                        /\ \E j \in DOMAIN nativeTrace : nativeTrace[j].pc = label
                     \/ \E j \in DOMAIN bailoutCode : bailoutCode[j].label = label
      BY <2>1, <3>2, NewJumpsBound DEF Install
    <3> SUFFICES ASSUME NEW pc \in DOMAIN traces', NEW k \in DOMAIN traces'[pc].code,
                        traces'[pc].code[k].jump # "none"
                 PROVE  LET t == traces'[pc]
                            label == t.code[k].label
                        IN  \/ label \in t.inner /\ \E j \in DOMAIN t.code : t.code[j].pc = label
                            \/ \E j \in DOMAIN t.stubs : t.stubs[j].label = label
      BY DEF JumpsAreBound
    <3>3. CASE pc = traceStart
      BY <3>1, <3>2, <3>3 DEF Trace
    <3>4. CASE pc # traceStart
      BY <3>1, <3>4 DEF JumpsAreBound
    <3> QED
      BY <3>3, <3>4
  <2>2. CASE ~Install
    <3>1. traces' = traces
      BY <2>2, OnlyInstallInstalls
    <3> QED
      BY <3>1 DEF JumpsAreBound
  <2> QED
    BY <2>1, <2>2
<1> QED
  BY <1>1, <1>2, RecordedInvariance, PTL DEF Spec

-----------------------------------------------------------------------------
(* The condition compile() chooses for an entry, against the byte code.    *)
LEMMA GuardRelation ==
    ASSUME NEW pc \in Pcs, NEW mn \in DOMAIN JumpFor \ {"GOTO", "IFNE"}
    PROVE  /\ JumpFor[mn] \in DOMAIN JumpsOn /\ JumpFor[mn] \notin {"jmp", "none"}
           /\ mn = Mnemonic(pc) => JumpsOn[JumpFor[mn]] = RelationOf[Mnemonic(pc)]
           /\ Mnemonic(pc) \in DOMAIN FlipOf /\ mn = FlipOf[Mnemonic(pc)] =>
                /\ JumpsOn[JumpFor[mn]] = Opposite[RelationOf[Mnemonic(pc)]]
                /\ JumpsOn[JumpFor[mn]] # RelationOf[Mnemonic(pc)]
BY DEF JumpFor, JumpsOn, RelationOf, Opposite, FlipOf

LEMMA EntryGuards ==
    ASSUME NEW entry, entry.pc \in Pcs, Faithful(entry),
           entry.mn \in DOMAIN JumpFor \ {"GOTO", "IFNE"},
           NEW block, block.pc = entry.pc, block.jump = JumpFor[entry.mn],
           block.label = LabelOf(entry)
    PROVE  GuardAgrees(block)
<1> DEFINE pc == entry.pc
<1>1. entry.mn \in Branches
  BY JumpNames
<1>2. block.jump \in DOMAIN JumpsOn /\ block.jump \notin {"jmp", "none"}
  BY GuardRelation
<1>3. CASE entry.mn = Mnemonic(pc) /\ LabelOf(entry) = Target(pc)
  <2>1. \A holds \in BOOLEAN : Taken(block, holds) = {holds}
    BY <1>2, <1>3, GuardRelation DEF Taken
  <2>2. Way(pc, TRUE) = block.label
    BY <1>3 DEF Way
  <2> QED
    BY <2>1, <2>2 DEF GuardAgrees
<1>4. CASE /\ Mnemonic(pc) \in DOMAIN FlipOf /\ entry.mn = FlipOf[Mnemonic(pc)]
           /\ LabelOf(entry) = After(pc)
  <2>1. /\ JumpsOn[block.jump] = Opposite[RelationOf[Mnemonic(block.pc)]]
        /\ JumpsOn[block.jump] # RelationOf[Mnemonic(block.pc)]
    BY <1>4, GuardRelation
  <2>2. \A holds \in BOOLEAN : Taken(block, holds) = {~holds}
    BY <1>2, <2>1, Zenon DEF Taken
  <2>3. Way(pc, FALSE) = block.label
    BY <1>4 DEF Way
  <2> QED
    BY <2>2, <2>3 DEF GuardAgrees
<1> QED
  BY <1>1, <1>3, <1>4, JumpingEntry, BranchNames

(* In the code made of a recording without an IFNE, every guard jumps when *)
(* the program goes where it jumps to, for every program.                  *)
THEOREM GuardsAreRight ==
    Spec => []((\A k \in DOMAIN recordedTrace : recordedTrace[k].mn # "IFNE") => GuardsAgree)
<1>1. ASSUME IInv, RecordedInv, \A k \in DOMAIN recordedTrace : recordedTrace[k].mn # "IFNE"
      PROVE  GuardsAgree
  <2> SUFFICES ASSUME phase = "compile", NEW k \in DOMAIN nativeTrace,
                      nativeTrace[k].jump \in DOMAIN JumpsOn
               PROVE  GuardAgrees(nativeTrace[k])
    BY DEF GuardsAgree
  <2> DEFINE entry == recordedTrace[k]
  <2>1. /\ k \in DOMAIN recordedTrace /\ entry \in Entries /\ Faithful(entry)
        /\ nativeTrace[k].pc = entry.pc
        /\ IF entry.mn \in DOMAIN JumpFor
           THEN nativeTrace[k].jump = JumpFor[entry.mn] /\ nativeTrace[k].label = LabelOf(entry)
           ELSE nativeTrace[k].jump = "none"
    BY <1>1, BlockOfEntry
  <2>2. entry.mn \in DOMAIN JumpFor \ {"GOTO", "IFNE"}
    BY <1>1, <2>1 DEF JumpsOn, JumpFor
  <2> QED
    BY <2>1, <2>2, EntryGuards DEF Entries
<1> QED
  BY <1>1, RecordedInvariance, PTL

(* Recordings of a program without IFNE and IF_ICMPEQ have neither, turned *)
(* round or not, so that the compiler can express their guards and every   *)
(* guard is right.                                                         *)
THEOREM GuardsOfOtherPrograms ==
    NoEqualityTests => (Spec => [](GuardsCompilable /\ GuardsAgree))
<1> SUFFICES ASSUME NoEqualityTests PROVE Spec => [](GuardsCompilable /\ GuardsAgree)
  OBVIOUS
<1> DEFINE NoneRecorded == \A k \in DOMAIN recordedTrace : recordedTrace[k].mn # "IFNE"
<1>1. ASSUME IInv, RecordedInv PROVE GuardsCompilable /\ NoneRecorded
  <2>1. ASSUME NEW k \in DOMAIN recordedTrace
        PROVE  recordedTrace[k].mn # "IFNE" /\ Mnemonic(recordedTrace[k].pc) # "IF_ICMPEQ"
    <3> DEFINE entry == recordedTrace[k]
    <3>1. entry \in Entries /\ Faithful(entry)
      BY <1>1, <2>1 DEF IInv, TypeOK, RecorderTypeOK, RecordedInv, EntriesFaithful
    <3>2. entry.pc \in Pcs
      BY <3>1 DEF Entries
    <3>3. Mnemonic(entry.pc) \notin {"IFNE", "IF_ICMPEQ"}
      BY <3>2 DEF NoEqualityTests
    <3>4. CASE entry = EntryFor(entry.pc)
      BY <3>3, <3>4 DEF EntryFor, LongForm
    <3>5. CASE Mnemonic(entry.pc) \in DOMAIN FlipOf /\ entry = TurnedRound(entry.pc)
      BY <3>3, <3>5 DEF TurnedRound, FlipOf
    <3> QED
      BY <3>1, <3>4, <3>5 DEF Faithful
  <2> QED
    BY <2>1 DEF GuardsCompilable
<1>2. Spec => [](NoneRecorded => GuardsAgree)
  BY GuardsAreRight
<1> QED
  BY <1>1, <1>2, RecordedInvariance, PTL

-----------------------------------------------------------------------------
(* PastGotos is defined by recursion over a domain of which nothing says   *)
(* that it is well founded; what it needs is a function that satisfies the *)
(* equation.  There is one: choose among the ends that jumps lead to.      *)
Closed(S) == \A q \in S : q \in Pcs /\ ForwardGoto(q) => Target(q) \in S
Reach(pc) == {q \in Pcs : \A S \in SUBSET Pcs : pc \in S /\ Closed(S) => q \in S}
Ends(pc) == {q \in Reach(pc) : ~ForwardGoto(q)}
Past == [pc \in Pcs |-> CHOOSE q : q \in Ends(pc)]

LEMMA TargetOfGoto ==
    ASSUME NEW pc \in Pcs, ForwardGoto(pc)
    PROVE  Target(pc) \in Pcs
BY CodeAssumption DEF ForwardGoto

LEMMA ReachClosed ==
    ASSUME NEW pc \in Pcs
    PROVE  pc \in Reach(pc) /\ Closed(Reach(pc)) /\ Reach(pc) \in SUBSET Pcs
BY TargetOfGoto DEF Reach, Closed

LEMMA EndsOfGoto ==
    ASSUME NEW pc \in Pcs, ForwardGoto(pc)
    PROVE  Ends(pc) = Ends(Target(pc))
<1>1. Target(pc) \in Pcs
  BY TargetOfGoto
<1>2. Reach(Target(pc)) \subseteq Reach(pc)
  BY <1>1, ReachClosed DEF Reach, Closed
<1>3. Reach(pc) \subseteq Reach(Target(pc)) \cup {pc}
  <2> DEFINE S == Reach(Target(pc)) \cup {pc}
  <2>1. S \in SUBSET Pcs /\ Closed(S) /\ pc \in S
    BY <1>1, ReachClosed DEF Closed
  <2> HIDE DEF S
  <2>2. Reach(pc) \subseteq S
    BY <2>1 DEF Reach
  <2> QED
    BY <2>2 DEF S
<1> QED
  BY <1>2, <1>3 DEF Ends

LEMMA EndsOfOther ==
    ASSUME NEW pc \in Pcs, ~ForwardGoto(pc)
    PROVE  Ends(pc) = {pc}
<1>1. {pc} \in SUBSET Pcs /\ Closed({pc})
  BY DEF Closed
<1> QED
  BY <1>1, ReachClosed DEF Ends, Reach

LEMMA PastGotosEquation ==
    PastGotos = [pc \in Pcs |-> IF ForwardGoto(pc) THEN PastGotos[Target(pc)] ELSE pc]
<1> DEFINE right == [pc \in Pcs |-> IF ForwardGoto(pc) THEN Past[Target(pc)] ELSE pc]
<1>1. \A pc \in Pcs : Past[pc] = CHOOSE q : q \in Ends(pc)
  BY DEF Past
<1>2. ASSUME NEW pc \in Pcs PROVE Past[pc] = right[pc]
  <2>1. CASE ForwardGoto(pc)
    <3>1. Past[pc] = Past[Target(pc)]
      BY <1>1, <2>1, EndsOfGoto, TargetOfGoto, Zenon
    <3> QED
      BY <2>1, <3>1
  <2>2. CASE ~ForwardGoto(pc)
    <3>1. Past[pc] = pc
      <4>1. (CHOOSE q : q \in {pc}) = pc
        OBVIOUS
      <4> QED
        BY <1>1, <2>2, <4>1, EndsOfOther, Zenon
    <3> QED
      BY <2>2, <3>1
  <2> QED
    BY <2>1, <2>2
<1>3. Past = right
  <2>1. Past = [pc \in Pcs |-> Past[pc]] /\ right = [pc \in Pcs |-> right[pc]]
    BY DEF Past
  <2> HIDE DEF right
  <2> QED
    BY <1>2, <2>1
<1> HIDE DEF Past
<1> QED
  BY <1>3, Zenon DEF PastGotos

LEMMA PastGotosOf ==
    ASSUME NEW pc \in Pcs
    PROVE  PastGotos[pc] = IF ForwardGoto(pc) THEN PastGotos[Target(pc)] ELSE pc
BY PastGotosEquation

LEMMA PastGotosTyped ==
    ASSUME NEW pc \in Pcs, ~ForwardGoto(pc)
    PROVE  PastGotos[pc] = pc
BY PastGotosOf

-----------------------------------------------------------------------------
(* Where an instruction leads, case by case.                               *)
LEMMA EvalForm ==
    ASSUME NEW fs \in Seq(Pcs), fs # <<>>, NEW c \in BOOLEAN, NEW pc, pc = Head(fs)
    PROVE  /\ Mnemonic(pc) \in Branches => EvalInstruction(fs, c) = <<Way(pc, c)>> \o Tail(fs)
           /\ Mnemonic(pc) = "GOTO" => EvalInstruction(fs, c) = <<Target(pc)>> \o Tail(fs)
           /\ Mnemonic(pc) = "INVOKESTATIC" =>
                EvalInstruction(fs, c) = <<EntryPc(Code[pc].arg), After(pc)>> \o Tail(fs)
           /\ Mnemonic(pc) \in Returns => EvalInstruction(fs, c) = Tail(fs)
           /\ PlainMnemonic(Mnemonic(pc)) => EvalInstruction(fs, c) = <<After(pc)>> \o Tail(fs)
<1>1. CASE Mnemonic(pc) \in Branches
  BY <1>1, BranchNames DEF EvalInstruction, Way, Returns, PlainMnemonic
<1>2. CASE Mnemonic(pc) = "GOTO"
  BY <1>2, BranchNames DEF EvalInstruction, Returns, PlainMnemonic
<1>3. CASE Mnemonic(pc) = "INVOKESTATIC"
  BY <1>3, BranchNames DEF EvalInstruction, Returns, PlainMnemonic
<1>4. CASE Mnemonic(pc) \in Returns
  BY <1>4, BranchNames DEF EvalInstruction, Returns, PlainMnemonic
<1>5. CASE PlainMnemonic(Mnemonic(pc))
  BY <1>5, BranchNames DEF EvalInstruction, Returns, PlainMnemonic
<1> QED
  BY <1>1, <1>2, <1>3, <1>4, <1>5 DEF PlainMnemonic

LEMMA OnTop ==
    ASSUME NEW x \in Pcs, NEW s \in Seq(Pcs)
    PROVE  /\ <<x>> \o s # <<>>
           /\ Head(<<x>> \o s) = x
           /\ Tail(<<x>> \o s) = s
OBVIOUS

LEMMA SuccessorsForm ==
    ASSUME NEW pc \in Pcs
    PROVE  /\ Mnemonic(pc) \in Branches =>
                Successors(pc) = {PastGotos[Target(pc)], PastGotos[After(pc)]}
           /\ Mnemonic(pc) = "GOTO" => Successors(pc) = {PastGotos[Target(pc)]}
           /\ Mnemonic(pc) = "INVOKESTATIC" =>
                Successors(pc) = {PastGotos[EntryPc(Code[pc].arg)]}
           /\ PlainMnemonic(Mnemonic(pc)) => Successors(pc) = {PastGotos[After(pc)]}
<1>1. CASE Mnemonic(pc) \in Branches
  BY <1>1, BranchNames DEF Successors, PlainMnemonic
<1>2. CASE Mnemonic(pc) \notin Branches
  BY <1>2, BranchNames DEF Successors, PlainMnemonic
<1> QED
  BY <1>1, <1>2

LEMMA WayTyped ==
    ASSUME NEW pc \in Pcs, Mnemonic(pc) \in Branches, NEW holds \in BOOLEAN
    PROVE  Way(pc, holds) \in Pcs
BY TargetTyped, BranchGoesOn DEF Way

(* The pc interpreted next, if the instruction does not return.            *)
LEMMA EvalTop ==
    ASSUME NEW fs \in Seq(Pcs), fs # <<>>, NEW c \in BOOLEAN, NEW pc, pc = Head(fs)
    PROVE  LET next == Head(EvalInstruction(fs, c))
           IN  /\ Mnemonic(pc) \in Branches => next = Way(pc, c)
               /\ Mnemonic(pc) \notin Branches \cup Returns => PastGotos[next] \in Successors(pc)
               /\ Mnemonic(pc) = "GOTO" => next = Target(pc)
<1>1. Tail(fs) \in Seq(Pcs) /\ pc \in Pcs
  OBVIOUS
<1>2. CASE Mnemonic(pc) \in Branches
  <2>1. EvalInstruction(fs, c) = <<Way(pc, c)>> \o Tail(fs)
    BY <1>2, EvalForm
  <2>2. Head(EvalInstruction(fs, c)) = Way(pc, c)
    BY <1>1, <1>2, <2>1, WayTyped, OnTop
  <2> QED
    BY <1>2, <2>2, BranchNames
<1>3. CASE Mnemonic(pc) = "GOTO"
  <2>1. EvalInstruction(fs, c) = <<Target(pc)>> \o Tail(fs)
    BY <1>3, EvalForm
  <2>2. Head(EvalInstruction(fs, c)) = Target(pc)
    BY <1>1, <1>3, <2>1, TargetTyped, OnTop
  <2> QED
    BY <1>1, <1>3, <2>2, BranchNames, SuccessorsForm
<1>4. CASE Mnemonic(pc) = "INVOKESTATIC"
  <2> DEFINE entry == EntryPc(Code[pc].arg)
  <2>1. EvalInstruction(fs, c) = <<entry, After(pc)>> \o Tail(fs)
    BY <1>4, EvalForm
  <2>2. entry \in Pcs /\ After(pc) \in Pcs
    BY <1>1, <1>4, CodeAssumption DEF Returns
  <2>3. Successors(pc) = {PastGotos[entry]}
    BY <1>1, <1>4, SuccessorsForm
  <2> HIDE DEF entry
  <2>4. Head(EvalInstruction(fs, c)) = entry
    BY <1>1, <2>1, <2>2
  <2> QED
    BY <1>4, <2>3, <2>4, BranchNames
<1>5. CASE PlainMnemonic(Mnemonic(pc))
  <2>1. After(pc) \in Pcs
    BY <1>1, <1>5, AfterTyped DEF PlainMnemonic
  <2>2. EvalInstruction(fs, c) = <<After(pc)>> \o Tail(fs)
    BY <1>5, EvalForm
  <2>3. Head(EvalInstruction(fs, c)) = After(pc)
    BY <1>1, <2>1, <2>2, OnTop
  <2>4. Successors(pc) = {PastGotos[After(pc)]}
    BY <1>1, <1>5, SuccessorsForm
  <2> QED
    BY <1>5, <2>3, <2>4 DEF PlainMnemonic
<1>6. CASE Mnemonic(pc) \in Returns
  BY <1>6, BranchNames DEF Returns
<1> QED
  BY <1>2, <1>3, <1>4, <1>5, <1>6 DEF PlainMnemonic

-----------------------------------------------------------------------------
(* What branchFlip makes of the last entry when the program has gone on.   *)

(* A branch that is still as the program has it leads to its target.       *)
LEMMA UnflippedBranch ==
    ASSUME RecorderTypeOK, LastEntryIsBranch, EntriesFaithful,
           lastInstructionWasBranch, recordedTrace # <<>>
    PROVE  /\ LastEntry.pc \in Pcs /\ Mnemonic(LastEntry.pc) \in NotedBranches
           /\ LastEntry = EntryFor(LastEntry.pc)
           /\ LabelOf(LastEntry) = Target(LastEntry.pc)
<1>1. LastEntry \in Entries /\ Faithful(LastEntry)
  BY DEF RecorderTypeOK, EntriesFaithful, LastEntry
<1>2. LastEntry.mn = Mnemonic(LastEntry.pc) /\ LastEntry.mn \in NotedBranches
  BY DEF LastEntryIsBranch
<1>3. LastEntry = EntryFor(LastEntry.pc)
  BY <1>1, <1>2 DEF Faithful, TurnedRound, FlipOf
<1> QED
  BY <1>1, <1>2, <1>3 DEF Entries, LabelOf, Target, EntryFor

LEMMA TurnedIsNotAsRead ==
    ASSUME NEW pc \in Pcs, Mnemonic(pc) \in DOMAIN FlipOf
    PROVE  TurnedRound(pc) # EntryFor(pc)
BY DEF TurnedRound, EntryFor, FlipOf, LongForm

LEMMA FlipLeadsOn ==
    ASSUME NEW pc \in Pcs, RecorderTypeOK, LastEntryIsBranch, EntriesFaithful,
           recordedTrace # <<>>, ~RecordThrows(pc), NEW e, e = TraceAfterFlip(pc)[Len(recordedTrace)],
           \/ HasReturned(LastEntry)
           \/ lastInstructionWasBranch /\ \E holds \in BOOLEAN : pc = Way(LastEntry.pc, holds)
           \/ ~lastInstructionWasBranch /\ PastGotos[pc] \in Onwards(LastEntry)
    PROVE  HasReturned(e) \/ PastGotos[pc] \in Onwards(e)
<1>1. recordedTrace \in Seq(Entries) /\ Len(recordedTrace) \in 1 .. Len(recordedTrace)
  BY DEF RecorderTypeOK
<1>2. e.pc = LastEntry.pc
  BY <1>1, FlipChangesLast DEF LastEntry
<1>3. CASE HasReturned(LastEntry)
  BY <1>2, <1>3 DEF HasReturned
<1>4. CASE ~lastInstructionWasBranch /\ PastGotos[pc] \in Onwards(LastEntry)
  BY <1>1, <1>4, FlipChangesLast DEF LastEntry
<1>5. CASE lastInstructionWasBranch /\ \E holds \in BOOLEAN : pc = Way(LastEntry.pc, holds)
  <2> DEFINE q == LastEntry.pc
  <2>1. e = LastEntryFlipped(pc)
    BY <1>5, FlipChangesLast
  <2>2. q \in Pcs /\ Mnemonic(q) \in NotedBranches /\ LastEntry = EntryFor(q)
        /\ LabelOf(LastEntry) = Target(q)
    BY <1>5, UnflippedBranch
  <2>3. CASE MustFlip(pc)
    <3>1. Target(q) = pc /\ LastEntry.mn \in DOMAIN FlipOf
      BY <1>5, <2>2, <2>3 DEF MustFlip, RecordThrows
    <3>2. LastEntry.mn = Mnemonic(q)
      BY <1>5 DEF LastEntryIsBranch
    <3>3. e = TurnedRound(q)
      BY <2>1, <2>3, <3>2 DEF LastEntryFlipped, TurnedRound
    <3>4. e # EntryFor(q)
      BY <2>2, <3>1, <3>2, <3>3, TurnedIsNotAsRead
    <3>5. Onwards(e) = {PastGotos[Target(q)]}
      BY <1>2, <2>2, <3>4 DEF Onwards, Way
    <3> QED
      BY <3>1, <3>5
  <2>4. CASE ~MustFlip(pc)
    <3>1. e = EntryFor(q)
      BY <2>1, <2>2, <2>4 DEF LastEntryFlipped
    <3>2. pc # Target(q)
      BY <1>5, <2>2, <2>4 DEF MustFlip
    <3>3. pc = After(q)
      BY <1>5, <3>2 DEF Way
    <3>4. Onwards(e) = {PastGotos[After(q)]}
      BY <1>2, <2>2, <3>1 DEF Onwards, Way
    <3> QED
      BY <3>3, <3>4
  <2> QED
    BY <2>3, <2>4
<1> QED
  BY <1>3, <1>4, <1>5

-----------------------------------------------------------------------------
(* Recording one more instruction.                                         *)

LEMMA RecordKeepsOrder ==
    ASSUME NEW pc \in Pcs, RecorderTypeOK, LastEntryIsBranch, EntriesFaithful, Record(pc),
           EntriesInOrder,
           recordedTrace # <<>> /\ Kept(pc) =>
                LET e == recordedTrace'[Len(recordedTrace)]
                IN  HasReturned(e) \/ PastGotos[pc] \in Onwards(e)
    PROVE  EntriesInOrder'
<1> DEFINE n == Len(recordedTrace)
<1>1. recordedTrace \in Seq(Entries) /\ ~RecordThrows(pc) /\ recordedTrace' \in Seq(Entries)
  BY RecordShape, RecordedEntries DEF RecorderTypeOK
<1> SUFFICES ASSUME NEW k \in 1 .. Len(recordedTrace') - 1
             PROVE  HasReturned(recordedTrace'[k])
                    \/ recordedTrace'[k + 1].pc \in Onwards(recordedTrace'[k])
  BY DEF EntriesInOrder, HasReturned, Onwards, EntryFor, Successors
<1>2. CASE k < n
  <2>1. k \in DOMAIN recordedTrace /\ k + 1 \in DOMAIN recordedTrace /\ k # n
    BY <1>1, <1>2
  <2>2. recordedTrace'[k] = recordedTrace[k] /\ recordedTrace'[k + 1].pc = recordedTrace[k + 1].pc
    BY <1>1, <2>1, RecordedEntries, FlipChangesLast
  <2>3. HasReturned(recordedTrace[k]) \/ recordedTrace[k + 1].pc \in Onwards(recordedTrace[k])
    BY <1>1, <1>2 DEF EntriesInOrder
  <2> QED
    BY <2>2, <2>3
<1>3. CASE ~(k < n)
  <2>1. Kept(pc) /\ k = n
    <3>1. CASE ~Kept(pc)
      BY <1>1, <1>3, <3>1, RecordedEntries
    <3>2. CASE Kept(pc)
      BY <1>1, <1>3, <3>2, RecordedEntries
    <3> QED
      BY <3>1, <3>2
  <2>2. recordedTrace # <<>> /\ k + 1 = Len(recordedTrace')
    BY <1>1, <2>1, RecordedEntries
  <2>3. recordedTrace'[k + 1].pc = pc
    <3>1. recordedTrace'[k + 1] = EntryFor(pc)
      BY <2>1, <2>2, RecordedEntries
    <3> QED
      BY <3>1 DEF EntryFor
  <2>4. PastGotos[pc] = pc
    BY <2>1, PastGotosTyped DEF Kept
  <2> QED
    BY <2>1, <2>2, <2>3, <2>4
<1> QED
  BY <1>2, <1>3

LEMMA RecordKeepsUp ==
    ASSUME IInv, RecordedInv, recording, phase = "execute", frames # <<>>, Record(Top),
           frames' = EvalInstruction(frames, cond), PathInv
    PROVE  PathInv'
<1> DEFINE pc == Top
           n == Len(recordedTrace)
           e == recordedTrace'[n]
<1>1. /\ pc \in Pcs /\ RecorderTypeOK /\ LastEntryIsBranch /\ EntriesFaithful
      /\ frames \in Seq(Pcs) /\ pc = Head(frames) /\ cond \in BOOLEAN
  BY TopTyped DEF IInv, TypeOK, RecordedInv, Top
<1>2. /\ recordedTrace \in Seq(Entries) /\ recordedTrace' \in Seq(Entries)
      /\ ~RecordThrows(pc) /\ traceStart' = traceStart
  BY <1>1, RecordShape, RecordedEntries DEF RecorderTypeOK
<1>3. recordedTrace # <<>> => HasReturned(e) \/ PastGotos[pc] \in Onwards(e)
  <2> SUFFICES ASSUME recordedTrace # <<>> PROVE HasReturned(e) \/ PastGotos[pc] \in Onwards(e)
    OBVIOUS
  <2>1. e = TraceAfterFlip(pc)[n]
    BY <1>1, <1>2, RecordedEntries
  <2>2. \/ HasReturned(LastEntry)
        \/ lastInstructionWasBranch /\ \E holds \in BOOLEAN : pc = Way(LastEntry.pc, holds)
        \/ ~lastInstructionWasBranch /\ PastGotos[pc] \in Onwards(LastEntry)
    BY DEF PathInv, RecordingKeepsUp
  <2> HIDE DEF e, pc, n
  <2> QED
    BY <1>1, <1>2, <2>1, <2>2, FlipLeadsOn DEF n
<1>4. EntriesInOrder'
  BY <1>1, <1>3, RecordKeepsOrder DEF PathInv
<1>5. recordedTrace = <<>> /\ traceStart \in Pcs => PastGotos[pc] = PastGotos[traceStart]
  BY DEF PathInv, RecordingKeepsUp
<1>6. BeginsAtStart'
  <2> SUFFICES ASSUME recordedTrace' # <<>>, traceStart \in Pcs
               PROVE  recordedTrace'[1].pc = PastGotos[traceStart]
    BY <1>2 DEF BeginsAtStart
  <2>1. CASE recordedTrace # <<>>
    <3>1. 1 \in DOMAIN recordedTrace
      BY <1>2, <2>1
    <3>2. recordedTrace'[1].pc = recordedTrace[1].pc
      BY <1>1, <1>2, <3>1, RecordedEntries, FlipChangesLast
    <3> QED
      BY <2>1, <3>2 DEF PathInv, BeginsAtStart
  <2>2. CASE recordedTrace = <<>>
    <3>1. Kept(pc) /\ Len(recordedTrace') = 1
      <4>1. CASE ~Kept(pc)
        BY <1>1, <1>2, <2>2, <4>1, RecordedEntries
      <4>2. CASE Kept(pc)
        BY <1>1, <1>2, <2>2, <4>2, RecordedEntries
      <4> QED
        BY <4>1, <4>2
    <3>2. recordedTrace'[1].pc = pc
      BY <1>1, <3>1, RecordedEntries DEF EntryFor
    <3> QED
      BY <1>1, <1>5, <2>2, <3>1, <3>2, PastGotosTyped DEF Kept
  <2> QED
    BY <2>1, <2>2
<1>7. RecordingKeepsUp'
  <2> SUFFICES ASSUME recording', frames' # <<>>
               PROVE  IF recordedTrace' = <<>>
                      THEN traceStart \in Pcs => PastGotos[Top'] = PastGotos[traceStart]
                      ELSE \/ HasReturned(LastEntry')
                           \/ /\ lastInstructionWasBranch'
                              /\ \E holds \in BOOLEAN : Top' = Way(LastEntry'.pc, holds)
                           \/ ~lastInstructionWasBranch' /\ PastGotos[Top'] \in Onwards(LastEntry')
    BY <1>2 DEF RecordingKeepsUp, HasReturned, Onwards, Way, Successors, EntryFor
  <2>1. CASE Kept(pc)
    <3>1. recordedTrace' # <<>> /\ LastEntry' = EntryFor(pc)
      BY <1>1, <1>2, <2>1, RecordedEntries DEF LastEntry
    <3>2. lastInstructionWasBranch' = (Mnemonic(pc) \in NotedBranches)
      BY <1>1, <2>1, RecordShape
    <3>3. /\ Mnemonic(pc) \in Branches => Top' = Way(pc, cond)
          /\ Mnemonic(pc) \notin Branches \cup Returns => PastGotos[Top'] \in Successors(pc)
      BY <1>1, EvalTop DEF Top
    <3>4. LastEntry'.pc = pc
      BY <3>1 DEF EntryFor
    <3>5. CASE Mnemonic(pc) \in Returns
      BY <3>1, <3>4, <3>5 DEF HasReturned
    <3>6. CASE Mnemonic(pc) \in NotedBranches
      BY <1>1, <3>1, <3>2, <3>3, <3>4, <3>6, FlipNames
    <3>7. CASE Mnemonic(pc) \in Branches \ NotedBranches
      <4>1. PastGotos[Top'] \in Successors(pc)
        <5>1. Successors(pc) = {PastGotos[Target(pc)], PastGotos[After(pc)]}
          BY <1>1, <3>7, SuccessorsForm
        <5>2. Top' = Target(pc) \/ Top' = After(pc)
          BY <3>3, <3>7 DEF Way
        <5> QED
          BY <5>1, <5>2
      <4> QED
        BY <3>1, <3>2, <3>4, <3>7, <4>1 DEF Onwards
    <3>8. CASE Mnemonic(pc) \notin Branches \cup Returns
      BY <3>1, <3>2, <3>3, <3>4, <3>8, FlipNames DEF Onwards
    <3> QED
      BY <3>5, <3>6, <3>7, <3>8
  <2>2. CASE ~Kept(pc)
    <3>1. ForwardGoto(pc) /\ ~lastInstructionWasBranch'
      BY <1>1, <2>2, RecordShape DEF Kept
    <3>2. DOMAIN recordedTrace' = DOMAIN recordedTrace
      BY <1>1, <2>2, RecordedEntries
    <3>3. PastGotos[Top'] = PastGotos[pc]
      BY <1>1, <3>1, PastGotosOf, EvalTop DEF Top, ForwardGoto
    <3>4. CASE recordedTrace = <<>>
      BY <1>2, <1>5, <3>2, <3>3, <3>4
    <3>5. CASE recordedTrace # <<>>
      <4>1. recordedTrace' # <<>> /\ LastEntry' = e
        BY <1>2, <3>2, <3>5 DEF LastEntry
      <4> QED
        BY <1>3, <3>1, <3>3, <3>5, <4>1
    <3> QED
      BY <3>4, <3>5
  <2> QED
    BY <2>1, <2>2
<1> QED
  BY <1>4, <1>6, <1>7 DEF PathInv

-----------------------------------------------------------------------------
(* Steps that add nothing to the recording.                                *)

LEMMA EntriesStay ==
    ASSUME PathInv, UNCHANGED <<recordedTrace, traceStart>>
    PROVE  EntriesInOrder' /\ BeginsAtStart'
<1>1. EntriesInOrder'
  BY DEF PathInv, EntriesInOrder, HasReturned, Onwards, Successors, EntryFor, Way
<1>2. BeginsAtStart'
  BY DEF PathInv, BeginsAtStart
<1> QED
  BY <1>1, <1>2

LEMMA NobodyRecords ==
    ASSUME PathInv, UNCHANGED <<recordedTrace, traceStart>>,
           ~recording' \/ phase' \notin {"check", "dispatch", "execute"}
    PROVE  PathInv'
BY EntriesStay DEF PathInv, RecordingKeepsUp

LEMMA PathUnchanged ==
    ASSUME PathInv, UNCHANGED <<recorderVars, frames>>,
           phase \in {"check", "dispatch", "execute"} \/ phase' = phase
    PROVE  PathInv'
<1>1. EntriesInOrder' /\ BeginsAtStart'
  BY EntriesStay DEF recorderVars
<1>2. RecordingKeepsUp'
  BY DEF PathInv, RecordingKeepsUp, HasReturned, Onwards, Successors, EntryFor, Way, Top,
         LastEntry, recorderVars
<1> QED
  BY <1>1, <1>2 DEF PathInv

LEMMA RecordingStarts ==
    ASSUME PathInv, recordedTrace' = <<>>, frames' # <<>> => traceStart' = Top'
    PROVE  PathInv'
BY DEF PathInv, EntriesInOrder, BeginsAtStart, RecordingKeepsUp

LEMMA InitPath == Init => PathInv
<1> SUFFICES ASSUME Init PROVE PathInv
  OBVIOUS
<1>1. recordedTrace = <<>> /\ traceStart \notin Pcs
  BY CodeAssumption DEF Init, InitRecorder
<1> QED
  BY <1>1 DEF PathInv, EntriesInOrder, BeginsAtStart, RecordingKeepsUp

LEMMA NextPath ==
    IInv /\ RecordedInv /\ RecordingsUndisturbed /\ PathInv /\ [Next]_vars => PathInv'
<1> SUFFICES ASSUME IInv, RecordedInv, RecordingsUndisturbed, PathInv, [Next]_vars
             PROVE  PathInv'
  OBVIOUS
<1>1. CASE KeepGoing \/ UNCHANGED vars
  BY <1>1, PathUnchanged DEF KeepGoing, vars
<1>2. CASE GiveUpRecording \/ StartCompiling
  BY <1>2, NobodyRecords DEF GiveUpRecording, StartCompiling, GetRecording, AbandonRecording
<1>3. CASE CompileEntry \/ CompileFails \/ InstallFails \/ Install
  <2>1. ~recording'
    BY <1>3 DEF IInv, CompilingMayStart, CompileEntry, CompileFails, InstallFails, Install,
                Compiling, Compiled, recorderVars
  <2> QED
    BY <1>3, <2>1, NobodyRecords DEF CompileEntry, CompileFails, InstallFails, Install,
                                     recorderVars
<1>4. CASE EnterTrace \/ RunNative \/ GoWild \/ LinkTraces \/ RecordFails
  BY <1>4, NobodyRecords DEF EnterTrace, RunNative, GoWild, LinkTraces, RecordFails, recorderVars
<1>5. CASE LeaveTrace
  <2>1. PICK exitPc \in Pcs :
           /\ IF IsHot(loopRecord', exitPc)
              THEN InitRecording(Top, exitPc)
              ELSE UNCHANGED recorderVars
           /\ frames' = <<exitPc>> \o Tail(frames)
    BY <1>5 DEF LeaveTrace
  <2>2. phase = "native" /\ ~recording
    BY <1>5 DEF LeaveTrace, RecordingsUndisturbed
  <2>3. Top' = exitPc
    BY <2>1, <2>2, OnTop, TopTyped DEF IInv, SomeFrame, Top
  <2>4. CASE IsHot(loopRecord', exitPc)
    <3>1. recordedTrace' = <<>> /\ traceStart' = exitPc
      BY <2>1, <2>2, <2>4 DEF InitRecording
    <3> QED
      BY <2>3, <3>1, RecordingStarts
  <2>5. CASE ~IsHot(loopRecord', exitPc)
    BY <2>1, <2>2, <2>5, NobodyRecords DEF recorderVars
  <2> QED
    BY <2>4, <2>5
<1>6. CASE Profile
  <2>1. phase = "dispatch" /\ UNCHANGED frames /\ Top' = Top
    BY <1>6 DEF Profile, Top
  <2>2. \/ UNCHANGED recorderVars
        \/ recordedTrace' = <<>> /\ traceStart' = Top
    BY <1>6 DEF Profile, InitRecording
  <2> QED
    BY <2>1, <2>2, PathUnchanged, RecordingStarts
<1>7. CASE RecordAndInterpret
  <2>1. phase = "execute" /\ frames # <<>> /\ frames' = EvalInstruction(frames, cond)
    BY <1>7 DEF RecordAndInterpret, IInv, SomeFrame
  <2>2. CASE recording
    BY <1>7, <2>1, <2>2, RecordKeepsUp DEF RecordAndInterpret
  <2>3. CASE ~recording
    BY <1>7, <2>3, NobodyRecords DEF RecordAndInterpret, recorderVars
  <2> QED
    BY <2>2, <2>3
<1> QED
  BY <1>1, <1>2, <1>3, <1>4, <1>5, <1>6, <1>7 DEF Next, StayStopped

LEMMA InOrderIsAPath == IInv /\ PathInv => RecordingIsAPath
<1> SUFFICES ASSUME IInv, PathInv, NEW k \in 1 .. Len(recordedTrace) - 1
             PROVE  \/ Mnemonic(recordedTrace[k].pc) \in Returns
                    \/ recordedTrace[k + 1].pc \in Successors(recordedTrace[k].pc)
  BY DEF PathInv, BeginsAtStart, RecordingIsAPath
<1> DEFINE entry == recordedTrace[k]
           pc == entry.pc
<1>1. pc \in Pcs
  BY DEF IInv, TypeOK, RecorderTypeOK, Entries
<1>2. HasReturned(entry) \/ recordedTrace[k + 1].pc \in Onwards(entry)
  BY DEF PathInv, EntriesInOrder
<1> HIDE DEF entry
<1>3. Onwards(entry) \subseteq Successors(pc)
  <2>1. CASE Mnemonic(pc) \in NotedBranches
    <3>1. Successors(pc) = {PastGotos[Target(pc)], PastGotos[After(pc)]}
      BY <1>1, <2>1, SuccessorsForm, FlipNames
    <3> QED
      BY <2>1, <3>1 DEF Onwards, Way
  <2>2. CASE Mnemonic(pc) \notin NotedBranches
    BY <2>2 DEF Onwards
  <2> QED
    BY <2>1, <2>2
<1> QED
  BY <1>2, <1>3 DEF HasReturned, entry

(* As long as no trace runs while the recorder is at work, what it records *)
(* is a path of the program from the pc the recording is for, whatever the *)
(* program, and the entries say which way each branch was left.            *)
THEOREM RecordingsArePaths ==
    Spec /\ []RecordingsUndisturbed => [](RecordingIsAPath /\ EntriesInOrder)
<1>1. IInv /\ PathInv => RecordingIsAPath /\ EntriesInOrder
  BY InOrderIsAPath DEF PathInv
<1> QED
  BY <1>1, InitPath, NextPath, RecordedInvariance, PTL DEF Spec

-----------------------------------------------------------------------------
(* A block of a trace about to be installed follows the program, by the    *)
(* kind of its entry.                                                      *)

LEMMA CompilableNames ==
    ASSUME NEW mn \in Compilable
    PROVE  /\ mn \notin DOMAIN JumpFor =>
                mn \notin Branches \cup {"GOTO", "INVOKESTATIC"} \cup Returns
           /\ mn \in DOMAIN JumpFor => mn \in Branches \cup {"GOTO"}
           /\ mn \in Branches => mn \in DOMAIN JumpFor /\ mn # "GOTO"
BY BranchNames DEF Compilable, JumpFor, Loads, Immediates, Arithmetic, Divisions, Returns

LEMMA PlainEntry ==
    ASSUME NEW entry, entry.pc \in Pcs, Faithful(entry),
           entry.mn \in Compilable \ DOMAIN JumpFor
    PROVE  PlainMnemonic(Mnemonic(entry.pc))
<1>1. entry.mn \notin Branches \cup {"GOTO", "INVOKESTATIC"} \cup Returns
  BY CompilableNames
<1>2. entry = EntryFor(entry.pc)
  <2>1. ASSUME Mnemonic(entry.pc) \in DOMAIN FlipOf, entry = TurnedRound(entry.pc)
        PROVE  FALSE
    BY <1>1, <2>1, FlipNames DEF TurnedRound
  <2> QED
    BY <2>1 DEF Faithful
<1> QED
  BY <1>1, <1>2, LongFormNames DEF PlainMnemonic

(* The blocks of a recording, as it is when compiled, follow the program.  *)
LEMMA NewBlockFollows ==
    ASSUME IInv, RecordedInv, PathInv, RecordingsEndInGoto, GuardsCompilable,
           Compiled, NEW k \in DOMAIN nativeTrace
    PROVE  BlockFollows(nativeTrace, k)
<1> DEFINE entry == recordedTrace[k]
           block == nativeTrace[k]
           pc == block.pc
           Behind(q) == k < Len(nativeTrace) /\ nativeTrace[k + 1].pc = PastGotos[q]
<1>1. phase = "compile" /\ Len(nativeTrace) = Len(recordedTrace)
  BY DEF Compiled
<1>2. nativeTrace \in Seq(Blocks) /\ recordedTrace \in Seq(Entries)
  BY DEF IInv, TypeOK, RecorderTypeOK, CompilerTypeOK
<1>3. /\ k \in DOMAIN recordedTrace
      /\ entry \in Entries /\ Faithful(entry) /\ pc = entry.pc
      /\ entry.mn \in Compilable
      /\ IF entry.mn \in DOMAIN JumpFor
         THEN block.jump = JumpFor[entry.mn] /\ block.label = LabelOf(entry)
         ELSE block.jump = "none"
  BY <1>1, BlockOfEntry
<1>4. pc \in Pcs /\ ~ForwardGoto(pc)
  BY <1>3 DEF Entries, Faithful
<1>5. entry.mn # "IFNE" /\ Mnemonic(pc) # "IF_ICMPEQ"
  BY <1>1, <1>3 DEF GuardsCompilable
<1>6. ASSUME entry.mn # "GOTO", Mnemonic(pc) \notin Returns
      PROVE  k < Len(nativeTrace) /\ nativeTrace[k + 1].pc \in Onwards(entry)
  <2>1. k # Len(recordedTrace)
    BY <1>1, <1>6 DEF RecordingsEndInGoto, LastEntry
  <2>2. k \in 1 .. Len(recordedTrace) - 1 /\ k + 1 \in DOMAIN nativeTrace
    BY <1>1, <1>2, <1>3, <2>1
  <2>3. recordedTrace[k + 1].pc \in Onwards(entry)
    BY <1>3, <1>6, <2>2 DEF PathInv, EntriesInOrder, HasReturned
  <2>4. nativeTrace[k + 1].pc = recordedTrace[k + 1].pc
    BY <1>1, <2>2, BlockOfEntry
  <2> QED
    BY <1>1, <1>2, <2>2, <2>3, <2>4
<1> HIDE DEF entry, block
<1>7. CASE entry.mn \notin DOMAIN JumpFor
  <2>1. PlainMnemonic(Mnemonic(pc))
    BY <1>3, <1>4, <1>7, PlainEntry
  <2>2. Onwards(entry) = {PastGotos[After(pc)]}
    BY <1>3, <1>4, <2>1, SuccessorsForm, FlipNames DEF Onwards, PlainMnemonic
  <2>3. entry.mn # "GOTO" /\ Mnemonic(pc) \notin Returns
    BY <1>7, <2>1 DEF JumpFor, PlainMnemonic
  <2>4. Behind(After(pc))
    BY <1>6, <2>2, <2>3
  <2> QED
    BY <1>3, <1>4, <1>7, <2>1, <2>4 DEF BlockFollows, block
<1>8. CASE entry.mn = "GOTO"
  <2>1. Mnemonic(pc) = "GOTO" /\ LabelOf(entry) = Target(pc)
    BY <1>3, <1>4, <1>8, JumpingEntry
  <2>2. block.jump = "jmp" /\ block.label = Target(pc)
    BY <1>3, <1>8, <2>1 DEF JumpFor
  <2> QED
    BY <1>4, <2>1, <2>2 DEF BlockFollows, block
<1>9. CASE entry.mn \in DOMAIN JumpFor \ {"GOTO"}
  <2>1. entry.mn \in Branches /\ block.jump = JumpFor[entry.mn] /\ block.label = LabelOf(entry)
    BY <1>3, <1>9, CompilableNames
  <2>2. /\ block.jump \in DOMAIN JumpsOn /\ block.jump \notin {"jmp", "none"}
        /\ entry.mn = Mnemonic(pc) => JumpsOn[block.jump] = RelationOf[Mnemonic(pc)]
        /\ Mnemonic(pc) \in DOMAIN FlipOf /\ entry.mn = FlipOf[Mnemonic(pc)] =>
             /\ JumpsOn[block.jump] = Opposite[RelationOf[Mnemonic(pc)]]
             /\ JumpsOn[block.jump] # RelationOf[Mnemonic(pc)]
    BY <1>4, <1>5, <1>9, <2>1, GuardRelation
  <2>3. CASE entry = EntryFor(pc) /\ entry.mn = Mnemonic(pc) /\ LabelOf(entry) = Target(pc)
    <3>1. \A holds \in BOOLEAN : Taken(block, holds) = {holds}
      BY <2>2, <2>3 DEF Taken
    <3>2. Mnemonic(pc) \in NotedBranches /\ Mnemonic(pc) \in Branches
      BY <1>3, <1>5, <1>9, <2>1, <2>3 DEF NotedBranches, FlipOf, JumpFor
    <3>3. Onwards(entry) = {PastGotos[Way(pc, FALSE)]}
      BY <1>3, <2>3, <3>2 DEF Onwards
    <3>4. Behind(Way(pc, FALSE)) /\ block.label = Way(pc, TRUE)
      BY <1>6, <1>9, <2>1, <2>3, <3>2, <3>3, BranchNames DEF Returns, Way
    <3>5. \A holds \in BOOLEAN :
             \/ Taken(block, holds) = {TRUE} /\ block.label = Way(pc, holds)
             \/ Taken(block, holds) = {FALSE} /\ Behind(Way(pc, holds))
      BY <3>1, <3>4
    <3> QED
      BY <1>4, <2>2, <3>2, <3>5, Zenon DEF BlockFollows, block
  <2>4. CASE /\ Mnemonic(pc) \in DOMAIN FlipOf /\ entry = TurnedRound(pc)
             /\ entry.mn = FlipOf[Mnemonic(pc)] /\ LabelOf(entry) = After(pc)
    <3>1. \A holds \in BOOLEAN : Taken(block, holds) = {~holds}
      BY <2>2, <2>4, Zenon DEF Taken
    <3>2. Mnemonic(pc) \in NotedBranches /\ Mnemonic(pc) \in Branches
      BY <2>4, FlipNames DEF NotedBranches
    <3>3. Onwards(entry) = {PastGotos[Way(pc, TRUE)]}
      BY <1>3, <1>4, <2>4, <3>2, TurnedIsNotAsRead DEF Onwards
    <3>4. Behind(Way(pc, TRUE)) /\ block.label = Way(pc, FALSE)
      BY <1>6, <1>9, <2>1, <2>4, <3>2, <3>3, BranchNames DEF Returns, Way
    <3>5. \A holds \in BOOLEAN :
             \/ Taken(block, holds) = {TRUE} /\ block.label = Way(pc, holds)
             \/ Taken(block, holds) = {FALSE} /\ Behind(Way(pc, holds))
      BY <3>1, <3>4
    <3> QED
      BY <1>4, <2>2, <3>2, <3>5, Zenon DEF BlockFollows, block
  <2> QED
    BY <1>3, <1>4, <1>9, <2>1, <2>3, <2>4, JumpingEntry
<1> QED
  BY <1>7, <1>8, <1>9

LEMMA NewTraceFollows ==
    ASSUME IInv, RecordedInv, PathInv, RecordingsEndInGoto, GuardsCompilable, Compiled
    PROVE  TraceFollows(traceStart, nativeTrace)
<1>1. phase = "compile" /\ Len(nativeTrace) = Len(recordedTrace)
  BY DEF Compiled
<1>2. /\ nativeTrace \in Seq(Blocks) /\ recordedTrace \in Seq(Entries)
      /\ recordedTrace # <<>> /\ traceStart \in Pcs
  BY <1>1 DEF IInv, TypeOK, RecorderTypeOK, CompilerTypeOK, CompilingMayStart, MayStart
<1>3. 1 \in DOMAIN nativeTrace
  BY <1>1, <1>2
<1>4. nativeTrace[1].pc = recordedTrace[1].pc
  BY <1>1, <1>3, BlockOfEntry
<1>5. recordedTrace[1].pc = PastGotos[traceStart]
  BY <1>2 DEF PathInv, BeginsAtStart
<1> QED
  BY <1>4, <1>5, NewBlockFollows DEF TraceFollows

LEMMA NextFollows ==
    /\ IInv /\ RecordedInv /\ PathInv /\ RecordingsEndInGoto /\ GuardsCompilable
    /\ TracesFollow /\ [Next]_vars
    => TracesFollow'
<1> SUFFICES ASSUME IInv, RecordedInv, PathInv, RecordingsEndInGoto, GuardsCompilable,
                    TracesFollow, [Next]_vars
             PROVE  TracesFollow'
  OBVIOUS
<1>1. CASE Install
  <2>1. /\ DOMAIN traces' = DOMAIN traces \cup {traceStart}
        /\ traces'[traceStart].code = nativeTrace
        /\ \A pc \in DOMAIN traces : pc # traceStart => traces'[pc] = traces[pc]
    BY <1>1 DEF Install, InsertTrace, Trace
  <2>2. TraceFollows(traceStart, nativeTrace)
    BY <1>1, NewTraceFollows DEF Install
  <2>3. \A pc \in DOMAIN traces' : TraceFollows(pc, traces'[pc].code)
    BY <2>1, <2>2 DEF TracesFollow
  <2> QED
    BY <2>3 DEF TracesFollow
<1>2. CASE ~Install
  <2>1. traces' = traces
    BY <1>2, OnlyInstallInstalls
  <2> QED
    BY <2>1 DEF TracesFollow
<1> QED
  BY <1>1, <1>2

-----------------------------------------------------------------------------
(* The abstract machine speaks of the same program.                        *)
LEMMA SameProgram ==
    /\ Machine!Branches = Branches
    /\ \A pc : Machine!Mnemonic(pc) = Mnemonic(pc)
    /\ \A m : Machine!EntryPc(m) = EntryPc(m)
    /\ \A fs : Machine!Settle(fs) = Settle(fs)
    /\ \A fs, c : Machine!EvalInstruction(fs, c) = EvalInstruction(fs, c)
<1>1. Machine!RelationOf = RelationOf
  BY DEF Machine!RelationOf, RelationOf
<1>2. Machine!Branches = Branches
  BY <1>1 DEF Machine!Branches, Branches
<1>3. \A pc : Machine!Mnemonic(pc) = Mnemonic(pc)
  BY DEF Machine!Mnemonic, Mnemonic
<1>4. \A pc, offset : Machine!Jump(pc, offset) = Jump(pc, offset)
  BY DEF Machine!Jump, Jump
<1>5. \A pc : Machine!Target(pc) = Target(pc)
  BY <1>4 DEF Machine!Target, Target
<1>6. \A mn : Machine!GetParameters(mn) = GetParameters(mn)
  BY <1>2 DEF Machine!GetParameters, GetParameters, Machine!TwoByteParameters,
     TwoByteParameters, Machine!OneByteParameters, OneByteParameters
<1>7. \A pc : Machine!After(pc) = After(pc)
  BY <1>3, <1>4, <1>6 DEF Machine!After, After
<1>8. \A m : Machine!EntryPc(m) = EntryPc(m)
  BY DEF Machine!EntryPc, EntryPc
<1>9. Machine!Returns = Returns
  BY DEF Machine!Returns, Returns
<1>10. \A fs, c : Machine!EvalInstruction(fs, c) = EvalInstruction(fs, c)
  BY <1>2, <1>3, <1>5, <1>7, <1>8, <1>9 DEF Machine!EvalInstruction, EvalInstruction
<1>11. Machine!Pcs = Pcs
  BY DEF Machine!Pcs, Pcs
<1>12. \A pc : Machine!ForwardGoto(pc) <=> ForwardGoto(pc)
  BY <1>3 DEF Machine!ForwardGoto, ForwardGoto
<1>13. Machine!PastGotos = PastGotos
  BY <1>5, <1>11, <1>12 DEF Machine!PastGotos, PastGotos
<1>14. \A fs : Machine!Settle(fs) = Settle(fs)
  BY <1>13 DEF Machine!Settle, Settle
<1> QED
  BY <1>2, <1>3, <1>8, <1>10, <1>14

LEMMA MachineStep ==
    ASSUME ArchFrames # <<>>,
           ArchFrames' = Settle(EvalInstruction(ArchFrames, cond)),
           cond' \in (IF Mnemonic(Head(ArchFrames)) \in Branches THEN BOOLEAN ELSE {cond})
    PROVE  Machine!Step
BY SameProgram DEF Machine!Step

(* Where the program is, as the machine sees it.                           *)
LEMMA SettleForm ==
    ASSUME NEW next \in Pcs, NEW rest \in Seq(Pcs)
    PROVE  Settle(<<next>> \o rest) = <<PastGotos[next]>> \o rest
BY OnTop DEF Settle

LEMMA ArchOutside ==
    ASSUME IInv, frames # <<>>, phase \notin {"native", "wild"}
    PROVE  ArchFrames = <<PastGotos[Top]>> \o Tail(frames)
BY DEF ArchFrames, Settle, Top

LEMMA ArchInside ==
    ASSUME phase = "native"
    PROVE  ArchFrames = <<PastGotos[NativePc]>> \o Tail(frames)
BY DEF ArchFrames

LEMMA RunningBlock ==
    ASSUME IInv, TracesFollow, phase = "native", native.seg = "block"
    PROVE  /\ native.trace \in DOMAIN traces
           /\ Running.code \in Seq(Blocks) /\ Running.stubs \in Seq(Stubs)
           /\ native.at \in DOMAIN Running.code
           /\ NativePc = Block.pc /\ Block.pc \in Pcs /\ ~ForwardGoto(Block.pc)
           /\ BlockFollows(Running.code, native.at)
<1>1. native.trace \in DOMAIN traces /\ native.at \in DOMAIN Running.code
  BY DEF IInv, NativeInTrace
<1>2. Running.code \in Seq(Blocks) /\ Running.stubs \in Seq(Stubs)
  BY <1>1 DEF IInv, TypeOK, HandlerTypeOK, Traces, Running
<1>3. BlockFollows(Running.code, native.at)
  BY <1>1 DEF TracesFollow, TraceFollows, Running
<1>4. NativePc = Block.pc /\ Block.pc \in Pcs /\ ~ForwardGoto(Block.pc)
  BY <1>3 DEF NativePc, BlockFollows, Block
<1> QED
  BY <1>1, <1>2, <1>3, <1>4

LEMMA FirstBlock ==
    ASSUME TracesFollow, IInv, NEW pc \in DOMAIN traces,
           native' = InBlock(pc, 1), UNCHANGED traces
    PROVE  PastGotos[NativePc'] = PastGotos[pc]
<1>1. 1 \in DOMAIN traces[pc].code
  BY FirstBlockTyped
<1>2. /\ traces[pc].code[1].pc = PastGotos[pc]
      /\ traces[pc].code[1].pc \in Pcs /\ ~ForwardGoto(traces[pc].code[1].pc)
  BY <1>1 DEF TracesFollow, TraceFollows, BlockFollows
<1>3. NativePc' = traces[pc].code[1].pc
  BY DEF NativePc, Block, Running, InBlock
<1> QED
  BY <1>2, <1>3, PastGotosTyped

-----------------------------------------------------------------------------
(* Native code takes one step of the program with each block.              *)

LEMMA JumpLands ==
    ASSUME NEW label, native' \in JumpTo(label), UNCHANGED traces
    PROVE  NativePc' = label
BY DEF JumpTo, NativePc, Block, Stub, Running, InBlock, InStub

LEMMA FallLands ==
    ASSUME native' \in FallThrough, UNCHANGED traces, native.at < Len(Running.code)
    PROVE  NativePc' = Running.code[native.at + 1].pc
BY DEF FallThrough, NativePc, Block, Running, InBlock

LEMMA EvalOnTop ==
    ASSUME NEW pc \in Pcs, NEW rest \in Seq(Pcs), NEW c \in BOOLEAN
    PROVE  LET next == EvalInstruction(<<pc>> \o rest, c)
           IN  /\ Mnemonic(pc) \in Branches => next = <<Way(pc, c)>> \o rest
               /\ Mnemonic(pc) = "GOTO" => next = <<Target(pc)>> \o rest
               /\ PlainMnemonic(Mnemonic(pc)) => next = <<After(pc)>> \o rest
<1> DEFINE fs == <<pc>> \o rest
<1>1. fs \in Seq(Pcs) /\ fs # <<>> /\ Head(fs) = pc /\ Tail(fs) = rest
  BY OnTop
<1> HIDE DEF fs
<1>2. /\ Mnemonic(pc) \in Branches => EvalInstruction(fs, c) = <<Way(pc, c)>> \o Tail(fs)
      /\ Mnemonic(pc) = "GOTO" => EvalInstruction(fs, c) = <<Target(pc)>> \o Tail(fs)
      /\ PlainMnemonic(Mnemonic(pc)) => EvalInstruction(fs, c) = <<After(pc)>> \o Tail(fs)
  BY <1>1, EvalForm
<1> QED
  BY <1>1, <1>2 DEF fs

(* Where the block leads is where the instruction leads.                   *)
LEMMA BlockLeads ==
    ASSUME IInv, TracesFollow, RunNative, NEW fs, fs = <<Block.pc>> \o Tail(frames)
    PROVE  \E next \in Pcs :
              /\ EvalInstruction(fs, cond) = <<next>> \o Tail(frames)
              /\ PastGotos[NativePc'] = PastGotos[next]
<1> DEFINE pc == Block.pc
           code == Running.code
           Behind(q) == native.at < Len(code) /\ code[native.at + 1].pc = PastGotos[q]
<1>1. phase = "native" /\ native.seg = "block" /\ UNCHANGED traces
  BY DEF RunNative, RunBlock
<1>2. /\ code \in Seq(Blocks) /\ native.at \in DOMAIN code
      /\ pc \in Pcs /\ ~ForwardGoto(pc) /\ BlockFollows(code, native.at)
  BY <1>1, RunningBlock
<1>3. frames # <<>> /\ Tail(frames) \in Seq(Pcs) /\ cond \in BOOLEAN
  BY <1>1, TopTyped DEF IInv, SomeFrame, TypeOK
<1>4. /\ Mnemonic(pc) \in Branches =>
            EvalInstruction(fs, cond) = <<Way(pc, cond)>> \o Tail(frames)
      /\ Mnemonic(pc) = "GOTO" => EvalInstruction(fs, cond) = <<Target(pc)>> \o Tail(frames)
      /\ PlainMnemonic(Mnemonic(pc)) => EvalInstruction(fs, cond) = <<After(pc)>> \o Tail(frames)
  BY <1>2, <1>3, EvalOnTop
<1>5. PICK taken \in Taken(Block, cond) : native' \in NextPlaces(taken)
  BY DEF RunNative, RunBlock
<1>6. taken => NativePc' = Block.label
  BY <1>1, <1>5, JumpLands DEF NextPlaces
<1>7. ASSUME NEW q \in Pcs, Behind(q), ~taken
      PROVE  PastGotos[NativePc'] = PastGotos[q]
  <2>1. NativePc' = code[native.at + 1].pc
    BY <1>1, <1>5, <1>7, FallLands DEF NextPlaces
  <2>2. native.at + 1 \in DOMAIN code
    BY <1>2, <1>7
  <2>3. code[native.at + 1].pc \in Pcs /\ ~ForwardGoto(code[native.at + 1].pc)
    <3>1. native.trace \in DOMAIN traces
      BY <1>1, RunningBlock
    <3> QED
      BY <2>2, <3>1 DEF TracesFollow, TraceFollows, BlockFollows, Running
  <2> QED
    BY <1>7, <2>1, <2>3, PastGotosTyped
<1> DEFINE block == Block
<1>8. \/ /\ block.jump = "none"
         /\ PlainMnemonic(Mnemonic(pc)) /\ Behind(After(pc))
      \/ /\ block.jump = "jmp"
         /\ Mnemonic(pc) = "GOTO" /\ block.label = Target(pc)
      \/ /\ block.jump \in DOMAIN JumpsOn /\ Mnemonic(pc) \in Branches
         /\ \A holds \in BOOLEAN :
               \/ Taken(block, holds) = {TRUE} /\ block.label = Way(pc, holds)
               \/ Taken(block, holds) = {FALSE} /\ Behind(Way(pc, holds))
  BY <1>2, Zenon DEF BlockFollows, Block
<1>9. CASE block.jump = "none" /\ PlainMnemonic(Mnemonic(pc)) /\ Behind(After(pc))
  <2>1. After(pc) \in Pcs
    BY <1>2, <1>9, AfterTyped DEF PlainMnemonic
  <2>2. ~taken
    BY <1>5, <1>9 DEF Taken
  <2>3. PastGotos[NativePc'] = PastGotos[After(pc)]
    BY <1>7, <1>9, <2>1, <2>2
  <2>4. EvalInstruction(fs, cond) = <<After(pc)>> \o Tail(frames)
    BY <1>4, <1>9
  <2> QED
    BY <2>1, <2>3, <2>4
<1>10. CASE block.jump = "jmp" /\ Mnemonic(pc) = "GOTO" /\ block.label = Target(pc)
  <2>1. Target(pc) \in Pcs
    BY <1>2, <1>10, TargetTyped
  <2>2. taken
    BY <1>5, <1>10 DEF Taken
  <2>3. EvalInstruction(fs, cond) = <<Target(pc)>> \o Tail(frames)
    BY <1>4, <1>10
  <2> QED
    BY <1>6, <1>10, <2>1, <2>2, <2>3
<1>11. CASE /\ Mnemonic(pc) \in Branches
            /\ \/ Taken(block, cond) = {TRUE} /\ block.label = Way(pc, cond)
               \/ Taken(block, cond) = {FALSE} /\ Behind(Way(pc, cond))
  <2>1. Way(pc, cond) \in Pcs
    BY <1>2, <1>3, <1>11, WayTyped
  <2>2. EvalInstruction(fs, cond) = <<Way(pc, cond)>> \o Tail(frames)
    BY <1>4, <1>11
  <2>3. PastGotos[NativePc'] = PastGotos[Way(pc, cond)]
    <3>1. CASE Taken(block, cond) = {TRUE} /\ block.label = Way(pc, cond)
      BY <1>5, <1>6, <3>1
    <3>2. CASE Taken(block, cond) = {FALSE} /\ Behind(Way(pc, cond))
      BY <1>5, <1>7, <2>1, <3>2
    <3> QED
      BY <1>11, <3>1, <3>2
  <2> QED
    BY <2>1, <2>2, <2>3
<1> QED
  BY <1>3, <1>8, <1>9, <1>10, <1>11

LEMMA RunNativeSteps == IInv /\ TracesFollow /\ RunNative => Machine!Step
<1> SUFFICES ASSUME IInv, TracesFollow, RunNative PROVE Machine!Step
  OBVIOUS
<1> DEFINE fs == <<Block.pc>> \o Tail(frames)
<1>1. phase = "native" /\ native.seg = "block" /\ phase' = "native" /\ UNCHANGED frames
  BY DEF RunNative, RunBlock
<1>2. NativePc = Block.pc /\ Block.pc \in Pcs /\ ~ForwardGoto(Block.pc)
  BY <1>1, RunningBlock
<1>3. frames # <<>> /\ Tail(frames) \in Seq(Pcs)
  BY <1>1, TopTyped DEF IInv, SomeFrame
<1>4. ArchFrames = fs
  BY <1>1, <1>2, ArchInside, PastGotosTyped
<1>5. fs # <<>> /\ Head(fs) = Block.pc
  BY <1>2, <1>3, OnTop
<1>6. PICK next \in Pcs :
         /\ EvalInstruction(fs, cond) = <<next>> \o Tail(frames)
         /\ PastGotos[NativePc'] = PastGotos[next]
  BY BlockLeads
<1>7. ArchFrames' = <<PastGotos[NativePc']>> \o Tail(frames)
  BY <1>1 DEF ArchFrames
<1>8. ArchFrames' = Settle(EvalInstruction(fs, cond))
  BY <1>3, <1>6, <1>7, SettleForm
<1>9. cond' \in (IF Mnemonic(Head(fs)) \in Branches THEN BOOLEAN ELSE {cond})
  BY <1>5 DEF RunNative, Redraw
<1> QED
  BY <1>4, <1>5, <1>8, <1>9, MachineStep

-----------------------------------------------------------------------------
(* The interpreter steps as the machine does, but for a forward GOTO.      *)
LEMMA InterpretSteps ==
    IInv /\ RecordAndInterpret => Machine!Step \/ UNCHANGED <<ArchFrames, cond>>
<1> SUFFICES ASSUME IInv, RecordAndInterpret
             PROVE  Machine!Step \/ UNCHANGED <<ArchFrames, cond>>
  OBVIOUS
<1>1. /\ phase = "execute" /\ phase' = "check"
      /\ frames' = EvalInstruction(frames, cond) /\ Redraw(Top)
  BY DEF RecordAndInterpret
<1>2. /\ frames # <<>> /\ Top \in Pcs /\ Tail(frames) \in Seq(Pcs)
      /\ frames \in Seq(Pcs) /\ Top = Head(frames) /\ cond \in BOOLEAN
  BY <1>1, TopTyped DEF IInv, SomeFrame, TypeOK, Top
<1>3. ArchFrames = <<PastGotos[Top]>> \o Tail(frames)
  BY <1>1, <1>2, ArchOutside
<1>4. ArchFrames' = Settle(EvalInstruction(frames, cond))
  BY <1>1 DEF ArchFrames, Settle
<1>5. CASE ForwardGoto(Top)
  <2>1. Mnemonic(Top) = "GOTO"
    BY <1>5 DEF ForwardGoto
  <2>2. EvalInstruction(frames, cond) = <<Target(Top)>> \o Tail(frames)
    BY <1>2, <2>1, EvalForm
  <2>3. Target(Top) \in Pcs
    BY <1>2, <2>1, TargetTyped
  <2>4. ArchFrames' = <<PastGotos[Target(Top)]>> \o Tail(frames)
    BY <1>2, <1>4, <2>2, <2>3, SettleForm
  <2>5. PastGotos[Target(Top)] = PastGotos[Top]
    BY <1>2, <1>5, PastGotosOf
  <2>6. cond' = cond
    BY <1>1, <2>1, BranchNames DEF Redraw
  <2> QED
    BY <1>3, <2>4, <2>5, <2>6
<1>6. CASE ~ForwardGoto(Top)
  <2>1. ArchFrames = frames
    BY <1>2, <1>3, <1>6, PastGotosTyped
  <2> QED
    BY <1>1, <1>2, <1>4, <2>1, MachineStep DEF Redraw
<1> QED
  BY <1>5, <1>6

-----------------------------------------------------------------------------
(* Going into a trace, from one to another and out moves nothing.          *)

LEMMA EnterTraceStutters ==
    IInv /\ TracesFollow /\ EnterTrace => UNCHANGED <<ArchFrames, cond>>
<1> SUFFICES ASSUME IInv, TracesFollow, EnterTrace PROVE UNCHANGED <<ArchFrames, cond>>
  OBVIOUS
<1>1. /\ phase = "dispatch" /\ phase' = "native" /\ Top \in DOMAIN traces
      /\ native' = InBlock(Top, 1) /\ UNCHANGED <<traces, frames, cond>>
  BY DEF EnterTrace, HasTrace
<1>2. frames # <<>>
  BY <1>1 DEF IInv, SomeFrame
<1>3. PastGotos[NativePc'] = PastGotos[Top]
  BY <1>1, FirstBlock
<1>4. ArchFrames = <<PastGotos[Top]>> \o Tail(frames)
  BY <1>1, <1>2, ArchOutside
<1>5. ArchFrames' = <<PastGotos[NativePc']>> \o Tail(frames)
  BY <1>1 DEF ArchFrames
<1> QED
  BY <1>1, <1>3, <1>4, <1>5

(* A stub stands for the pc its id names in the exit table.                *)
LEMMA AtStub ==
    ASSUME IInv, phase = "native", native.seg = "stub"
    PROVE  NativePc = ExitPcOf(Stub.id)
BY DEF IInv, NativeInTrace, StubsMatchExitTable, Running, Stub, ExitPcOf, NativePc

LEMMA LinkTracesStutters ==
    IInv /\ TracesFollow /\ LinkTraces => UNCHANGED <<ArchFrames, cond>>
<1> SUFFICES ASSUME IInv, TracesFollow, LinkTraces PROVE UNCHANGED <<ArchFrames, cond>>
  OBVIOUS
<1> DEFINE pc == ExitPcOf(Stub.id)
<1>1. /\ phase = "native" /\ phase' = "native" /\ native.seg = "stub" /\ pc \in DOMAIN traces
      /\ native' = InBlock(pc, 1) /\ UNCHANGED <<traces, frames, cond>>
  BY DEF LinkTraces, FollowLink, HasTrace
<1>2. NativePc = pc
  BY <1>1, AtStub
<1> HIDE DEF pc
<1>3. PastGotos[NativePc'] = PastGotos[pc]
  BY <1>1, FirstBlock
<1>4. ArchFrames' = <<PastGotos[NativePc']>> \o Tail(frames)
  BY <1>1 DEF ArchFrames
<1> QED
  BY <1>1, <1>2, <1>3, <1>4, ArchInside

LEMMA LeaveTraceStutters == IInv /\ LeaveTrace => UNCHANGED <<ArchFrames, cond>>
<1> SUFFICES ASSUME IInv, LeaveTrace PROVE UNCHANGED <<ArchFrames, cond>>
  OBVIOUS
<1>1. phase = "native" /\ phase' = "check" /\ UNCHANGED cond
  BY DEF LeaveTrace
<1>2. PICK exitPc \in Pcs : ReturnsTo(exitPc) /\ frames' = <<exitPc>> \o Tail(frames)
  BY DEF LeaveTrace
<1>3. NativePc = exitPc
  BY <1>1, <1>2, AtStub DEF ReturnsTo
<1>4. Tail(frames) \in Seq(Pcs)
  BY <1>1, TopTyped DEF IInv, SomeFrame
<1>5. ArchFrames' = Settle(<<exitPc>> \o Tail(frames))
  BY <1>1, <1>2 DEF ArchFrames, Settle
<1> QED
  BY <1>1, <1>3, <1>4, <1>5, ArchInside, SettleForm

(* The other actions leave the frames alone, and native code where it is.  *)
LEMMA OthersStutter ==
    ASSUME UNCHANGED <<frames, cond>>,
           \/ phase \notin {"native", "wild"} /\ phase' \notin {"native", "wild"}
           \/ UNCHANGED <<traces, native>> /\ phase \in {"native", "wild"} /\ phase' \in {"native", "wild"}
    PROVE  UNCHANGED <<ArchFrames, cond>>
BY DEF ArchFrames, Settle, NativePc, Stub, Block, Running

LEMMA NextRefines ==
    IInv /\ TracesFollow /\ [Next]_vars => [Machine!Step]_<<ArchFrames, cond>>
<1> SUFFICES ASSUME IInv, TracesFollow, [Next]_vars
             PROVE  Machine!Step \/ UNCHANGED <<ArchFrames, cond>>
  OBVIOUS
<1>1. CASE KeepGoing \/ GiveUpRecording \/ StartCompiling \/ CompileEntry \/ CompileFails
           \/ InstallFails \/ Install \/ Profile \/ RecordFails
  BY <1>1, OthersStutter DEF KeepGoing, GiveUpRecording, StartCompiling, CompileEntry,
     CompileFails, InstallFails, Install, Profile, RecordFails, Compiling, Compiled
<1>2. CASE GoWild
  BY <1>2, OthersStutter DEF GoWild, handlerVars
<1>3. CASE EnterTrace
  BY <1>3, EnterTraceStutters
<1>4. CASE RunNative
  BY <1>4, RunNativeSteps
<1>5. CASE LinkTraces
  BY <1>5, LinkTracesStutters
<1>6. CASE LeaveTrace
  BY <1>6, LeaveTraceStutters
<1>7. CASE RecordAndInterpret
  BY <1>7, InterpretSteps
<1>8. CASE UNCHANGED vars
  BY <1>8 DEF vars, handlerVars, ArchFrames, Settle, NativePc, Stub, Block, Running
<1> QED
  BY <1>1, <1>2, <1>3, <1>4, <1>5, <1>6, <1>7, <1>8 DEF Next, StayStopped

(* Where no trace runs during a recording, recordings end in a GOTO and    *)
(* their guards are ones compile() can turn into code, the tracing run loop*)
(* goes where the interpreter goes, for every program and threshold.       *)
THEOREM TracingImplementsInterpreting ==
    Spec /\ []RecordingsUndisturbed /\ []RecordingsEndInGoto /\ []GuardsCompilable
        => RefinesInterpreter
<1>1. Init => Machine!Init
  <2> SUFFICES ASSUME Init PROVE Machine!Init
    OBVIOUS
  <2>1. ArchFrames = Settle(<<EntryPc(MainMethod)>>) /\ cond \in BOOLEAN
    BY DEF Init, ArchFrames
  <2> QED
    BY <2>1, SameProgram DEF Machine!Init
<1>2. Init => TracesFollow
  BY DEF Init, InitHandler, TracesFollow
<1>3. IInv /\ TracesFollow /\ [Next]_vars => [Machine!Step]_Machine!vars
  BY NextRefines DEF Machine!vars
<1> QED
  BY <1>1, <1>2, <1>3, InitPath, NextPath, NextFollows, RecordedInvariance, PTL
     DEF Spec, RefinesInterpreter, Machine!Spec

-----------------------------------------------------------------------------
(* Native code stays on the code that was written for it.                  *)

LEMMA NextEndsInJump ==
    IInv /\ RecordedInv /\ RecordingsEndInGoto /\ TracesEndInJump /\ [Next]_vars
        => TracesEndInJump'
<1> SUFFICES ASSUME IInv, RecordedInv, RecordingsEndInGoto, TracesEndInJump, [Next]_vars
             PROVE  TracesEndInJump'
  OBVIOUS
<1>1. CASE Install
  <2> DEFINE n == Len(nativeTrace)
  <2>1. /\ DOMAIN traces' = DOMAIN traces \cup {traceStart}
        /\ traces'[traceStart].code = nativeTrace
        /\ \A pc \in DOMAIN traces : pc # traceStart => traces'[pc] = traces[pc]
    BY <1>1 DEF Install, InsertTrace, Trace
  <2>2. phase = "compile" /\ n = Len(recordedTrace)
    BY <1>1 DEF Install, Compiled
  <2>3. n \in DOMAIN nativeTrace
    BY <2>2 DEF IInv, TypeOK, RecorderTypeOK, CompilerTypeOK, CompilingMayStart
  <2>4. recordedTrace[n].mn = "GOTO"
    BY <2>2 DEF RecordingsEndInGoto, LastEntry
  <2>5. nativeTrace[n].jump = "jmp"
    BY <2>2, <2>3, <2>4, BlockOfEntry DEF JumpFor
  <2> QED
    BY <2>1, <2>5 DEF TracesEndInJump
<1>2. CASE ~Install
  <2>1. traces' = traces
    BY <1>2, OnlyInstallInstalls
  <2> QED
    BY <2>1 DEF TracesEndInJump
<1> QED
  BY <1>1, <1>2

LEMMA NotWild ==
    IInv /\ JumpsAreBound /\ TracesEndInJump => ~GoWild
<1> SUFFICES ASSUME IInv, JumpsAreBound, TracesEndInJump, GoWild PROVE FALSE
  OBVIOUS
<1>1. phase = "native" /\ native.seg = "block"
  BY DEF GoWild, RunsWild
<1>2. PICK taken \in Taken(Block, cond) : NextPlaces(taken) = {}
  BY DEF GoWild, RunsWild
<1>3. native.trace \in DOMAIN traces /\ native.at \in DOMAIN Running.code
  BY <1>1 DEF IInv, NativeInTrace
<1>4. Running.code \in Seq(Blocks) /\ Block = Running.code[native.at]
  BY <1>3 DEF IInv, TypeOK, HandlerTypeOK, Traces, Running, Block
<1>5. CASE taken
  <2>1. Block.jump # "none"
    BY <1>2, <1>5 DEF Taken
  <2>2. \/ /\ Block.label \in Running.inner
           /\ \E j \in DOMAIN Running.code : Running.code[j].pc = Block.label
        \/ \E j \in DOMAIN Running.stubs : Running.stubs[j].label = Block.label
    BY <1>3, <1>4, <2>1 DEF JumpsAreBound, Running
  <2>3. JumpTo(Block.label) # {}
    BY <2>2 DEF JumpTo
  <2> QED
    BY <1>2, <1>5, <2>3 DEF NextPlaces
<1>6. CASE ~taken
  <2>1. native.at = Len(Running.code)
    BY <1>2, <1>3, <1>4, <1>6 DEF NextPlaces, FallThrough
  <2>2. Block.jump = "jmp"
    BY <1>3, <1>4, <2>1 DEF TracesEndInJump, Running
  <2> QED
    BY <1>2, <1>6, <2>2 DEF Taken
<1> QED
  BY <1>5, <1>6

(* Where recordings end in a GOTO, native code never runs past the last    *)
(* block or into a label nobody bound, whatever ran during the recordings. *)
THEOREM NativeStaysOnCode ==
    GotosAreThreaded => (Spec /\ []RecordingsEndInGoto => []NeverRunsWild)
<1> SUFFICES ASSUME GotosAreThreaded
             PROVE  Spec /\ []RecordingsEndInGoto => []NeverRunsWild
  OBVIOUS
<1>1. Spec => []JumpsAreBound
  BY JumpsBound
<1>2. Init => TracesEndInJump /\ NeverRunsWild
  BY DEF Init, InitHandler, TracesEndInJump, NeverRunsWild
<1>3. /\ IInv /\ JumpsAreBound /\ TracesEndInJump /\ NeverRunsWild /\ [Next]_vars
      => NeverRunsWild'
  <2> SUFFICES ASSUME IInv, JumpsAreBound, TracesEndInJump, phase # "wild", [Next]_vars
               PROVE  phase' # "wild"
    BY DEF NeverRunsWild
  <2>1. ~GoWild
    BY NotWild
  <2> QED
    BY <2>1 DEF Next, KeepGoing, GiveUpRecording, StartCompiling, CompileEntry, CompileFails,
       InstallFails, Install, EnterTrace, RunNative, LinkTraces, LeaveTrace, Profile,
       RecordAndInterpret, RecordFails, StayStopped, vars
<1> QED
  BY <1>1, <1>2, <1>3, NextEndsInJump, RecordedInvariance, PTL DEF Spec

==============================================================================
