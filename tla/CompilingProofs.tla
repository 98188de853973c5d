--------------------------- MODULE CompilingProofs ---------------------------
(***************************************************************************)
(* Proofs about compile() and assemble(): for programs the verifier        *)
(* accepts compile() never pops an empty operand stack, and what is left   *)
(* of the reasons for which the process may end in a throw.                *)
(***************************************************************************)
EXTENDS RecordingProofs, StackDepth, FiniteSetTheorems

-----------------------------------------------------------------------------
(* Instructions.                                                           *)

LEMMA StackNames ==
    ASSUME NEW mn
    PROVE  /\ Consumed(mn) \in 0 .. 2 /\ Produced(mn) \in 0 .. 1
           /\ mn \in Branches \cup {"GOTO"} => Produced(mn) = 0
           /\ mn = "GOTO" => Consumed(mn) = 0
<1> USE BranchNames DEF Comparisons, Operations, Constants, IntLoads, IntStores
<1>1. Consumed(mn) \in 0 .. 2
  BY DEF Consumed
<1>2. Produced(mn) \in 0 .. 1
  BY DEF Produced
<1>3. mn \in Branches \cup {"GOTO"} => Produced(mn) = 0
  BY DEF Produced
<1>4. mn = "GOTO" => Consumed(mn) = 0
  BY DEF Consumed
<1> QED
  BY <1>1, <1>2, <1>3, <1>4

(* The program goes on where the stack is as deep as the instruction left it*)
LEMMA InterpretedDepth ==
    ASSUME NEW d, Verified(d), NEW fs \in Seq(Pcs), fs # <<>>, NEW c \in BOOLEAN,
           NEW pc, pc = Head(fs), Mnemonic(pc) \in Tracked
    PROVE  d[Head(EvalInstruction(fs, c))] = DepthAfter(d, pc)
<1>1. Tail(fs) \in Seq(Pcs) /\ pc \in Pcs
  OBVIOUS
<1>2. \A next \in Leads(pc) : d[next] = DepthAfter(d, pc)
  BY <1>1 DEF Verified
<1>3. CASE Mnemonic(pc) \in Branches
  <2>1. Head(EvalInstruction(fs, c)) = Way(pc, c)
    BY <1>3, EvalTop
  <2>2. Leads(pc) = {Target(pc), After(pc)}
    BY <1>3, BranchNames DEF Leads
  <2>3. Way(pc, c) \in Leads(pc)
    BY <2>2 DEF Way
  <2> QED
    BY <1>2, <2>1, <2>3
<1>4. CASE Mnemonic(pc) = "GOTO"
  <2>1. Head(EvalInstruction(fs, c)) = Target(pc)
    BY <1>4, EvalTop
  <2>2. Target(pc) \in Leads(pc)
    BY <1>4, BranchNames DEF Leads
  <2> QED
    BY <1>2, <2>1, <2>2
<1>5. CASE Mnemonic(pc) \notin Branches \cup {"GOTO"}
  <2>1. PlainMnemonic(Mnemonic(pc))
    BY <1>5, BranchNames DEF PlainMnemonic, Tracked, Operations, Constants, IntLoads, IntStores,
                             Returns
  <2>2. After(pc) \in Pcs
    BY <1>1, <2>1, AfterTyped DEF PlainMnemonic
  <2>3. EvalInstruction(fs, c) = <<After(pc)>> \o Tail(fs)
    BY <2>1, EvalForm
  <2>4. Head(EvalInstruction(fs, c)) = After(pc)
    BY <1>1, <2>2, <2>3, OnTop
  <2>5. After(pc) \in Leads(pc)
    BY <1>5 DEF Leads
  <2> QED
    BY <1>2, <2>4, <2>5
<1> QED
  BY <1>3, <1>4, <1>5

(* compile() against the byte code, mnemonic by mnemonic: as recorded, for *)
(* a short form, for a branch turned round.                                *)
LEMMA CompiledDepth ==
    ASSUME NEW mn \in Compilable
    PROVE  /\ mn \in Tracked
           /\ Pops(mn) = Consumed(mn) /\ Len(Pushed(mn)) = Produced(mn)
<1> USE BranchNames DEF Compilable, JumpFor, Loads, Immediates, Arithmetic, Divisions,
        Comparisons, Operations, Constants, IntLoads, IntStores
<1>1. mn \in Tracked
  BY DEF Tracked
<1>2. Pops(mn) = Consumed(mn)
  BY DEF Pops, Consumed
<1>3. Len(Pushed(mn)) = Produced(mn)
  <2>1. CASE mn \in Loads \cup Arithmetic
    <3>1. Pushed(mn) = <<"reg">>
      BY <2>1, Zenon DEF Pushed
    <3> QED
      BY <2>1, <3>1 DEF Produced
  <2>2. CASE mn \in Immediates
    <3>1. Pushed(mn) = <<"imm">>
      BY <2>2 DEF Pushed
    <3> QED
      BY <2>2, <3>1 DEF Produced
  <2>3. CASE mn \notin Loads \cup Arithmetic \cup Immediates
    <3>1. Pushed(mn) = <<>>
      BY <2>3 DEF Pushed
    <3> QED
      BY <2>3, <3>1 DEF Produced
  <2> QED
    BY <2>1, <2>2, <2>3
<1> QED
  BY <1>1, <1>2, <1>3

LEMMA ShortDepth ==
    ASSUME NEW mn \in DOMAIN LongForm, LongForm[mn] \in Compilable
    PROVE  /\ mn \in Tracked
           /\ Consumed(mn) = Consumed(LongForm[mn]) /\ Produced(mn) = Produced(LongForm[mn])
<1> USE BranchNames DEF LongForm, Comparisons, Operations, Constants, IntLoads, IntStores
<1>1. mn \in {"ILOAD_n", "ISTORE_n", "ICONST_n", "FCONST_n"}
  BY DEF Compilable, JumpFor, Loads, Immediates, Arithmetic, Divisions
<1>2. mn \in Tracked
  BY <1>1 DEF Tracked
<1>3. Consumed(mn) = Consumed(LongForm[mn])
  BY <1>1 DEF Consumed
<1>4. Produced(mn) = Produced(LongForm[mn])
  BY <1>1 DEF Produced
<1> QED
  BY <1>2, <1>3, <1>4

LEMMA FlippedDepth ==
    ASSUME NEW mn \in DOMAIN FlipOf
    PROVE  /\ mn \in Tracked
           /\ Consumed(mn) = Consumed(FlipOf[mn]) /\ Produced(mn) = Produced(FlipOf[mn])
<1> USE BranchNames DEF FlipOf, Comparisons, Operations, Constants, IntLoads, IntStores
<1>1. mn \in Tracked
  BY DEF Tracked
<1>2. Consumed(mn) = Consumed(FlipOf[mn])
  BY DEF Consumed
<1>3. Produced(mn) = Produced(FlipOf[mn])
  BY DEF Produced
<1> QED
  BY <1>1, <1>2, <1>3

(* What compile() makes of an entry does to its stack what the instruction *)
(* does to the interpreter's.                                              *)
LEMMA EntryDepth ==
    ASSUME NEW entry, entry.pc \in Pcs, Faithful(entry), entry.mn \in Compilable
    PROVE  /\ Mnemonic(entry.pc) \in Tracked
           /\ Pops(entry.mn) = Consumed(Mnemonic(entry.pc))
           /\ Len(Pushed(entry.mn)) = Produced(Mnemonic(entry.pc))
<1> DEFINE pc == entry.pc
<1>1. CASE entry = EntryFor(pc)
  <2>1. \/ Mnemonic(pc) \notin DOMAIN LongForm /\ entry.mn = Mnemonic(pc)
        \/ Mnemonic(pc) \in DOMAIN LongForm /\ entry.mn = LongForm[Mnemonic(pc)]
    BY <1>1 DEF EntryFor
  <2>2. CASE Mnemonic(pc) \notin DOMAIN LongForm /\ entry.mn = Mnemonic(pc)
    BY <2>2, CompiledDepth
  <2>3. CASE Mnemonic(pc) \in DOMAIN LongForm /\ entry.mn = LongForm[Mnemonic(pc)]
    BY <2>3, ShortDepth, CompiledDepth
  <2> QED
    BY <2>1, <2>2, <2>3
<1>2. CASE Mnemonic(pc) \in DOMAIN FlipOf /\ entry = TurnedRound(pc)
  BY <1>2, FlippedDepth, CompiledDepth DEF TurnedRound
<1> QED
  BY <1>1, <1>2 DEF Faithful

(* The way out of an entry that jumps leads where the program may go.      *)
LEMMA WayOutDepth ==
    ASSUME NEW d, Verified(d), NEW entry, entry.pc \in Pcs, Faithful(entry),
           entry.mn \in DOMAIN JumpFor
    PROVE  d[LabelOf(entry)] = d[entry.pc] - Pops(entry.mn)
<1> DEFINE pc == entry.pc
<1>1. entry.mn \in Compilable /\ entry.mn \in Branches \cup {"GOTO"}
  BY JumpNames DEF Compilable
<1>2. /\ Mnemonic(pc) \in Tracked
      /\ Pops(entry.mn) = Consumed(Mnemonic(pc))
  BY <1>1, EntryDepth
<1>3. Mnemonic(pc) \in Branches \cup {"GOTO"} /\ LabelOf(entry) \in Leads(pc)
  BY <1>1, JumpingEntry, FlipNames, BranchNames DEF Leads
<1>4. d[LabelOf(entry)] = DepthAfter(d, pc)
  BY <1>2, <1>3 DEF Verified
<1>5. Produced(Mnemonic(pc)) = 0 /\ Consumed(Mnemonic(pc)) \in Nat /\ d[pc] \in Nat
  BY <1>3, StackNames DEF Verified
<1> QED
  BY <1>2, <1>4, <1>5 DEF DepthAfter

-----------------------------------------------------------------------------
(* Recording.                                                              *)

LEMMA RecordBalanced ==
    ASSUME NEW d, Verified(d), IInv, RecordedInv, recording, phase = "execute", frames # <<>>,
           Record(Top), frames' = EvalInstruction(frames, cond),
           RecordingBalanced(d), EntriesBalanced(d)
    PROVE  EntriesBalanced(d)' /\ (recording' /\ frames' # <<>> => GoesOnAt(d, d[Top])')
<1> DEFINE pc == Top
           n == Len(recordedTrace)
<1>1. /\ pc \in Pcs /\ RecorderTypeOK /\ LastEntryIsBranch
      /\ frames \in Seq(Pcs) /\ pc = Head(frames) /\ cond \in BOOLEAN
  BY TopTyped DEF IInv, TypeOK, RecordedInv, Top
<1>2. /\ recordedTrace \in Seq(Entries) /\ recordedTrace' \in Seq(Entries)
      /\ ~RecordThrows(pc) /\ traceStart' = traceStart
  BY <1>1, RecordShape, RecordedEntries DEF RecorderTypeOK
<1>3. \A k \in DOMAIN recordedTrace : recordedTrace'[k].pc = recordedTrace[k].pc
  BY <1>1, <1>2, RecordedEntries, FlipChangesLast
<1>4. /\ recordedTrace = <<>> /\ traceStart \in Pcs => d[traceStart] = d[pc]
      /\ recordedTrace # <<>> /\ Mnemonic(recordedTrace[n].pc) \in Tracked =>
            DepthAfter(d, recordedTrace[n].pc) = d[pc]
  BY DEF RecordingBalanced, GoesOnAt, LastEntry
<1>5. Mnemonic(pc) \in Tracked => d[Top'] = DepthAfter(d, pc)
  BY <1>1, InterpretedDepth DEF Top
<1>6. CASE Kept(pc)
  <2>1. /\ Len(recordedTrace') = n + 1 /\ recordedTrace'[n + 1].pc = pc
        /\ n \in Nat /\ recordedTrace' # <<>>
    <3> HIDE DEF pc
    <3>1. Len(recordedTrace') = n + 1 /\ recordedTrace'[Len(recordedTrace')] = EntryFor(pc)
      BY <1>1, <1>2, <1>6, RecordedEntries DEF pc
    <3>2. n \in Nat
      BY <1>2
    <3>3. recordedTrace'[n + 1] = EntryFor(pc)
      BY <3>1
    <3>4. recordedTrace' # <<>>
      BY <1>2, <3>1, <3>2
    <3> QED
      BY <3>1, <3>2, <3>3, <3>4 DEF EntryFor
  <2>2. traceStart \in Pcs => d[recordedTrace'[1].pc] = d[traceStart]
    <3>1. CASE recordedTrace = <<>>
      BY <1>4, <2>1, <3>1
    <3>2. CASE recordedTrace # <<>>
      <4>1. 1 \in DOMAIN recordedTrace
        BY <1>2, <3>2
      <4> QED
        BY <1>3, <3>2, <4>1 DEF EntriesBalanced
    <3> QED
      BY <3>1, <3>2
  <2>3. ASSUME NEW k \in 1 .. Len(recordedTrace') - 1, Mnemonic(recordedTrace'[k].pc) \in Tracked
        PROVE  d[recordedTrace'[k + 1].pc] = DepthAfter(d, recordedTrace'[k].pc)
    <3>1. k \in 1 .. n /\ k \in DOMAIN recordedTrace
      BY <1>2, <2>1
    <3>2. recordedTrace'[k].pc = recordedTrace[k].pc
      BY <1>3, <3>1
    <3>3. CASE k = n
      <4>1. recordedTrace # <<>>
        BY <3>1
      <4> QED
        BY <1>4, <2>1, <2>3, <3>2, <3>3, <4>1
    <3>4. CASE k # n
      <4>1. k \in 1 .. n - 1 /\ k + 1 \in DOMAIN recordedTrace
        BY <1>2, <3>1, <3>4
      <4>2. recordedTrace'[k + 1].pc = recordedTrace[k + 1].pc
        BY <1>3, <4>1
      <4> QED
        BY <2>3, <3>2, <4>1, <4>2 DEF EntriesBalanced
    <3> QED
      BY <3>3, <3>4
  <2>4. EntriesBalanced(d)'
    BY <1>2, <2>2, <2>3 DEF EntriesBalanced, DepthAfter
  <2>5. GoesOnAt(d, d[Top])'
    BY <1>5, <2>1 DEF GoesOnAt, LastEntry, DepthAfter
  <2> QED
    BY <2>4, <2>5
<1>7. CASE ~Kept(pc)
  <2>1. DOMAIN recordedTrace' = DOMAIN recordedTrace /\ Len(recordedTrace') = n
    BY <1>1, <1>2, <1>7, RecordedEntries
  <2>2. EntriesBalanced(d)'
    <3>1. recordedTrace' # <<>> => recordedTrace # <<>> /\ 1 \in DOMAIN recordedTrace
      BY <1>2, <2>1
    <3>2. \A k \in 1 .. n - 1 : k \in DOMAIN recordedTrace /\ k + 1 \in DOMAIN recordedTrace
      BY <1>2
    <3> QED
      BY <1>2, <1>3, <2>1, <3>1, <3>2 DEF EntriesBalanced, DepthAfter
  <2>3. ASSUME recording', frames' # <<>> PROVE GoesOnAt(d, d[Top])'
    <3>1. ForwardGoto(pc)
      BY <1>1, <1>7, <2>3, RecordShape DEF Kept
    <3>2. d[Top'] = d[pc]
      <4>1. Consumed("GOTO") = 0 /\ Produced("GOTO") = 0
        BY StackNames
      <4>2. d[pc] \in Nat
        BY <1>1 DEF Verified
      <4> QED
        BY <1>5, <3>1, <4>1, <4>2 DEF ForwardGoto, Tracked, DepthAfter
    <3>3. CASE recordedTrace = <<>>
      <4>1. recordedTrace' = <<>>
        BY <1>2, <2>1, <3>3
      <4> QED
        BY <1>2, <1>4, <3>2, <3>3, <4>1 DEF GoesOnAt
    <3>4. CASE recordedTrace # <<>>
      <4>1. recordedTrace' # <<>> /\ n \in DOMAIN recordedTrace
        BY <1>2, <2>1, <3>4
      <4>2. recordedTrace'[n].pc = recordedTrace[n].pc
        BY <1>3, <4>1
      <4> QED
        BY <1>4, <2>1, <3>2, <3>4, <4>1, <4>2 DEF GoesOnAt, LastEntry, DepthAfter
    <3> QED
      BY <3>3, <3>4
  <2> QED
    BY <2>2, <2>3
<1> QED
  BY <1>6, <1>7

-----------------------------------------------------------------------------
(* Steps that add nothing to the recording.                                *)

LEMMA EntriesStayBalanced ==
    ASSUME NEW d, EntriesBalanced(d), UNCHANGED <<recordedTrace, traceStart>>
    PROVE  EntriesBalanced(d)'
BY DEF EntriesBalanced, DepthAfter

LEMMA StubsStayBalanced ==
    ASSUME NEW d, TracesBalanced(d), UNCHANGED traces
    PROVE  TracesBalanced(d)'
BY DEF TracesBalanced

LEMMA NobodyCompiles ==
    ASSUME NEW d, phase' # "compile" PROVE OperandsBalanced(d)'
BY DEF OperandsBalanced

LEMMA NobodyRecordsBalanced ==
    ASSUME NEW d, ~recording' \/ phase' \notin {"check", "dispatch", "execute", "native"}
    PROVE  RecordingBalanced(d)'
BY DEF RecordingBalanced

LEMMA DepthStays ==
    ASSUME NEW d, RecordingBalanced(d), UNCHANGED <<recorderVars, frames>>,
           \/ phase' = phase
           \/ phase \in {"check", "dispatch", "execute"} /\ phase' # "native" /\ frames # <<>>
    PROVE  RecordingBalanced(d)'
BY DEF RecordingBalanced, GoesOnAt, LastEntry, DepthAfter, Top, recorderVars

LEMMA StartsBalanced ==
    ASSUME NEW d, recordedTrace' = <<>>, phase' # "native", frames' # <<>> => traceStart' = Top'
    PROVE  RecordingBalanced(d)' /\ EntriesBalanced(d)'
BY DEF RecordingBalanced, EntriesBalanced, GoesOnAt

LEMMA InitDepth == ASSUME NEW d PROVE Init => DepthInv(d)
<1> SUFFICES ASSUME Init PROVE DepthInv(d)
  OBVIOUS
<1>1. /\ recordedTrace = <<>> /\ traceStart \notin Pcs /\ phase = "check" /\ traces = <<>>
  BY CodeAssumption DEF Init, InitRecorder, InitHandler
<1>2. DOMAIN traces = {}
  BY <1>1
<1> QED
  BY <1>1, <1>2 DEF DepthInv, RecordingBalanced, GoesOnAt, EntriesBalanced, TracesBalanced,
                    OperandsBalanced

-----------------------------------------------------------------------------
(* Compiling.                                                              *)

LEMMA StartCompilingBalanced ==
    ASSUME NEW d, IInv, DepthInv(d), StartsEmpty(d)', StartCompiling
    PROVE  DepthInv(d)'
<1> USE DEF StartCompiling, GetRecording, AbandonRecording
<1>1. EntriesBalanced(d)' /\ TracesBalanced(d)' /\ RecordingBalanced(d)'
  BY EntriesStayBalanced, StubsStayBalanced, NobodyRecordsBalanced DEF DepthInv, handlerVars
<1>2. traceStart \in Pcs /\ recordedTrace # <<>>
  BY TopTyped DEF RecordingDone, IInv, RecordingMayStart, MayStart
<1>3. d[recordedTrace[1].pc] = 0
  BY <1>2 DEF DepthInv, EntriesBalanced, StartsEmpty
<1>4. nativeTrace' = <<>> /\ bailoutCode' = <<>> /\ operandStack' = <<>>
  BY DEF ResetCompilerState
<1>5. NextEntry' = recordedTrace[1] /\ Len(operandStack') = 0 /\ DOMAIN bailoutCode' = {}
  BY <1>4 DEF NextEntry
<1>6. OperandsBalanced(d)'
  BY <1>3, <1>5 DEF OperandsBalanced
<1> QED
  BY <1>1, <1>6 DEF DepthInv

(* What the entry to be compiled finds on the operand stack.               *)
LEMMA NextEntryDepth ==
    ASSUME NEW d, Verified(d), IInv, RecordedInv, OperandsBalanced(d), Compiling,
           NextEntry.mn \in Compilable
    PROVE  /\ NextEntry.pc \in Pcs /\ Faithful(NextEntry)
           /\ Mnemonic(NextEntry.pc) \in Tracked
           /\ Len(operandStack) = d[NextEntry.pc]
           /\ Pops(NextEntry.mn) = Consumed(Mnemonic(NextEntry.pc))
           /\ Len(Pushed(NextEntry.mn)) = Produced(Mnemonic(NextEntry.pc))
           /\ ~Underflows(NextEntry.mn)
<1> DEFINE k == Len(nativeTrace) + 1
<1>1. nativeTrace \in Seq(Blocks) /\ recordedTrace \in Seq(Entries)
  BY DEF IInv, TypeOK, CompilerTypeOK, RecorderTypeOK
<1>2. k \in DOMAIN recordedTrace
  BY <1>1 DEF Compiling
<1>3. NextEntry \in Entries /\ Faithful(NextEntry)
  BY <1>1, <1>2 DEF NextEntry, RecordedInv, EntriesFaithful
<1>4. NextEntry.pc \in Pcs
  BY <1>3 DEF Entries
<1>5. /\ Mnemonic(NextEntry.pc) \in Tracked
      /\ Pops(NextEntry.mn) = Consumed(Mnemonic(NextEntry.pc))
      /\ Len(Pushed(NextEntry.mn)) = Produced(Mnemonic(NextEntry.pc))
  BY <1>3, <1>4, EntryDepth
<1>6. Len(operandStack) = d[NextEntry.pc]
  BY DEF OperandsBalanced, Compiling
<1>7. d[NextEntry.pc] \in Nat /\ d[NextEntry.pc] >= Pops(NextEntry.mn)
  BY <1>4, <1>5 DEF Verified
<1>8. Pops(NextEntry.mn) \in 0 .. 2
  BY <1>5, StackNames
<1>9. ~Underflows(NextEntry.mn)
  BY <1>6, <1>7, <1>8 DEF Underflows
<1> QED
  BY <1>3, <1>4, <1>5, <1>6, <1>9

LEMMA LenOfConcat ==
    ASSUME NEW S, NEW s \in Seq(S), NEW t \in Seq(S)
    PROVE  Len(s \o t) = Len(s) + Len(t)
OBVIOUS

LEMMA OperandsAfter ==
    ASSUME NEW mn, operandStack \in Seq({"reg", "imm"}), ~Underflows(mn)
    PROVE  /\ Len(Popped(mn)) = Len(operandStack) - Pops(mn)
           /\ Len(Popped(mn) \o Pushed(mn)) = Len(Popped(mn)) + Len(Pushed(mn))
<1>1. Pops(mn) \in 0 .. 2
  BY DEF Pops
<1>2. Pushed(mn) \in Seq({"reg", "imm"})
  <2>1. Pushed(mn) \in {<<"reg">>, <<"imm">>, <<>>}
    BY Zenon DEF Pushed
  <2>2. <<"reg">> \in Seq({"reg", "imm"}) /\ <<"imm">> \in Seq({"reg", "imm"})
    OBVIOUS
  <2>3. <<>> \in Seq({"reg", "imm"})
    OBVIOUS
  <2> QED
    BY <2>1, <2>2, <2>3, Zenon
<1>3. Popped(mn) \in Seq({"reg", "imm"}) /\ Len(Popped(mn)) = Len(operandStack) - Pops(mn)
  BY <1>1 DEF Popped, Underflows
<1> QED
  BY <1>2, <1>3, LenOfConcat, Zenon

LEMMA CompileEntryBalanced ==
    ASSUME NEW d, Verified(d), IInv, RecordedInv, DepthInv(d), CompileEntry
    PROVE  DepthInv(d)'
<1> USE DEF CompileEntry, Compiling
<1> DEFINE k == Len(nativeTrace) + 1
           entry == NextEntry
           label == LabelOf(entry)
           rest == Popped(entry.mn)
           pushed == Pushed(entry.mn)
<1>1. EntriesBalanced(d)' /\ TracesBalanced(d)' /\ RecordingBalanced(d)'
  BY EntriesStayBalanced, StubsStayBalanced, NobodyRecordsBalanced
     DEF DepthInv, handlerVars, recorderVars
<1>2. /\ entry.mn \in Compilable
      /\ NeedsBailout(entry, label, innerBranchTargets) => rest = <<>>
      /\ operandStack' = rest \o Pushed(entry.mn)
      /\ nativeTrace' = Append(nativeTrace, BlockFor(entry, label))
      /\ IF NeedsBailout(entry, label, innerBranchTargets)
         THEN bailoutCode' = Append(bailoutCode, StubFor(label))
         ELSE bailoutCode' = bailoutCode
  BY DEF Compile, CompileThrows, CompileBailoutFor
<1>3. /\ entry.pc \in Pcs /\ Faithful(entry)
      /\ Mnemonic(entry.pc) \in Tracked
      /\ Len(operandStack) = d[entry.pc]
      /\ Pops(entry.mn) = Consumed(Mnemonic(entry.pc))
      /\ Len(Pushed(entry.mn)) = Produced(Mnemonic(entry.pc))
      /\ ~Underflows(entry.mn)
  BY <1>2, NextEntryDepth DEF DepthInv
<1>4. /\ nativeTrace \in Seq(Blocks) /\ bailoutCode \in Seq(Stubs)
      /\ operandStack \in Seq({"reg", "imm"}) /\ recordedTrace \in Seq(Entries)
  BY DEF IInv, TypeOK, CompilerTypeOK, RecorderTypeOK
<1>5. /\ Len(rest) = d[entry.pc] - Pops(entry.mn)
      /\ Len(rest \o pushed) = Len(rest) + Len(pushed)
  BY <1>3, <1>4, OperandsAfter
<1>6. Len(operandStack') = DepthAfter(d, entry.pc)
  <2> HIDE DEF rest, pushed, entry, label
  <2>1. Len(operandStack') = Len(rest) + Len(pushed)
    BY <1>2, <1>5, Zenon DEF pushed
  <2> QED
    BY <1>3, <1>5, <2>1 DEF DepthAfter, pushed
<1>7. \A j \in DOMAIN bailoutCode' : d[bailoutCode'[j].label] = 0
  <2>1. \A j \in DOMAIN bailoutCode : d[bailoutCode[j].label] = 0
    BY DEF DepthInv, OperandsBalanced
  <2>2. CASE NeedsBailout(entry, label, innerBranchTargets)
    <3>1. d[label] = 0
      <4>1. d[label] = d[entry.pc] - Pops(entry.mn)
        BY <1>3, <2>2, WayOutDepth DEF NeedsBailout
      <4> QED
        BY <1>2, <1>5, <2>2, <4>1
    <3>2. StubFor(label).label = label
      BY DEF StubFor
    <3> DEFINE stub == StubFor(label)
    <3>3. bailoutCode' = Append(bailoutCode, stub)
      BY <1>2, <2>2
    <3> HIDE DEF stub, label, entry
    <3> QED
      BY <1>4, <2>1, <3>1, <3>2, <3>3 DEF stub
  <2>3. CASE ~NeedsBailout(entry, label, innerBranchTargets)
    BY <1>2, <2>1, <2>3
  <2> QED
    BY <2>2, <2>3
<1>8. ASSUME Len(nativeTrace') < Len(recordedTrace) PROVE Len(operandStack') = d[NextEntry'.pc]
  <2>1. Len(nativeTrace') = k /\ k \in Nat
    BY <1>2, <1>4
  <2>2. k \in 1 .. Len(recordedTrace) - 1
    BY <1>4, <1>8, <2>1
  <2>3. entry = recordedTrace[k] /\ NextEntry' = recordedTrace[k + 1]
    BY <2>1 DEF NextEntry, recorderVars
  <2>4. d[recordedTrace[k + 1].pc] = DepthAfter(d, entry.pc)
    BY <1>3, <2>2, <2>3 DEF DepthInv, EntriesBalanced
  <2> QED
    BY <1>6, <2>3, <2>4
<1>9. OperandsBalanced(d)'
  BY <1>7, <1>8 DEF OperandsBalanced, recorderVars
<1> QED
  BY <1>1, <1>9 DEF DepthInv

LEMMA InstallBalanced ==
    ASSUME NEW d, IInv, DepthInv(d), StartsEmpty(d), Install
    PROVE  DepthInv(d)'
<1> USE DEF Install, Compiled
<1>1. /\ ~recording' /\ UNCHANGED <<recordedTrace, traceStart>> /\ phase = "compile"
      /\ phase' = "dispatch"
  BY DEF IInv, CompilingMayStart, recorderVars
<1>2. RecordingBalanced(d)' /\ EntriesBalanced(d)' /\ OperandsBalanced(d)'
  BY <1>1, EntriesStayBalanced, NobodyRecordsBalanced, NobodyCompiles DEF DepthInv
<1>3. TracesBalanced(d)'
  <2> DEFINE new == Trace(innerBranchTargets)
  <2> SUFFICES ASSUME NEW pc \in DOMAIN traces'
               PROVE  d[pc] = 0 /\ \A k \in DOMAIN traces'[pc].stubs :
                                        d[traces'[pc].stubs[k].label] = 0
    BY DEF TracesBalanced
  <2>1. /\ DOMAIN traces' = DOMAIN traces \cup {traceStart}
        /\ traces'[pc] = IF pc = traceStart THEN new ELSE traces[pc]
    BY DEF InsertTrace
  <2>2. CASE pc = traceStart
    <3>1. d[pc] = 0
      BY <1>1, <2>2 DEF StartsEmpty
    <3>2. traces'[pc].stubs = bailoutCode
      BY <2>1, <2>2 DEF Trace
    <3> QED
      BY <1>1, <3>1, <3>2 DEF DepthInv, OperandsBalanced
  <2>3. CASE pc # traceStart
    BY <2>1, <2>3 DEF DepthInv, TracesBalanced
  <2> QED
    BY <2>2, <2>3
<1> QED
  BY <1>2, <1>3 DEF DepthInv

-----------------------------------------------------------------------------
(* Running.                                                                *)

LEMMA EnterTraceBalanced ==
    ASSUME NEW d, IInv, DepthInv(d), EnterTrace
    PROVE  DepthInv(d)'
<1> USE DEF EnterTrace
<1>1. frames # <<>> /\ d[Top] = 0
  BY DEF IInv, SomeFrame, HasTrace, DepthInv, TracesBalanced
<1>2. RecordingBalanced(d)'
  <2>1. recording => GoesOnAt(d, 0)
    BY <1>1 DEF DepthInv, RecordingBalanced
  <2> QED
    BY <2>1 DEF RecordingBalanced, GoesOnAt, LastEntry, DepthAfter, recorderVars
<1> QED
  BY <1>2, EntriesStayBalanced, StubsStayBalanced, NobodyCompiles DEF DepthInv, recorderVars

LEMMA LeaveTraceBalanced ==
    ASSUME NEW d, IInv, DepthInv(d), LeaveTrace
    PROVE  DepthInv(d)'
<1>1. PICK exitPc \in Pcs :
         /\ ReturnsTo(exitPc)
         /\ IF IsHot(loopRecord', exitPc)
            THEN InitRecording(Top, exitPc)
            ELSE UNCHANGED recorderVars
         /\ frames' = <<exitPc>> \o Tail(frames)
  BY DEF LeaveTrace
<1>2. phase = "native" /\ phase' = "check" /\ UNCHANGED traces
  BY DEF LeaveTrace
<1>3. frames' # <<>> /\ Top' = exitPc
  BY <1>1, <1>2, OnTop, TopTyped DEF IInv, SomeFrame, Top
<1>4. d[exitPc] = 0
  <2>1. native.trace \in DOMAIN traces /\ native.at \in DOMAIN traces[native.trace].stubs
    BY <1>1, <1>2 DEF IInv, NativeInTrace, ReturnsTo, Running
  <2>2. exitPc = Stub.label
    BY <1>1, <2>1 DEF ReturnsTo, ExitPcOf, IInv, StubsMatchExitTable, Stub, Running
  <2> QED
    BY <2>1, <2>2 DEF DepthInv, TracesBalanced, Stub, Running
<1>5. RecordingBalanced(d)' /\ EntriesBalanced(d)'
  <2>1. CASE UNCHANGED recorderVars
    <3>1. recording => GoesOnAt(d, 0)
      BY <1>2 DEF DepthInv, RecordingBalanced
    <3> QED
      BY <1>2, <1>3, <1>4, <2>1, <3>1, EntriesStayBalanced
         DEF DepthInv, RecordingBalanced, GoesOnAt, LastEntry, DepthAfter, recorderVars
  <2>2. CASE recordedTrace' = <<>> /\ traceStart' = exitPc
    BY <1>2, <1>3, <2>2, StartsBalanced
  <2> QED
    BY <1>1, <2>1, <2>2 DEF InitRecording
<1> QED
  BY <1>2, <1>5, StubsStayBalanced, NobodyCompiles DEF DepthInv

LEMMA ProfileBalanced ==
    ASSUME NEW d, IInv, DepthInv(d), Profile
    PROVE  DepthInv(d)'
<1> USE DEF Profile
<1>1. frames # <<>> /\ Top' = Top /\ UNCHANGED traces
  BY DEF IInv, SomeFrame, Top, handlerVars
<1>2. CASE UNCHANGED recorderVars
  BY <1>1, <1>2, DepthStays, EntriesStayBalanced, StubsStayBalanced, NobodyCompiles
     DEF DepthInv, recorderVars
<1>3. CASE recordedTrace' = <<>> /\ traceStart' = Top
  BY <1>1, <1>3, StartsBalanced, StubsStayBalanced, NobodyCompiles DEF DepthInv
<1> QED
  BY <1>2, <1>3 DEF InitRecording

LEMMA NextDepth ==
    ASSUME NEW d, Verified(d), IInv, RecordedInv, StartsEmpty(d), StartsEmpty(d)',
           DepthInv(d), [Next]_vars
    PROVE  DepthInv(d)'
<1>1. CASE StartCompiling
  BY <1>1, StartCompilingBalanced
<1>2. CASE CompileEntry
  BY <1>2, CompileEntryBalanced
<1>3. CASE Install
  BY <1>3, InstallBalanced
<1>4. CASE EnterTrace
  BY <1>4, EnterTraceBalanced
<1>5. CASE LeaveTrace
  BY <1>5, LeaveTraceBalanced
<1>6. CASE Profile
  BY <1>6, ProfileBalanced
<1>7. CASE RecordAndInterpret
  <2>1. /\ phase = "execute" /\ frames # <<>> /\ frames' = EvalInstruction(frames, cond)
        /\ phase' = "check" /\ UNCHANGED traces
    BY <1>7 DEF RecordAndInterpret, IInv, SomeFrame, handlerVars
  <2>2. TracesBalanced(d)' /\ OperandsBalanced(d)'
    BY <2>1, StubsStayBalanced, NobodyCompiles DEF DepthInv
  <2>3. CASE recording
    <3>1. EntriesBalanced(d)' /\ (recording' /\ frames' # <<>> => GoesOnAt(d, d[Top])')
      BY <1>7, <2>1, <2>3, RecordBalanced DEF RecordAndInterpret, DepthInv
    <3>2. RecordingBalanced(d)'
      BY <2>1, <3>1 DEF RecordingBalanced
    <3> QED
      BY <2>2, <3>1, <3>2 DEF DepthInv
  <2>4. CASE ~recording
    BY <1>7, <2>2, <2>4, EntriesStayBalanced, NobodyRecordsBalanced
       DEF RecordAndInterpret, DepthInv, recorderVars
  <2> QED
    BY <2>3, <2>4
<1>8. CASE GiveUpRecording
  <2>1. /\ ~recording' /\ UNCHANGED <<recordedTrace, traceStart, traces>>
        /\ phase' = "dispatch"
    BY <1>8 DEF GiveUpRecording, AbandonRecording, handlerVars
  <2> QED
    BY <2>1, EntriesStayBalanced, StubsStayBalanced, NobodyCompiles, NobodyRecordsBalanced
       DEF DepthInv
<1>9. CASE CompileFails \/ InstallFails \/ GoWild \/ RecordFails
  <2>1. /\ UNCHANGED <<recordedTrace, traceStart, traces>>
        /\ phase' \in {"aborted", "wild"}
    BY <1>9 DEF CompileFails, InstallFails, GoWild, RecordFails, recorderVars, handlerVars
  <2> QED
    BY <2>1, EntriesStayBalanced, StubsStayBalanced, NobodyCompiles, NobodyRecordsBalanced
       DEF DepthInv
<1>10. CASE KeepGoing \/ RunNative \/ LinkTraces
  <2>1. /\ UNCHANGED <<recorderVars, frames, traces>> /\ phase' # "compile"
        /\ \/ phase' = phase
           \/ phase = "check" /\ phase' = "dispatch" /\ frames # <<>>
    BY <1>10 DEF KeepGoing, RunNative, LinkTraces, handlerVars
  <2> QED
    BY <2>1, DepthStays, EntriesStayBalanced, StubsStayBalanced, NobodyCompiles
       DEF DepthInv, recorderVars
<1>11. CASE UNCHANGED vars
  <2>1. UNCHANGED <<recorderVars, frames, traces, phase>>
    BY <1>11 DEF vars, handlerVars
  <2>2. OperandsBalanced(d)'
    BY <1>11 DEF DepthInv, OperandsBalanced, NextEntry, vars, recorderVars, compilerVars
  <2> QED
    BY <2>1, <2>2, DepthStays, EntriesStayBalanced, StubsStayBalanced DEF DepthInv, recorderVars
<1> QED
  BY <1>1, <1>2, <1>3, <1>4, <1>5, <1>6, <1>7, <1>8, <1>9, <1>10, <1>11 DEF Next, StayStopped

LEMMA BalancedIsDeepEnough ==
    ASSUME NEW d, Verified(d), IInv, RecordedInv, DepthInv(d)
    PROVE  NeverUnderflows
<1> SUFFICES ASSUME Compiling PROVE ~Underflows(NextEntry.mn)
  BY DEF NeverUnderflows
<1>1. CASE NextEntry.mn \in Compilable
  BY <1>1, NextEntryDepth DEF DepthInv
<1>2. CASE NextEntry.mn \notin Compilable
  <2>1. Pops(NextEntry.mn) = 0
    BY <1>2 DEF Pops, Compilable, Arithmetic, Divisions, JumpFor
  <2>2. Len(operandStack) \in Nat
    BY DEF IInv, TypeOK, CompilerTypeOK
  <2> QED
    BY <2>1, <2>2 DEF Underflows
<1> QED
  BY <1>1, <1>2

(* popAndFree never pops an empty stack, in any program whose operand      *)
(* stack the verifier can follow, as long as only what starts between two  *)
(* statements is compiled.                                                 *)
THEOREM StackNeverUnderflows ==
    \A d : Verified(d) => (Spec /\ []StartsEmpty(d) => []NeverUnderflows)
<1> SUFFICES ASSUME NEW d, Verified(d)
             PROVE  Spec /\ []StartsEmpty(d) => []NeverUnderflows
  OBVIOUS
<1>1. Init => DepthInv(d)
  BY InitDepth
<1>2. IInv /\ RecordedInv /\ StartsEmpty(d) /\ StartsEmpty(d)' /\ DepthInv(d) /\ [Next]_vars
        => DepthInv(d)'
  BY NextDepth
<1>3. IInv /\ RecordedInv /\ DepthInv(d) => NeverUnderflows
  BY BalancedIsDeepEnough
<1> QED
  BY <1>1, <1>2, <1>3, RecordedInvariance, PTL DEF Spec

-----------------------------------------------------------------------------
(* Labels.                                                                 *)

(* The labels record() makes for an instruction.                           *)
LEMMA RecordMakesLabels ==
    ASSUME NEW pc \in Pcs, Record(pc)
    PROVE  /\ innerBranchTargets \cup outerBranchTargets
                  \subseteq innerBranchTargets' \cup outerBranchTargets'
           /\ FlipTargets(pc, TRUE) \cup FlipTargets(pc, FALSE)
                  \subseteq innerBranchTargets' \cup outerBranchTargets'
           /\ Kept(pc) => GotoTargets(pc, TRUE) \cup GotoTargets(pc, FALSE)
                  \subseteq innerBranchTargets' \cup outerBranchTargets'
<1>1. CASE RecordForwardGoto(pc)
  BY <1>1 DEF RecordForwardGoto, Keep, Kept
<1>2. CASE RecordRecursiveCall(pc)
  BY <1>2 DEF RecordRecursiveCall, Keep, Kept
<1>3. CASE RecordEntry(pc)
  BY <1>3 DEF RecordEntry, Keep
<1> QED
  BY <1>1, <1>2, <1>3 DEF Record

LEMMA RecordKeepsLabels ==
    ASSUME NEW pc \in Pcs, RecorderTypeOK, LastEntryIsBranch, EntriesFaithful, LabelsMade,
           Record(pc)
    PROVE  LabelsMade'
<1> DEFINE made == innerBranchTargets' \cup outerBranchTargets'
<1>1. ~RecordThrows(pc) /\ recordedTrace \in Seq(Entries)
  BY RecordShape DEF RecorderTypeOK
<1> SUFFICES ASSUME NEW k \in DOMAIN recordedTrace',
                    Mnemonic(recordedTrace'[k].pc) \in NotedBranches \cup {"GOTO"}
             PROVE  \/ lastInstructionWasBranch' /\ k = Len(recordedTrace')
                    \/ LabelOf(recordedTrace'[k]) \in made
  BY DEF LabelsMade, LabelOf
<1>2. CASE k \notin DOMAIN recordedTrace
  <2>1. Kept(pc) /\ k = Len(recordedTrace') /\ recordedTrace'[k] = EntryFor(pc)
    BY <1>2, RecordedEntries
  <2>2. CASE Mnemonic(pc) \in NotedBranches
    BY <2>1, <2>2, RecordShape
  <2>3. CASE Mnemonic(pc) = "GOTO"
    <3>1. LabelOf(EntryFor(pc)) = Target(pc)
      BY DEF EntryFor, LabelOf, Target
    <3>2. Target(pc) \in GotoTargets(pc, TRUE) \cup GotoTargets(pc, FALSE)
      BY <2>3 DEF GotoTargets
    <3> QED
      BY <2>1, <3>1, <3>2, RecordMakesLabels
  <2>4. recordedTrace'[k].pc = pc
    BY <2>1 DEF EntryFor
  <2> QED
    BY <2>2, <2>3, <2>4
<1>3. CASE k \in DOMAIN recordedTrace /\ (lastInstructionWasBranch => k # Len(recordedTrace))
  <2>1. recordedTrace'[k] = recordedTrace[k]
    BY <1>1, <1>3, RecordedEntries, FlipChangesLast
  <2>2. LabelOf(recordedTrace[k]) \in innerBranchTargets \cup outerBranchTargets
    BY <1>3, <2>1 DEF LabelsMade
  <2> QED
    BY <2>1, <2>2, RecordMakesLabels
<1>4. CASE lastInstructionWasBranch /\ k = Len(recordedTrace)
  <2>1. k \in DOMAIN recordedTrace
    BY <1>1, <1>4, FlipChangesLast
  <2>2. recordedTrace'[k] = LastEntryFlipped(pc)
    BY <1>1, <1>4, <2>1, RecordedEntries, FlipChangesLast
  <2>3. LabelOf(LastEntryFlipped(pc)) \in FlipTargets(pc, TRUE) \cup FlipTargets(pc, FALSE)
    BY <1>4 DEF FlipTargets
  <2> QED
    BY <2>2, <2>3, RecordMakesLabels
<1> QED
  BY <1>2, <1>3, <1>4

LEMMA LabelsStay ==
    ASSUME LabelsMade, FlagLeftOver,
           UNCHANGED <<lastInstructionWasBranch, recordedTrace, innerBranchTargets,
                       outerBranchTargets>>
    PROVE  LabelsMade' /\ FlagLeftOver'
BY DEF LabelsMade, FlagLeftOver, LabelOf

LEMMA NoLabelsYet ==
    ASSUME recordedTrace' = <<>>, lastInstructionWasBranch' = FALSE
    PROVE  LabelsMade' /\ FlagLeftOver'
<1>1. DOMAIN recordedTrace' = {} /\ ~lastInstructionWasBranch'
  OBVIOUS
<1> QED
  BY <1>1 DEF LabelsMade, FlagLeftOver

LEMMA RecordedLabels ==
    ASSUME IInv, RecordedInv, LabelsInv, RecordAndInterpret
    PROVE  LabelsMade' /\ FlagLeftOver'
<1> USE DEF RecordAndInterpret
<1>1. Top \in Pcs /\ RecorderTypeOK /\ LastEntryIsBranch
  BY TopTyped DEF IInv, SomeFrame, TypeOK
<1>2. CASE ~recording
  BY <1>2, LabelsStay DEF LabelsInv, recorderVars
<1>3. CASE recording
  <2>1. LabelsMade'
    BY <1>1, <1>3, RecordKeepsLabels DEF LabelsInv, RecordedInv
  <2>2. FlagLeftOver'
    <3>1. CASE Kept(Top)
      BY <1>1, <1>3, <3>1, RecordedEntries DEF FlagLeftOver
    <3>2. CASE ~Kept(Top)
      BY <1>1, <1>3, <3>2, RecordShape DEF FlagLeftOver
    <3> QED
      BY <3>1, <3>2
  <2> QED
    BY <2>1, <2>2
<1> QED
  BY <1>2, <1>3

(* A way out is made together with the block that jumps to it.             *)
LEMMA CompileEntryLabels ==
    ASSUME IInv, LabelsInv, CompileEntry
    PROVE  LabelsInv'
<1> USE DEF CompileEntry, Compiling
<1> DEFINE label == LabelOf(NextEntry)
           block == BlockFor(NextEntry, label)
           stub == StubFor(label)
           n == Len(nativeTrace) + 1
<1>1. LabelsMade' /\ FlagLeftOver'
  BY LabelsStay DEF LabelsInv, recorderVars
<1>2. nativeTrace \in Seq(Blocks) /\ bailoutCode \in Seq(Stubs)
  BY DEF IInv, TypeOK, CompilerTypeOK
<1>3. /\ nativeTrace' = Append(nativeTrace, block)
      /\ IF NeedsBailout(NextEntry, label, innerBranchTargets)
         THEN bailoutCode' = Append(bailoutCode, stub)
         ELSE bailoutCode' = bailoutCode
  BY DEF Compile, CompileBailoutFor
<1>4. NeedsBailout(NextEntry, label, innerBranchTargets) =>
          block.jump # "none" /\ block.label = label
  <2>1. \A mn \in DOMAIN JumpFor : JumpFor[mn] # "none"
    BY DEF JumpFor
  <2> QED
    BY <2>1 DEF NeedsBailout, BlockFor
<1>5. stub.label = label
  BY DEF StubFor
<1> HIDE DEF block, stub, label
<1>6. /\ n \in DOMAIN nativeTrace' /\ nativeTrace'[n] = block
      /\ \A k \in DOMAIN nativeTrace :
            k \in DOMAIN nativeTrace' /\ nativeTrace'[k] = nativeTrace[k]
  BY <1>2, <1>3
<1>7. \A j \in DOMAIN bailoutCode : \E k \in DOMAIN nativeTrace' :
         nativeTrace'[k].jump # "none" /\ nativeTrace'[k].label = bailoutCode[j].label
  BY <1>6 DEF LabelsInv, StubsAreOfJumps
<1>8. StubsAreOfJumps'
  <2>1. CASE NeedsBailout(NextEntry, label, innerBranchTargets)
    <3>1. \A j \in DOMAIN bailoutCode' :
             \/ j \in DOMAIN bailoutCode /\ bailoutCode'[j] = bailoutCode[j]
             \/ bailoutCode'[j] = stub
      BY <1>2, <1>3, <2>1
    <3> QED
      BY <1>4, <1>5, <1>6, <1>7, <2>1, <3>1 DEF StubsAreOfJumps
  <2>2. CASE ~NeedsBailout(NextEntry, label, innerBranchTargets)
    BY <1>3, <1>7, <2>2 DEF StubsAreOfJumps
  <2> QED
    BY <2>1, <2>2
<1> QED
  BY <1>1, <1>8 DEF LabelsInv

LEMMA InitLabels == Init => LabelsInv
<1> SUFFICES ASSUME Init PROVE LabelsInv
  OBVIOUS
<1>1. /\ recordedTrace = <<>> /\ phase = "check"
      /\ lastInstructionWasBranch \in UninitFlags /\ lastInstructionWasBranch \in BOOLEAN
  BY RecorderAssumption DEF Init, InitRecorder
<1>2. DOMAIN recordedTrace = {} /\ phase # "compile"
  BY <1>1
<1>3. FlagLeftOver
  BY <1>1, Zenon DEF FlagLeftOver
<1> QED
  BY <1>2, <1>3 DEF LabelsInv, LabelsMade, StubsAreOfJumps

LEMMA NextLabels ==
    ASSUME IInv, RecordedInv, LabelsInv, [Next]_vars
    PROVE  LabelsInv'
<1> DEFINE Recorder == UNCHANGED <<lastInstructionWasBranch, recordedTrace,
                                   innerBranchTargets, outerBranchTargets>>
<1>1. CASE CompileEntry
  BY <1>1, CompileEntryLabels
<1>2. CASE RecordAndInterpret
  BY <1>2, RecordedLabels DEF LabelsInv, StubsAreOfJumps, RecordAndInterpret
<1>3. CASE LeaveTrace \/ Profile
  <2>1. Recorder \/ (recordedTrace' = <<>> /\ lastInstructionWasBranch' = FALSE)
    BY <1>3 DEF LeaveTrace, Profile, InitRecording, recorderVars
  <2>2. phase' # "compile"
    BY <1>3 DEF LeaveTrace, Profile
  <2> QED
    BY <2>1, <2>2, LabelsStay, NoLabelsYet DEF LabelsInv, StubsAreOfJumps
<1>4. CASE StartCompiling
  <2>1. Recorder /\ bailoutCode' = <<>>
    BY <1>4 DEF StartCompiling, GetRecording, AbandonRecording, ResetCompilerState
  <2> QED
    BY <2>1, LabelsStay DEF LabelsInv, StubsAreOfJumps
<1>5. CASE \/ KeepGoing \/ GiveUpRecording \/ CompileFails \/ InstallFails \/ Install
           \/ EnterTrace \/ GoWild \/ RecordFails
  <2>1. Recorder /\ phase' # "compile"
    BY <1>5 DEF KeepGoing, GiveUpRecording, AbandonRecording, CompileFails, InstallFails,
       Install, EnterTrace, GoWild, RecordFails, recorderVars
  <2> QED
    BY <2>1, LabelsStay DEF LabelsInv, StubsAreOfJumps
<1>6. CASE RunNative \/ LinkTraces
  <2>1. Recorder /\ phase' # "compile"
    BY <1>6 DEF RunNative, LinkTraces, recorderVars
  <2> QED
    BY <2>1, LabelsStay DEF LabelsInv, StubsAreOfJumps
<1>7. CASE UNCHANGED vars
  <2>1. Recorder
    BY <1>7 DEF vars, recorderVars
  <2>2. StubsAreOfJumps'
    BY <1>7 DEF vars, compilerVars, LabelsInv, StubsAreOfJumps
  <2> QED
    BY <2>1, <2>2, LabelsStay DEF LabelsInv
<1> QED
  BY <1>1, <1>2, <1>3, <1>4, <1>5, <1>6, <1>7 DEF Next, StayStopped

-----------------------------------------------------------------------------
(* Throws.                                                                 *)

(* An IFEQ stands in a recording as the program has it.                    *)
LEMMA RecordFailsFor ==
    ASSUME IInv, RecordedInv, LabelsInv, RecordFails
    PROVE  phase = "execute" /\ recording /\ RecordReason
<1> USE DEF RecordFails
<1>1. recordedTrace \in Seq(Entries) /\ LastEntryIsBranch
  BY DEF IInv, TypeOK, RecorderTypeOK
<1>2. CASE lastInstructionWasBranch /\ recordedTrace = <<>>
  BY <1>2 DEF LabelsInv, FlagLeftOver, RecordReason
<1>3. CASE /\ recordedTrace # <<>> /\ lastInstructionWasBranch
           /\ MustFlip(Top) /\ LastEntry.mn \notin DOMAIN FlipOf
  <2>1. LastEntry.mn = Mnemonic(LastEntry.pc) /\ LastEntry.mn = "IFEQ"
    BY <1>1, <1>3 DEF LastEntryIsBranch, NotedBranches
  <2>2. Faithful(LastEntry)
    BY <1>1, <1>3 DEF RecordedInv, EntriesFaithful, LastEntry
  <2>3. LastEntry = EntryFor(LastEntry.pc)
    BY <1>3, <2>1, <2>2 DEF Faithful
  <2>4. LabelOf(LastEntry) = Target(LastEntry.pc)
    BY <2>3 DEF LabelOf, Target, EntryFor
  <2> QED
    BY <1>3, <2>1, <2>4 DEF MustFlip, RecordReason
<1> QED
  BY <1>2, <1>3 DEF RecordThrows

(* A label assemble() needs was made, but for a branch record() does not   *)
(* note, and a branch in the last place, which branchFlip never looks at.  *)
LEMMA LabelForgottenFor ==
    ASSUME IInv, RecordedInv, LabelsInv, Compiled,
           NEW label \in UsedLabels, label \notin innerBranchTargets \cup outerBranchTargets
    PROVE  AssembleReason
<1> USE DEF Compiled
<1>1. recordedTrace \in Seq(Entries) /\ nativeTrace \in Seq(Blocks)
  BY DEF IInv, TypeOK, RecorderTypeOK, CompilerTypeOK
<1>2. PICK k \in DOMAIN nativeTrace : nativeTrace[k].jump # "none" /\ nativeTrace[k].label = label
  BY DEF UsedLabels, LabelsInv, StubsAreOfJumps
<1> DEFINE entry == recordedTrace[k]
<1>3. /\ k \in DOMAIN recordedTrace /\ entry \in Entries /\ Faithful(entry)
      /\ entry.mn \in DOMAIN JumpFor /\ LabelOf(entry) = label
  BY <1>2, BlockOfEntry
<1>4. entry.pc \in Pcs /\ entry.mn \in Branches \cup {"GOTO"}
  BY <1>3, JumpNames DEF Entries
<1>5. CASE lastInstructionWasBranch /\ k = Len(recordedTrace)
  <2>1. LastEntry = entry /\ recordedTrace # <<>>
    BY <1>3, <1>5 DEF LastEntry
  <2>2. entry.mn \in NotedBranches
    BY <1>5, <2>1 DEF IInv, LastEntryIsBranch
  <2>3. entry.mn \in Branches
    BY <2>2, BranchNames, FlipNames DEF NotedBranches
  <2> QED
    BY <2>1, <2>3 DEF AssembleReason
<1>6. CASE Mnemonic(entry.pc) \notin NotedBranches \cup {"GOTO"}
  <2>1. entry.mn = Mnemonic(entry.pc) /\ entry.mn # "GOTO"
    BY <1>3, <1>4, <1>6, JumpingEntry DEF NotedBranches
  <2>2. entry.mn = "IF_ICMPEQ"
    BY <1>3, <1>6, <2>1 DEF JumpFor, NotedBranches, FlipOf
  <2> QED
    BY <1>3, <2>1, <2>2 DEF AssembleReason
<1> QED
  BY <1>3, <1>5, <1>6 DEF LabelsInv, LabelsMade

LEMMA InstallFailsFor ==
    ASSUME IInv, RecordedInv, LabelsInv, InstallFails
    PROVE  Compiled /\ AssembleReason
<1>1. Compiled /\ (AssembleThrows(innerBranchTargets, outerBranchTargets) \/ ~ExitIdsAreNew)
  BY DEF InstallFails
<1>2. ExitIdsAreNew
  BY <1>1 DEF Compiled, IInv, ExitTableDense, ExitIdsAreNew
<1>3. CASE \E label \in UsedLabels : label \notin innerBranchTargets \cup outerBranchTargets
  BY <1>1, <1>3, LabelForgottenFor
<1>4. CASE \E label \in innerBranchTargets \cup outerBranchTargets :
             \E p, q \in BoundAt(label, innerBranchTargets) : p # q
  BY <1>1, <1>4 DEF AssembleReason
<1> QED
  BY <1>1, <1>2, <1>3, <1>4 DEF AssembleThrows

(* The registers held are operands, and no more than there are.            *)
LEMMA HeldBound ==
    ASSUME operandStack \in Seq({"reg", "imm"})
    PROVE  RegistersHeld \in Nat /\ RegistersHeld <= Len(operandStack)
<1> DEFINE held == {k \in DOMAIN operandStack : operandStack[k] = "reg"}
<1>1. Len(operandStack) \in Nat /\ DOMAIN operandStack = 1 .. Len(operandStack)
  OBVIOUS
<1>2. IsFiniteSet(1 .. Len(operandStack)) /\ Cardinality(1 .. Len(operandStack)) = Len(operandStack)
  BY <1>1, FS_Interval
<1>3. held \in SUBSET (1 .. Len(operandStack))
  BY <1>1
<1>4. IsFiniteSet(held) /\ Cardinality(held) <= Cardinality(1 .. Len(operandStack))
  BY ONLY <1>2, <1>3, FS_Subset
<1>5. Cardinality(held) \in Nat
  BY ONLY <1>4, FS_CardinalityType
<1> QED
  BY <1>2, <1>4, <1>5 DEF RegistersHeld

LEMMA CompileFailsFor ==
    ASSUME IInv, NeverUnderflows, CompileFails
    PROVE  Compiling /\ CompileReason
<1>1. RegistersHeld \in Nat /\ RegistersHeld <= Len(operandStack)
  BY HeldBound DEF IInv, TypeOK, CompilerTypeOK
<1>2. ASSUME NEW mn, OutOfRegisters(mn)
      PROVE  mn \in Loads \cup Arithmetic /\ Len(operandStack) >= NumRegisters
  <2>1. RegistersHeld >= NumRegisters /\ mn \in Loads \cup Arithmetic
    BY <1>2 DEF OutOfRegisters, Arithmetic
  <2>2. Len(operandStack) \in Nat
    BY DEF IInv, TypeOK, CompilerTypeOK
  <2> QED
    BY <1>1, <2>1, <2>2, CompilerAssumption
<1> QED
  BY <1>2 DEF CompileFails, CompileThrows, NeverUnderflows, CompileReason, NeedsBailout

(* The process ends in a throw for the listed reasons alone, in any program*)
(* whose operand stack the verifier can follow, as long as only what starts*)
(* between two statements is compiled.                                     *)
THEOREM AbortsAccountedFor ==
    \A d : Verified(d) => (Spec /\ []StartsEmpty(d) => AbortsHaveReason)
<1> SUFFICES ASSUME NEW d, Verified(d)
             PROVE  Spec /\ []StartsEmpty(d) => AbortsHaveReason
  OBVIOUS
<1> DEFINE Accounted ==
        phase' = "aborted" /\ phase # "aborted" =>
            \/ phase = "execute" /\ recording /\ RecordReason
            \/ Compiling /\ CompileReason
            \/ Compiled /\ AssembleReason
<1>1. Init => LabelsInv
  BY InitLabels
<1>2. IInv /\ RecordedInv /\ LabelsInv /\ [Next]_vars => LabelsInv'
  BY NextLabels
<1>3. IInv /\ RecordedInv /\ LabelsInv /\ NeverUnderflows /\ [Next]_vars => [Accounted]_vars
  <2> SUFFICES ASSUME IInv, RecordedInv, LabelsInv, NeverUnderflows, Next,
                      phase' = "aborted", phase # "aborted"
               PROVE  Accounted
    OBVIOUS
  <2>1. RecordFails \/ CompileFails \/ InstallFails
    BY DEF Next, KeepGoing, GiveUpRecording, StartCompiling, CompileEntry, Install, EnterTrace,
           RunNative, GoWild, LinkTraces, LeaveTrace, Profile, RecordAndInterpret, StayStopped,
           vars
  <2> QED
    BY <2>1, RecordFailsFor, CompileFailsFor, InstallFailsFor
<1>4. Spec /\ []StartsEmpty(d) => []NeverUnderflows
  BY StackNeverUnderflows
<1> QED
  BY <1>1, <1>2, <1>3, <1>4, RecordedInvariance, PTL DEF Spec, AbortsHaveReason
=============================================================================
