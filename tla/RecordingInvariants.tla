------------------------- MODULE RecordingInvariants -------------------------
(***************************************************************************)
(* What a recording says about the program, from its first entry to the    *)
(* installed trace: inductive invariants behind RecordingIsAPath,          *)
(* JumpsAreBound, GuardsAgree and the refinement of the interpreter.       *)
(***************************************************************************)
EXTENDS RunTimeProperties

(* One entry.  It is an instruction as the program has it, or a branch     *)
(* turned round, and never one of the jumps a recording leaves out.        *)
TurnedRound(pc) == [pc |-> pc, mn |-> FlipOf[Mnemonic(pc)], arg |-> 3]

Faithful(entry) ==
    /\ ~ForwardGoto(entry.pc)
    /\ \/ entry = EntryFor(entry.pc)
       \/ Mnemonic(entry.pc) \in DOMAIN FlipOf /\ entry = TurnedRound(entry.pc)

EntriesFaithful == \A k \in DOMAIN recordedTrace : Faithful(recordedTrace[k])

(* The first entry is the instruction the recording was started for.       *)
FirstIsStart ==
    traceStart \in Pcs /\ ~ForwardGoto(traceStart) =>
        IF recordedTrace # <<>> THEN recordedTrace[1].pc = traceStart
        ELSE recording =>
                frames # <<>> /\ Top = traceStart /\ phase \notin {"compile", "native", "wild"}

HeaderKnown == traceStart \in Pcs => loopHeader \in Pcs

(* A label inside the trace is its start, or a branch jumps there that     *)
(* will not be turned round any more.                                      *)
InnerTargetsRecorded ==
    \A label \in innerBranchTargets :
        \/ label = traceStart
        \/ \E k \in DOMAIN recordedTrace :
             /\ lastInstructionWasBranch => k # Len(recordedTrace)
             /\ recordedTrace[k].mn \in Branches /\ LabelOf(recordedTrace[k]) = label

(* The blocks made so far are those of the first entries.                  *)
BlocksAreEntries ==
    phase = "compile" =>
        \A k \in DOMAIN nativeTrace :
            LET entry == recordedTrace[k]
            IN  /\ nativeTrace[k] = BlockFor(entry, LabelOf(entry))
                /\ entry.mn \in Compilable
                /\ NeedsBailout(entry, LabelOf(entry), innerBranchTargets) =>
                     \E j \in DOMAIN bailoutCode : bailoutCode[j].label = LabelOf(entry)

(* A label is made for every jump recorded, once branchFlip has looked at  *)
(* it; a branch record() does not note has none.                           *)
LabelsMade ==
    \A k \in DOMAIN recordedTrace :
        \/ lastInstructionWasBranch /\ k = Len(recordedTrace)
        \/ Mnemonic(recordedTrace[k].pc) \in NotedBranches \cup {"GOTO"} =>
                LabelOf(recordedTrace[k]) \in innerBranchTargets \cup outerBranchTargets

FlagLeftOver ==
    lastInstructionWasBranch /\ recordedTrace = <<>> => TRUE \in UninitFlags

(* Every way out was made for a jump.                                      *)
StubsAreOfJumps ==
    phase = "compile" =>
        \A j \in DOMAIN bailoutCode : \E k \in DOMAIN nativeTrace :
            nativeTrace[k].jump # "none" /\ nativeTrace[k].label = bailoutCode[j].label

LabelsInv == LabelsMade /\ FlagLeftOver /\ StubsAreOfJumps

RecordedInv ==
    /\ EntriesFaithful /\ FirstIsStart /\ HeaderKnown
    /\ InnerTargetsRecorded /\ BlocksAreEntries

(* What javac does to jumps: one that leads back never leads to a jump     *)
(* forward (Code.resolve goes to where the second one goes).  A trace      *)
(* started at a forward GOTO would have no block of that pc.               *)
GotosAreThreaded ==
    \A pc \in Pcs :
        Mnemonic(pc) = "GOTO" /\ ~ForwardGoto(pc) => ~ForwardGoto(Target(pc))

(* A program none of whose tests is one compile() gets wrong or record()   *)
(* does not note: no unflipped IFNE, no IF_ICMPEQ.                         *)
NoEqualityTests == \A pc \in Pcs : Mnemonic(pc) \notin {"IFNE", "IF_ICMPEQ"}

-----------------------------------------------------------------------------
(* Two entries in a row.  Behind a branch that branchFlip has looked at    *)
(* comes the way its jump does not lead.                                   *)
Onwards(entry) ==
    IF Mnemonic(entry.pc) \in NotedBranches
    THEN {PastGotos[Way(entry.pc, entry # EntryFor(entry.pc))]}
    ELSE Successors(entry.pc)

HasReturned(entry) == Mnemonic(entry.pc) \in Returns

EntriesInOrder ==
    \A k \in 1 .. Len(recordedTrace) - 1 :
        HasReturned(recordedTrace[k]) \/ recordedTrace[k + 1].pc \in Onwards(recordedTrace[k])

BeginsAtStart ==
    recordedTrace # <<>> /\ traceStart \in Pcs => recordedTrace[1].pc = PastGotos[traceStart]

(* The program is where the recording would go on, until branchFlip looks  *)
(* on either way of a branch.                                              *)
RecordingKeepsUp ==
    recording /\ frames # <<>> /\ phase \in {"check", "dispatch", "execute"} =>
        IF recordedTrace = <<>>
        THEN traceStart \in Pcs => PastGotos[Top] = PastGotos[traceStart]
        ELSE \/ HasReturned(LastEntry)
             \/ lastInstructionWasBranch /\ \E holds \in BOOLEAN : Top = Way(LastEntry.pc, holds)
             \/ ~lastInstructionWasBranch /\ PastGotos[Top] \in Onwards(LastEntry)

PathInv == EntriesInOrder /\ BeginsAtStart /\ RecordingKeepsUp

-----------------------------------------------------------------------------
(* From a block of a trace control gets where the program gets from the    *)
(* instruction at its pc, whatever the tested relation.                    *)
PlainMnemonic(mn) == mn \notin Branches \cup {"GOTO", "INVOKESTATIC"} \cup Returns

BlockFollows(code, k) ==
    LET block == code[k]
        Behind(pc) == k < Len(code) /\ code[k + 1].pc = PastGotos[pc]
    IN  /\ block.pc \in Pcs /\ ~ForwardGoto(block.pc)
        /\ \/ /\ block.jump = "none"
              /\ PlainMnemonic(Mnemonic(block.pc)) /\ Behind(After(block.pc))
           \/ /\ block.jump = "jmp"
              /\ Mnemonic(block.pc) = "GOTO" /\ block.label = Target(block.pc)
           \/ /\ block.jump \in DOMAIN JumpsOn /\ Mnemonic(block.pc) \in Branches
              /\ \A holds \in BOOLEAN :
                    LET way == Way(block.pc, holds)
                    IN  \/ Taken(block, holds) = {TRUE} /\ block.label = way
                        \/ Taken(block, holds) = {FALSE} /\ Behind(way)

TraceFollows(pc, code) ==
    /\ code[1].pc = PastGotos[pc]
    /\ \A k \in DOMAIN code : BlockFollows(code, k)

(* No trace runs into its own stubs.                                       *)
TracesEndInJump ==
    \A pc \in DOMAIN traces :
        LET code == traces[pc].code IN code[Len(code)].jump = "jmp"

TracesFollow == \A pc \in DOMAIN traces : TraceFollows(pc, traces[pc].code)
=============================================================================
