---------------------------- MODULE TraceHandler ----------------------------
(***************************************************************************)
(* The trace handler owns the installed traces and the table of exits, and *)
(* runs native code: a trace falls from block to block until a jump leaves *)
(* it; the stub at the exit loads the exit's id; handleTraceExit then goes *)
(* on in the trace that starts at that exit or, if there is none, returns  *)
(* the id to runTrace.                                                     *)
(***************************************************************************)
EXTENDS Compiler

VARIABLES
    traces,       \* [start pc -> Trace], of the pcs that have one
    exitPoints,   \* [id -> pc], the exits of every installed trace
    native        \* where native code is: [trace, seg, at]

handlerVars == <<traces, exitPoints, native>>

InBlock(start, k) == [trace |-> start, seg |-> "block", at |-> k]
InStub(start, k)  == [trace |-> start, seg |-> "stub", at |-> k]
NotNative == [trace |-> EntryPc(MainMethod), seg |-> "none", at |-> 0]

InitHandler ==
    /\ traces = <<>> /\ exitPoints = <<>>   \* the empty functions
    /\ native = NotNative

HasTrace(pc) == pc \in DOMAIN traces

(* The assertion of insertTrace: "Cannot have more than one same exitId".  *)
ExitIdsAreNew == DOMAIN newExitPoints \cap DOMAIN exitPoints = {}

InsertTrace(pc, trace) ==
    /\ traces' = [p \in DOMAIN traces \cup {pc} |-> IF p = pc THEN trace ELSE traces[p]]
    /\ exitPoints' = [id \in DOMAIN exitPoints \cup DOMAIN newExitPoints |->
                        IF id \in DOMAIN newExitPoints
                        THEN newExitPoints[id] ELSE exitPoints[id]]

-----------------------------------------------------------------------------
(* Native code.  The processor is external; what it executes is not.       *)
Running == traces[native.trace]
Block == Running.code[native.at]
Stub == Running.stubs[native.at]

(* Whether the block's jump is taken, cond being whether the relation that *)
(* the byte code at its pc tests holds: for the same relation or its       *)
(* opposite cond decides, for any other the operands might go either way.  *)
Taken(block, cond) ==
    CASE block.jump = "none" -> {FALSE}
      [] block.jump = "jmp"  -> {TRUE}
      [] OTHER ->
           LET tested == RelationOf[Mnemonic(block.pc)]
               jumpsOn == JumpsOn[block.jump]
           IN  IF jumpsOn = tested THEN {cond}
               ELSE IF jumpsOn = Opposite[tested] THEN {~cond} ELSE BOOLEAN

(* Behind the last block come the stubs, and control falls into the first. *)
FallThrough ==
    IF native.at < Len(Running.code)
    THEN {InBlock(native.trace, native.at + 1)}
    ELSE IF Running.stubs # <<>> THEN {InStub(native.trace, 1)} ELSE {}

JumpTo(label) ==
    {InBlock(native.trace, k) : k \in {k \in DOMAIN Running.code :
                    Running.code[k].pc = label /\ label \in Running.inner}}
    \cup {InStub(native.trace, k) : k \in {k \in DOMAIN Running.stubs :
                    Running.stubs[k].label = label}}

(* Where the block leads: one place in a trace assemble() accepted, unless *)
(* a label in use was never bound, or there is no stub to fall into.       *)
NextPlaces(taken) == IF taken THEN JumpTo(Block.label) ELSE FallThrough

RunBlock(cond) ==
    /\ native.seg = "block"
    /\ \E taken \in Taken(Block, cond) : native' \in NextPlaces(taken)

(* What comes next is whatever memory holds: nothing can be said of it.    *)
RunsWild(cond) ==
    /\ native.seg = "block"
    /\ \E taken \in Taken(Block, cond) : NextPlaces(taken) = {}

(* tracesArray[id], built when runTrace was called; no trace is installed  *)
(* while native code runs, so it still agrees with traces.                 *)
ExitPcOf(id) == exitPoints[id]

FollowLink ==
    /\ native.seg = "stub"
    /\ HasTrace(ExitPcOf(Stub.id))
    /\ native' = InBlock(ExitPcOf(Stub.id), 1)

(* Mutant of ReturnsTo: an exit is handed back though it has a trace.      *)
ReturnsToAlways(pc) ==
    /\ native.seg = "stub"
    /\ pc = ExitPcOf(Stub.id)
    /\ native' = NotNative

ReturnsTo(pc) ==
    /\ native.seg = "stub"
    /\ pc = ExitPcOf(Stub.id)
    /\ ~HasTrace(pc)
    /\ native' = NotNative

(* The pc of the program that native code stands for.                      *)
NativePc == IF native.seg = "stub" THEN Stub.label ELSE Block.pc
=============================================================================
