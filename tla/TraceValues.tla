----------------------------- MODULE TraceValues -----------------------------
(***************************************************************************)
(* One frame of the program, run by the interpreter and by traces in turn. *)
(* runTrace copies the locals into an array that native code works on and  *)
(* copies them back when a trace is left for good.  Which instructions     *)
(* come, and where traces start, is left open: every sequence that the     *)
(* byte code verifier would accept is considered.                          *)
(***************************************************************************)
EXTENDS CodeGenerator

CONSTANTS
    InitialKeys,   \* the locals with a value when the frame is first seen
    InitialLocals, \* the values they may have then
    Garbage,       \* what a register holds that no code of the trace has set
    Wild,          \* also consider the entries Tame leaves out?
    MaxStack,      \* Method::maxStack
    MaxSteps       \* bound of the model

ASSUME FrameAssumption ==
    /\ InitialKeys \subseteq Vars
    /\ InitialLocals \subseteq [Vars -> Ints]
    /\ \A values \in InitialLocals : \A v \in Vars \ InitialKeys : values[v] = 0
    /\ Garbage \in Longs
    /\ Wild \in BOOLEAN
    /\ MaxStack \in Nat /\ MaxSteps \in Nat

VARIABLES
    mode,      \* who runs the frame, or how the process ended
    keys,      \* the keys of State::locals
    assigned,  \* the variables the program has assigned so far
    trace,     \* compiler and machine, see CodeGenerator
    steps

vars == <<stack, locals, mode, keys, assigned, trace, steps>>

(* A process dies of a division in the interpreter, of one in native code, *)
(* or of an entry that the compiler throws at.                             *)
NativeModes == {"native", "nativeTrapped", "aborted"}
Modes == {"interpreting", "trapped"} \cup NativeModes

-----------------------------------------------------------------------------
(* What the frame's byte code would see: native code has it in registers   *)
(* and in the variables array, 64 bits wide.                               *)
OperandValues(c) == [i \in 1 .. Len(c.ops) |-> AsInt(Read(c, c.ops[i]))]
VariableValues(c) == [v \in Vars |-> AsInt(c.mem[v])]

VisibleStack == IF mode \in NativeModes THEN OperandValues(trace) ELSE stack
VisibleLocals == IF mode \in NativeModes THEN VariableValues(trace) ELSE locals

(* The verifier and javac: operands are there, variables have been         *)
(* assigned before they are read, and the stack stays below max_stack.     *)
Verified(e, s) ==
    /\ Len(s) >= Pops(e.op)
    /\ e.op \in {"PUSH", "ILOAD"} => Len(s) < MaxStack
    /\ e.op \in {"ILOAD", "IINC"} => e.var \in assigned

FitInts(e) ==
    /\ Read(trace, FirstOperand(e.op, trace)) \in Ints
    /\ Read(trace, SecondOperand(e.op, trace)) \in Ints

(* The entries whose native code means what the byte code means: no        *)
(* decrement, no IFNE, no division of a negative number, and no comparison *)
(* or division of something that has outgrown an int.                      *)
Tame(e) ==
    CASE e.op = "IINC" -> e.val < ByteHalf
      [] e.op = "IFNE" -> FALSE
      [] e.op \in Tests \ {"IFNE"} -> FitInts(e)
      [] e.op \in Divisions -> FitInts(e) /\ Read(trace, Second(trace.ops)) >= 0
      [] OTHER -> TRUE

Assigning(e) == IF e.op = "ISTORE" THEN {e.var} ELSE {}

(* operator[] on the map of locals creates the key it is asked for.        *)
Touching(e) == IF e.op \in {"ILOAD", "ISTORE", "IINC"} THEN {e.var} ELSE {}

Step == steps < MaxSteps /\ steps' = steps + 1

-----------------------------------------------------------------------------
Init ==
    /\ stack = <<>> /\ locals \in InitialLocals
    /\ mode = "interpreting"
    /\ keys = InitialKeys /\ assigned = InitialKeys
    /\ trace = [ops |-> <<>>, free |-> Registers,
                regs |-> [r \in Pool \cup {"RAX", "RDX"} |-> Garbage],
                mem |-> [v \in Vars |-> 0]]
    /\ steps = 0

(* evalInstruction.                                                        *)
Interpret(e) ==
    /\ mode = "interpreting" /\ Step
    /\ Verified(e, stack)
    /\ EvalInstruction(e)
    /\ keys' = keys \cup Touching(e)
    /\ assigned' = assigned \cup Assigning(e)
    /\ UNCHANGED <<mode, trace>>

InterpretTraps(e) ==
    /\ mode = "interpreting" /\ Step
    /\ Verified(e, stack)
    /\ e.op \in Divisions /\ DivisionTraps(Second(stack), Top(stack))
    /\ mode' = "trapped"
    /\ UNCHANGED <<stack, locals, keys, assigned, trace>>

(* runTrace up to the call: calloc'ed slots for the variables, those in    *)
(* the map filled.  Loop headers are reached with no operands.             *)
EnterTrace ==
    /\ mode = "interpreting" /\ Step
    /\ stack = <<>>
    /\ mode' = "native"
    /\ trace' = ResetCompilerState(
                    [trace EXCEPT !.mem = [v \in Vars |-> IF v \in keys THEN locals[v] ELSE 0]])
    /\ UNCHANGED <<stack, locals, keys, assigned>>

InTrace(e) ==
    /\ mode = "native" /\ Step
    /\ Verified(e, trace.ops)
    /\ e.op = "GOTO" => trace.ops = <<>>
    /\ Wild \/ Tame(e)

(* An entry that is no jump is compiled, and its code has run.             *)
RunEntry(e) ==
    /\ InTrace(e)
    /\ e.op \notin Tests \cup {"GOTO"}
    /\ ~CompileThrows(e.op, trace)
    /\ e.op \in Divisions => ~IdivTraps(PrepareDivision(trace), Denominator(trace))
    /\ trace' = Compile(e, trace)
    /\ assigned' = assigned \cup Assigning(e)
    /\ UNCHANGED <<mode, stack, locals, keys>>

(* The jump of a branch that stays on the recorded path falls through.     *)
FallThrough(e) ==
    /\ InTrace(e)
    /\ e.op \in Tests
    /\ ~CompileThrows(e.op, trace)
    /\ ~JumpTaken(e.op, trace)
    /\ trace' = PopTested(e.op, trace)
    /\ UNCHANGED <<mode, stack, locals, keys, assigned>>

JumpOut(e) ==
    /\ InTrace(e)
    /\ e.op \in Tests \cup {"GOTO"}
    /\ ~CompileThrows(e.op, trace)
    /\ JumpTaken(e.op, trace)

(* A jump to the trace's own start, or through handleTraceExit to another  *)
(* trace: native code goes on with the same variables, in code that was    *)
(* compiled from an empty stack and all registers.                         *)
GoOnInTrace(e) ==
    /\ JumpOut(e)
    /\ trace' = ResetCompilerState(trace)
    /\ UNCHANGED <<mode, stack, locals, keys, assigned>>

(* Mutant of WrittenBack: every slot of the array, in the map or not.      *)
WrittenBackWide ==
    [v \in Vars |-> IF v \in keys THEN trace.mem[v] ELSE locals[v]]

(* runTrace after the call.                                                *)
WrittenBack ==
    [v \in Vars |-> IF v \in keys THEN AsInt(trace.mem[v]) ELSE locals[v]]

LeaveTrace(e) ==
    /\ JumpOut(e)
    /\ trace' = PopTested(e.op, trace)
    /\ locals' = WrittenBack
    /\ mode' = "interpreting"
    /\ UNCHANGED <<stack, keys, assigned>>

CompileFails(e) ==
    /\ InTrace(e)
    /\ CompileThrows(e.op, trace)
    /\ mode' = "aborted"
    /\ UNCHANGED <<stack, locals, keys, assigned, trace>>

NativeTraps(e) ==
    /\ InTrace(e)
    /\ ~CompileThrows(e.op, trace)
    /\ e.op \in Divisions /\ IdivTraps(PrepareDivision(trace), Denominator(trace))
    /\ mode' = "nativeTrapped"
    /\ UNCHANGED <<stack, locals, keys, assigned, trace>>

(* The process has ended, or the bound of the model is reached.            *)
Stop ==
    /\ mode \in {"trapped", "nativeTrapped", "aborted"} \/ steps = MaxSteps
    /\ UNCHANGED vars

Next ==
    \/ EnterTrace \/ Stop
    \/ \E e \in Entries :
        \/ Interpret(e) \/ InterpretTraps(e)
        \/ RunEntry(e) \/ FallThrough(e) \/ GoOnInTrace(e) \/ LeaveTrace(e)
        \/ CompileFails(e) \/ NativeTraps(e)

Spec == Init /\ [][Next]_vars
=============================================================================
