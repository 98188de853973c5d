---------------------------- MODULE ByteCodeValues ----------------------------
(***************************************************************************)
(* What byte code promises of its values: the operand stack and the local  *)
(* variables of one frame, under the integer instructions that can be part *)
(* of a trace.  Control is left out: any instruction may be next whose     *)
(* operands are there, so that one model stands for every method.          *)
(***************************************************************************)
EXTENDS Words, Sequences

CONSTANTS
    Vars,      \* the local variables of the frame
    Entries    \* instructions: [op, var, val], with what the op has no use for unread

VARIABLES
    stack,     \* State::stack, the top last
    locals     \* State::locals; a variable without a value reads as Value(0)

(* BIPUSH, SIPUSH, LDC and the ICONST forms push a number, here all PUSH.  *)
Arithmetic == {"IADD", "ISUB", "IMUL"}
Divisions == {"IDIV", "IREM"}

(* The relation a conditional branch tests, of two operands or of one and 0*)
RelationOf ==
    [IF_ICMPEQ |-> "eq", IF_ICMPGE |-> "ge", IF_ICMPGT |-> "gt",
     IF_ICMPLE |-> "le", IFEQ |-> "eq", IFNE |-> "ne"]

TestsOne == {"IFEQ", "IFNE"}
Tests == DOMAIN RelationOf

Instructions ==
    Arithmetic \cup Divisions \cup Tests \cup {"PUSH", "ILOAD", "ISTORE", "IINC", "GOTO"}

ASSUME EntryAssumption ==
    \A e \in Entries :
        /\ e.op \in Instructions
        /\ e.var \in Vars
        /\ e.val \in IF e.op = "IINC" THEN Bytes ELSE Ints

Pops(op) ==
    CASE op \in Arithmetic \cup Divisions \cup (Tests \ TestsOne) -> 2
      [] op \in TestsOne \cup {"ISTORE"} -> 1
      [] OTHER -> 0

Top(s) == s[Len(s)]
Second(s) == s[Len(s) - 1]
Below(s, n) == SubSeq(s, 1, Len(s) - n)

(* operator+, -, * of two Int values, / and %.                             *)
ResultOf(op, lhs, rhs) ==
    CASE op = "IADD" -> AsInt(lhs + rhs)
      [] op = "ISUB" -> AsInt(lhs - rhs)
      [] op = "IMUL" -> AsInt(lhs * rhs)
      [] op = "IDIV" -> AsInt(Quotient(lhs, rhs))
      [] op = "IREM" -> AsInt(Remainder(lhs, rhs))

(* The CPU's divide trap: by zero, or a quotient that does not fit.        *)
DivisionTraps(lhs, rhs) == rhs # 0 => Quotient(lhs, rhs) \notin Ints

(* What a conditional branch finds of the operands on s.                   *)
Holds(op, s) ==
    IF op \in TestsOne
    THEN Related(RelationOf[op], Top(s), 0)
    ELSE Related(RelationOf[op], Second(s), Top(s))

Operate(e) ==
    /\ e.op \in Arithmetic \cup Divisions
    /\ e.op \in Divisions => ~DivisionTraps(Second(stack), Top(stack))
    /\ stack' = Append(Below(stack, 2), ResultOf(e.op, Second(stack), Top(stack)))
    /\ UNCHANGED locals

Push(e) ==
    /\ e.op = "PUSH"
    /\ stack' = Append(stack, e.val)
    /\ UNCHANGED locals

Load(e) ==
    /\ e.op = "ILOAD"
    /\ stack' = Append(stack, locals[e.var])
    /\ UNCHANGED locals

Store(e) ==
    /\ e.op = "ISTORE"
    /\ locals' = [locals EXCEPT ![e.var] = Top(stack)]
    /\ stack' = Below(stack, 1)

(* IINC adds its second byte as an int8_t.                                 *)
Increment(e) ==
    /\ e.op = "IINC"
    /\ locals' = [locals EXCEPT ![e.var] = AsInt(@ + AsSignedByte(e.val))]
    /\ UNCHANGED stack

(* A branch consumes what it tests, taken or not; GOTO consumes nothing.   *)
Branch(e) ==
    /\ e.op \in Tests \cup {"GOTO"}
    /\ stack' = Below(stack, Pops(e.op))
    /\ UNCHANGED locals

EvalInstruction(e) ==
    /\ Len(stack) >= Pops(e.op)
    /\ Operate(e) \/ Push(e) \/ Load(e) \/ Store(e) \/ Increment(e) \/ Branch(e)

ValuesInit == stack = <<>> /\ locals \in [Vars -> Ints]

ValuesNext == \E e \in Entries : EvalInstruction(e)

ValuesSpec == ValuesInit /\ [][ValuesNext]_<<stack, locals>>
=============================================================================
