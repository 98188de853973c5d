------------------------------ MODULE Bytecode ------------------------------
(***************************************************************************)
(* The JVM byte code as the tracing JIT sees it: program counters, the     *)
(* instructions they hold, and where control goes from each.  A program is *)
(* a constant; values are left out.  What a conditional branch does is     *)
(* decided by an oracle (module Interpreter), so that one small program    *)
(* stands for every run of it on every input.                              *)
(***************************************************************************)
EXTENDS Integers, Sequences, FiniteSets

CONSTANTS
    Code,        \* [program counter -> [mn, arg]]: Program::methods
    MainMethod,  \* the method index that findIndexOfMain returns
    UninitPcs    \* what a ProgramCounter no constructor has written may hold

(* A ProgramCounter is [m |-> methodIndex, i |-> instructionIndex].        *)
Pcs == DOMAIN Code

EntryPc(m) == [m |-> m, i |-> 0]

(* The relation a conditional branch tests.  One operand against zero and  *)
(* two operands against each other are the same relation here.             *)
RelationOf ==
    [IFEQ |-> "eq", IFNE |-> "ne", IFLT |-> "lt",
     IFGE |-> "ge", IFGT |-> "gt", IFLE |-> "le",
     IF_ICMPEQ |-> "eq", IF_ICMPNE |-> "ne", IF_ICMPLT |-> "lt",
     IF_ICMPGE |-> "ge", IF_ICMPGT |-> "gt", IF_ICMPLE |-> "le"]

Branches == DOMAIN RelationOf

Opposite == [eq |-> "ne", ne |-> "eq", lt |-> "ge", ge |-> "lt", gt |-> "le", le |-> "gt"]

Returns == {"RETURN", "IRETURN", "LRETURN", "FRETURN", "DRETURN"}

(* Operand bytes after the opcode; every other mnemonic here has none.     *)
(* "ILOAD_n" stands for ILOAD_0 ... ILOAD_3 and so on, n being its arg.    *)
TwoByteParameters ==
    Branches \cup {"SIPUSH", "LDC2_W", "GOTO", "IINC", "INVOKESTATIC",
                   "INVOKEVIRTUAL", "GETSTATIC"}

OneByteParameters == {"BIPUSH", "LDC"} \cup
    {"ILOAD", "LLOAD", "FLOAD", "DLOAD", "ISTORE", "LSTORE", "FSTORE", "DSTORE"}

GetParameters(mn) ==
    IF mn \in TwoByteParameters THEN 2
    ELSE IF mn \in OneByteParameters THEN 1 ELSE 0

Mnemonic(pc) == Code[pc].mn
Jump(pc, offset) == [pc EXCEPT !.i = @ + offset]
After(pc) == Jump(pc, 1 + GetParameters(Mnemonic(pc)))
Target(pc) == Jump(pc, Code[pc].arg)

ForwardGoto(pc) == Mnemonic(pc) = "GOTO" /\ Code[pc].arg > 0

(* The first pc at or after pc that is not an unconditional forward jump:  *)
(* those do no work, and a recording leaves them out.                      *)
PastGotos[pc \in Pcs] == IF ForwardGoto(pc) THEN PastGotos[Target(pc)] ELSE pc

(* What javac guarantees of a class file: control stays inside the method  *)
(* and lands on an instruction, and main exists.                           *)
ASSUME CodeAssumption ==
    /\ EntryPc(MainMethod) \in Pcs
    \* Method indices are constant pool indices of a class file: leftover bytes
    \* that happen to name an instruction are not considered.
    /\ \A pc \in UninitPcs : pc = [m |-> pc.m, i |-> pc.i] /\ pc.i \in Nat
    /\ UninitPcs \cap Pcs = {}
    /\ \A pc \in Pcs :
         /\ pc = [m |-> pc.m, i |-> pc.i] /\ pc.i \in Nat
         /\ Mnemonic(pc) \in Branches \cup {"GOTO"} =>
                Code[pc].arg \in Int /\ Target(pc) \in Pcs
         /\ Mnemonic(pc) = "INVOKESTATIC" => EntryPc(Code[pc].arg) \in Pcs
         /\ Mnemonic(pc) \notin Returns \cup {"GOTO"} => After(pc) \in Pcs
=============================================================================
