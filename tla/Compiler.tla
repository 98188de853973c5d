------------------------------ MODULE Compiler ------------------------------
(***************************************************************************)
(* Compiler::compileAndInstall and the assembler behind it.  One entry of  *)
(* a recording becomes one block of native code; every jump out of the     *)
(* trace gets a stub behind the blocks, the bailout code, which loads the  *)
(* exit's id and leaves.  Encodings are left out, and which register holds *)
(* what; the compile-time operand stack is kept as the kind of each operand*)
(***************************************************************************)
EXTENDS Bytecode

CONSTANT NumRegisters   \* how many resetCompilerState makes available

ASSUME CompilerAssumption == NumRegisters \in Nat

VARIABLES
    nativeTrace,    \* sequence of blocks [pc, jump, label], one per entry
    bailoutCode,    \* sequence of stubs [label, id]
    exitId,         \* the next exit id; never reset
    newExitPoints,  \* Compiler::exitPoints of the trace being compiled
    operandStack    \* sequence of "reg" and "imm", the top last

compilerVars == <<nativeTrace, bailoutCode, exitId, newExitPoints, operandStack>>

InitCompiler ==
    /\ nativeTrace = <<>> /\ bailoutCode = <<>> /\ operandStack = <<>>
    /\ newExitPoints = <<>>   \* the empty function
    /\ exitId = 0

(* Mutant of ResetCompilerState: exit ids start over with each trace.      *)
ResetExitIdToo ==
    /\ nativeTrace' = <<>> /\ bailoutCode' = <<>> /\ operandStack' = <<>>
    /\ newExitPoints' = <<>>
    /\ exitId' = 0

ResetCompilerState ==
    /\ nativeTrace' = <<>> /\ bailoutCode' = <<>> /\ operandStack' = <<>>
    /\ newExitPoints' = <<>>
    /\ UNCHANGED exitId

-----------------------------------------------------------------------------
(* Mutant of JumpFor: >= compiled as >.                                    *)
JumpForStrict ==
    [IF_ICMPEQ |-> "je", IF_ICMPGE |-> "jg", IF_ICMPGT |-> "jg",
     IF_ICMPLE |-> "jle", IFEQ |-> "je", IFNE |-> "jz", GOTO |-> "jmp"]

(* The jump compile() emits for a mnemonic.                                *)
JumpFor ==
    [IF_ICMPEQ |-> "je", IF_ICMPGE |-> "jge", IF_ICMPGT |-> "jg",
     IF_ICMPLE |-> "jle", IFEQ |-> "je", IFNE |-> "jz", GOTO |-> "jmp"]

(* The relation between the compared operands on which a jump is taken.    *)
JumpsOn == [je |-> "eq", jz |-> "eq", jge |-> "ge", jg |-> "gt", jle |-> "le"]

Loads == {"ILOAD"}
Immediates == {"BIPUSH", "SIPUSH", "LDC"}
Divisions == {"IDIV", "IREM"}
Arithmetic == {"IADD", "ISUB", "IMUL"} \cup Divisions
Compilable ==
    DOMAIN JumpFor \cup Loads \cup Immediates \cup Arithmetic \cup {"ISTORE", "IINC"}

Pops(mn) ==
    CASE mn \in {"IF_ICMPEQ", "IF_ICMPGE", "IF_ICMPGT", "IF_ICMPLE"} \cup Arithmetic -> 2
      [] mn \in {"IFEQ", "IFNE", "ISTORE"} -> 1
      [] OTHER -> 0

(* Mutant of Pushed: the register of a load is not pushed.                 *)
PushedNoLoad(mn) ==
    CASE mn \in Arithmetic -> <<"reg">>
      [] mn \in Immediates -> <<"imm">>
      [] OTHER -> <<>>

Pushed(mn) ==
    CASE mn \in Loads \cup Arithmetic -> <<"reg">>
      [] mn \in Immediates -> <<"imm">>
      [] OTHER -> <<>>

Popped(mn) == SubSeq(operandStack, 1, Len(operandStack) - Pops(mn))

(* The lower operand of a comparison, the one CMP takes first.             *)
FirstOperand(mn) == operandStack[Len(operandStack) - Pops(mn) + 1]

(* Mutant of NeedsBailout: no way out for any GOTO.                        *)
NeedsBailoutButGoto(entry, label, inner) ==
    entry.mn \in DOMAIN JumpFor \ {"GOTO"}

(* A GOTO to a label inside the trace needs no way out; other jumps do,    *)
(* even one to an inner label.                                             *)
NeedsBailout(entry, label, inner) ==
    /\ entry.mn \in DOMAIN JumpFor
    /\ entry.mn = "GOTO" => label \notin inner

(* Popping more than was pushed is undefined on a std::stack; it counts as *)
(* a throw here, and NeverUnderflows says it does not happen.              *)
Underflows(mn) == Pops(mn) > Len(operandStack)

(* The registers that are not available: those on the operand stack.       *)
RegistersHeld == Cardinality({k \in DOMAIN operandStack : operandStack[k] = "reg"})

(* getFirstAvailableReg throws when there is none.  A load asks for one;   *)
(* arithmetic for one in place of an immediate first operand, before that  *)
(* of the second is given back; division in place of an immediate second   *)
(* operand, but when that of the first has been given back.                *)
OutOfRegisters(mn) ==
    /\ RegistersHeld >= NumRegisters
    /\ \/ mn \in Loads
       \/ mn \in Arithmetic \ Divisions /\ FirstOperand(mn) = "imm"
       \/ /\ mn \in Divisions /\ FirstOperand(mn) = "imm"
          /\ operandStack[Len(operandStack)] = "imm"

(* The throws of compile(), compileBailoutFor(), generateCondBranch() and  *)
(* getFirstAvailableReg().  A comparison of two immediates has no encoding:*)
(* the assembler throws.                                                   *)
CompileThrows(entry, label, inner) ==
    \/ entry.mn \notin Compilable
    \/ Underflows(entry.mn)
    \/ OutOfRegisters(entry.mn)
    \/ entry.mn \in DOMAIN JumpFor \ {"GOTO"} /\ FirstOperand(entry.mn) = "imm"
    \/ NeedsBailout(entry, label, inner) /\ Popped(entry.mn) # <<>>

(* The block of an entry; a block that does not jump has no use for label. *)
BlockFor(entry, label) ==
    IF entry.mn \in DOMAIN JumpFor
    THEN [pc |-> entry.pc, jump |-> JumpFor[entry.mn], label |-> label]
    ELSE [pc |-> entry.pc, jump |-> "none", label |-> entry.pc]

(* Mutant of StubFor: the id is taken after the increment.                 *)
StubForNextId(label) == [label |-> label, id |-> exitId + 1]

StubFor(label) == [label |-> label, id |-> exitId]

CompileBailoutFor(label) ==
    /\ bailoutCode' = Append(bailoutCode, StubFor(label))
    /\ newExitPoints' = [id \in DOMAIN newExitPoints \cup {exitId} |->
                            IF id = exitId THEN label ELSE newExitPoints[id]]
    /\ exitId' = exitId + 1

(* compile(): label is where the entry jumps to if it is a jump.           *)
Compile(entry, label, inner) ==
    /\ ~CompileThrows(entry, label, inner)
    /\ operandStack' = Popped(entry.mn) \o Pushed(entry.mn)
    /\ nativeTrace' = Append(nativeTrace, BlockFor(entry, label))
    /\ IF NeedsBailout(entry, label, inner)
       THEN CompileBailoutFor(label)
       ELSE UNCHANGED <<bailoutCode, newExitPoints, exitId>>

-----------------------------------------------------------------------------
(* A label is bound at the block of its pc, if it is an inner one, and at  *)
(* every stub made for it.                                                 *)
BoundAt(label, inner) ==
    {<<"block", k>> : k \in {k \in DOMAIN nativeTrace :
                               nativeTrace[k].pc = label /\ label \in inner}}
    \cup {<<"stub", k>> : k \in {k \in DOMAIN bailoutCode : bailoutCode[k].label = label}}

UsedLabels ==
    {nativeTrace[k].label : k \in {k \in DOMAIN nativeTrace : nativeTrace[k].jump # "none"}}
    \cup {bailoutCode[k].label : k \in DOMAIN bailoutCode}

(* assemble() throws on a label that is no branch target of the recording  *)
(* (it was never created), and asmjit refuses to bind one twice.           *)
AssembleThrows(inner, outer) ==
    \/ \E label \in UsedLabels : label \notin inner \cup outer
    \/ \E label \in inner \cup outer :
         \E p, q \in BoundAt(label, inner) : p # q

Trace(inner) ==
    [code |-> nativeTrace, stubs |-> bailoutCode, inner |-> inner]
=============================================================================
