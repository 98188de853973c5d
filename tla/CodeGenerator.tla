---------------------------- MODULE CodeGenerator ----------------------------
(***************************************************************************)
(* Compiler::compile at the level of values: which register holds what,    *)
(* and what the emitted x86 code computes.  Code is straight, so that the  *)
(* state of the compiler after an entry and the state of the machine after *)
(* running that entry's code can be kept side by side, in one record       *)
(*   ops   the compile-time operandStack, the top last                     *)
(*   free  the queue availableRegs                                         *)
(*   regs  the registers of the machine                                    *)
(*   mem   the variables array that rdi points to                          *)
(* and emitting an instruction is executing it.                            *)
(***************************************************************************)
EXTENDS ByteCodeValues

CONSTANTS
    Registers    \* the sequence of registers resetCompilerState makes available

Pool == {Registers[i] : i \in DOMAIN Registers}

ASSUME RegisterAssumption ==
    /\ Registers \in Seq(STRING)
    /\ \A i, j \in DOMAIN Registers : Registers[i] = Registers[j] => i = j
    /\ Pool \cap {"RAX", "RDX", "RDI"} = {}

(* Op.  Operands on the stack are registers and immediates, never MEMORY.  *)
Reg(r) == [kind |-> "REGISTER", reg |-> r]
Imm(x) == [kind |-> "IMMEDIATE", val |-> x]
Mem(v) == [kind |-> "MEMORY", var |-> v]

IsReg(op) == op.kind = "REGISTER"

-----------------------------------------------------------------------------
(* The machine.                                                            *)
Read(c, op) ==
    CASE op.kind = "REGISTER"  -> c.regs[op.reg]
      [] op.kind = "IMMEDIATE" -> op.val
      [] op.kind = "MEMORY"    -> c.mem[op.var]

Write(c, op, x) ==
    IF op.kind = "REGISTER" THEN [c EXCEPT !.regs[op.reg] = x]
                            ELSE [c EXCEPT !.mem[op.var] = x]

(* 64-bit ADD, SUB and IMUL.                                               *)
X86Result(inst, a, b) ==
    CASE inst = "ADD"  -> AsLong(a + b)
      [] inst = "SUB"  -> AsLong(a - b)
      [] inst = "IMUL" -> AsLong(a * b)

Emit(inst, c, dst, src) == Write(c, dst, X86Result(inst, Read(c, dst), Read(c, src)))

(* IDIV divides rdx:rax, whose lower half is unsigned, and traps when the  *)
(* quotient does not fit.                                                  *)
Dividend(c) ==
    c.regs["RDX"] * 2 * LongHalf
    + (IF c.regs["RAX"] < 0 THEN c.regs["RAX"] + 2 * LongHalf ELSE c.regs["RAX"])

IdivTraps(c, op) ==
    Read(c, op) # 0 => Quotient(Dividend(c), Read(c, op)) \notin Longs

Idiv(c, op) ==
    [c EXCEPT !.regs = [@ EXCEPT !["RAX"] = Quotient(Dividend(c), Read(c, op)),
                                 !["RDX"] = Remainder(Dividend(c), Read(c, op))]]

-----------------------------------------------------------------------------
(* Registers and the operand stack.                                        *)
ResetCompilerState(c) ==
    [ops |-> <<>>, free |-> Registers, regs |-> c.regs, mem |-> c.mem]

PushOp(c, op) == [c EXCEPT !.ops = Append(@, op)]
PopOps(c, n) == [c EXCEPT !.ops = Below(@, n)]
Free(c, op) == IF IsReg(op) THEN [c EXCEPT !.free = Append(@, op.reg)] ELSE c

PopAndFree(c) == Free(PopOps(c, 1), Top(c.ops))

FirstAvailableReg(c) == Reg(Head(c.free))
TakeReg(c) == [c EXCEPT !.free = Tail(@)]

(* generateMov: nothing at all when both are the same.                     *)
Mov(c, dst, src) == IF dst = src THEN c ELSE Write(c, dst, Read(c, src))

VariableLoad(c, var) ==
    LET dst == FirstAvailableReg(c)
    IN  PushOp(Mov(TakeReg(c), dst, Mem(var)), dst)

VariableStore(c, var) == Mov(PopAndFree(c), Mem(var), Top(c.ops))

(* The x86 mnemonic an arithmetic byte code is compiled to.                *)
MnemonicFor == [IADD |-> "ADD", ISUB |-> "SUB", IMUL |-> "IMUL"]

(* Mutant of GenerateArithmetic: both operands are popped and freed.       *)
GenerateArithmeticFreeingBoth(inst, c) ==
    LET op2 == Top(c.ops)
        op1 == Second(c.ops)
        c1  == PopAndFree(PopAndFree(c))
        dst == IF IsReg(op1) THEN op1 ELSE FirstAvailableReg(c1)
        c2  == IF IsReg(op1) THEN c1 ELSE Mov(TakeReg(c1), dst, op1)
    IN  PushOp(Emit(inst, c2, dst, op2), dst)

(* The register of the first operand is reused for the result, or one is   *)
(* taken; that of the second goes back to the queue.                       *)
GenerateArithmetic(inst, c) ==
    LET op2 == Top(c.ops)
        op1 == Second(c.ops)
        c1  == PopOps(c, 2)
        dst == IF IsReg(op1) THEN op1 ELSE FirstAvailableReg(c1)
        c2  == IF IsReg(op1) THEN c1 ELSE Mov(TakeReg(c1), dst, op1)
    IN  PushOp(Emit(inst, Free(c2, op2), dst, op2), dst)

(* Up to the IDIV: numerator in rax, 0 in rdx, denominator in a register   *)
(* that will also take the result.                                         *)
Denominator(c) ==
    IF IsReg(Top(c.ops)) THEN Top(c.ops) ELSE FirstAvailableReg(PopAndFree(PopOps(c, 1)))

(* Mutant of PrepareDivision: the upper half of the dividend is not set.   *)
PrepareDivisionLeavingRdx(c) ==
    LET c1 == Mov(PopAndFree(PopOps(c, 1)), Reg("RAX"), Second(c.ops))
    IN  IF IsReg(Top(c.ops)) THEN c1 ELSE Mov(TakeReg(c1), Denominator(c), Top(c.ops))

PrepareDivision(c) ==
    LET c1 == Mov(PopAndFree(PopOps(c, 1)), Reg("RAX"), Second(c.ops))
        c2 == IF IsReg(Top(c.ops)) THEN c1 ELSE Mov(TakeReg(c1), Denominator(c), Top(c.ops))
    IN  Mov(c2, Reg("RDX"), Imm(0))

GenerateRemDiv(isRem, c) ==
    LET dst == Denominator(c)
        c1  == Idiv(PrepareDivision(c), dst)
    IN  PushOp(Mov(c1, dst, Reg(IF isRem THEN "RDX" ELSE "RAX")), dst)

-----------------------------------------------------------------------------
(* The compare before a conditional jump, and the jump.                    *)
FirstOperand(op, c) == IF op \in TestsOne THEN Top(c.ops) ELSE Second(c.ops)
SecondOperand(op, c) == IF op \in TestsOne THEN Imm(0) ELSE Top(c.ops)

(* Mutant of JumpsOn: JG for JGE.                                          *)
JumpsOnStrictly ==
    [IF_ICMPEQ |-> "eq", IF_ICMPGE |-> "gt", IF_ICMPGT |-> "gt",
     IF_ICMPLE |-> "le", IFEQ |-> "eq", IFNE |-> "eq"]

(* The relation on which the jump emitted for a branch is taken: JZ for    *)
(* IFNE.                                                                   *)
JumpsOn ==
    [IF_ICMPEQ |-> "eq", IF_ICMPGE |-> "ge", IF_ICMPGT |-> "gt",
     IF_ICMPLE |-> "le", IFEQ |-> "eq", IFNE |-> "eq"]

JumpTaken(op, c) ==
    op # "GOTO" => Related(JumpsOn[op], Read(c, FirstOperand(op, c)),
                                        Read(c, SecondOperand(op, c)))

PopTested(op, c) ==
    CASE Pops(op) = 2 -> PopAndFree(PopAndFree(c))
      [] Pops(op) = 1 -> PopAndFree(c)
      [] OTHER -> c

(* getFirstAvailableReg throws when the queue is empty.                    *)
OutOfRegisters(op, c) ==
    /\ c.free = <<>>
    /\ \/ op = "ILOAD"
       \/ op \in Arithmetic /\ ~IsReg(Second(c.ops))
       \/ op \in Divisions /\ ~IsReg(Second(c.ops)) /\ ~IsReg(Top(c.ops))

(* So does a comparison whose first operand is an immediate, in the        *)
(* compiler or the assembler, and a way out of the trace with operands     *)
(* left on the stack.                                                      *)
CompileThrows(op, c) ==
    \/ OutOfRegisters(op, c)
    \/ op \in Tests /\ ~IsReg(FirstOperand(op, c))
    \/ op \in Tests \cup {"GOTO"} /\ PopTested(op, c).ops # <<>>

(* compile(), for an entry that is no jump.                                *)
Compile(e, c) ==
    CASE e.op = "ILOAD"  -> VariableLoad(c, e.var)
      [] e.op = "ISTORE" -> VariableStore(c, e.var)
      [] e.op = "PUSH"   -> PushOp(c, Imm(e.val))
      [] e.op = "IINC"   -> Emit("ADD", c, Mem(e.var), Imm(e.val))
      [] e.op \in Arithmetic -> GenerateArithmetic(MnemonicFor[e.op], c)
      [] e.op \in Divisions  -> GenerateRemDiv(e.op = "IREM", c)
=============================================================================
