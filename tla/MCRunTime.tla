----------------------------- MODULE MCRunTime -----------------------------
(***************************************************************************)
(* Small programs for TLC.  The ones named after a Java file of            *)
(* src/test have the control flow javac gives that file.                   *)
(***************************************************************************)
EXTENDS StackDepth, TLC

(* These programs are as javac writes them also in where their GOTOs lead. *)
ASSUME JavacAssumption == GotosAreThreaded

(* How deep the operand stack is, read off the text: javac leaves nothing  *)
(* on it behind a GOTO, and a call takes the arguments, which are the      *)
(* variables a method reads and never writes.                              *)
Slots(m, mn) == {Code[pc].arg : pc \in {pc \in Pcs : pc.m = m /\ Mnemonic(pc) = mn}}
Arguments(m) == Cardinality(Slots(m, "ILOAD_n") \ Slots(m, "ISTORE_n"))
Results(m) == IF Slots(m, "IRETURN") # {} THEN 1 ELSE 0
Before(pc) == {q \in Pcs : q.m = pc.m /\ After(q) = pc}

Depth[pc \in Pcs] ==
    IF Before(pc) = {} THEN 0
    ELSE LET q == CHOOSE q \in Before(pc) : TRUE
             callee == Code[q].arg
         IN  CASE Mnemonic(q) \in Returns \cup {"GOTO"} -> 0
               [] Mnemonic(q) = "INVOKESTATIC" -> Depth[q] - Arguments(callee) + Results(callee)
               [] OTHER -> DepthAfter(Depth, q)

ASSUME VerifierAssumption == Verified(Depth)

(* A recording may start in the middle of an expression, where a recursive *)
(* call returns to; none of those is ever compiled.                        *)
StartsBetweenStatements == StartsEmpty(Depth)

(* A method from rows <<instructionIndex, mnemonic, arg>>.                 *)
Method(m, rows) ==
    [pc \in {[m |-> m, i |-> rows[k][1]] : k \in DOMAIN rows} |->
        LET row == CHOOSE k \in DOMAIN rows : rows[k][1] = pc.i
        IN  [mn |-> rows[row][2], arg |-> rows[row][3]]]

(* Leftover bytes that name no instruction: a zeroed ProgramCounter.       *)
Garbage == {[m |-> 0, i |-> 0]}

(* ReportExample.j, with the three int constants of its guards left out:   *)
(* a loop whose body has two guards.                                       *)
ReportExample(m) == Method(m, <<
    <<0, "ICONST_n", 0>>, <<1, "ISTORE_n", 0>>, <<2, "ICONST_n", 0>>, <<3, "ISTORE_n", 1>>,
    <<4, "ILOAD_n", 1>>, <<5, "LDC", 0>>, <<7, "IF_ICMPGE", 36>>,
    <<10, "ILOAD_n", 1>>, <<11, "LDC", 0>>, <<13, "IF_ICMPLE", 9>>,
    <<16, "IINC", 0>>, <<19, "GOTO", 18>>,
    <<22, "ILOAD_n", 1>>, <<23, "LDC", 0>>, <<25, "IF_ICMPLE", 9>>,
    <<28, "IINC", 0>>, <<31, "GOTO", 6>>,
    <<34, "IINC", 0>>, <<37, "IINC", 1>>, <<40, "GOTO", -36>>, <<43, "RETURN", 0>> >>)

(* fib of Fibonacci.java: two calls of itself in one expression.           *)
Fib(m) == Method(m, <<
    <<0, "ILOAD_n", 0>>, <<1, "IFGT", 5>>, <<4, "ICONST_n", 0>>, <<5, "IRETURN", 0>>,
    <<6, "ILOAD_n", 0>>, <<7, "ICONST_n", 1>>, <<8, "ISUB", 0>>, <<9, "INVOKESTATIC", m>>,
    <<12, "ILOAD_n", 0>>, <<13, "ICONST_n", 2>>, <<14, "ISUB", 0>>,
    <<15, "INVOKESTATIC", m>>, <<18, "IADD", 0>>, <<19, "IRETURN", 0>> >>)

(* Two nested counting loops.                                              *)
NestedLoops(m) == Method(m, <<
    <<0, "ICONST_n", 0>>, <<1, "ISTORE_n", 1>>,
    <<2, "ILOAD_n", 1>>, <<3, "LDC", 0>>, <<5, "IF_ICMPGE", 26>>,
    <<8, "ICONST_n", 0>>, <<9, "ISTORE_n", 2>>,
    <<10, "ILOAD_n", 2>>, <<11, "LDC", 0>>, <<13, "IF_ICMPGE", 12>>,
    <<16, "IINC", 0>>, <<19, "IINC", 2>>, <<22, "GOTO", -12>>,
    <<25, "IINC", 1>>, <<28, "GOTO", -26>>, <<31, "RETURN", 0>> >>)

(* The same with an `if (...) break;` in the inner loop.                   *)
NestedBreak(m) == Method(m, <<
    <<0, "ICONST_n", 0>>, <<1, "ISTORE_n", 1>>,
    <<2, "ILOAD_n", 1>>, <<3, "LDC", 0>>, <<5, "IF_ICMPGE", 32>>,
    <<8, "ICONST_n", 0>>, <<9, "ISTORE_n", 2>>,
    <<10, "ILOAD_n", 2>>, <<11, "LDC", 0>>, <<13, "IF_ICMPGE", 18>>,
    <<16, "ILOAD_n", 2>>, <<17, "LDC", 0>>, <<19, "IF_ICMPLE", 6>>, <<22, "GOTO", 9>>,
    <<25, "IINC", 2>>, <<28, "GOTO", -18>>,
    <<31, "IINC", 1>>, <<34, "GOTO", -32>>, <<37, "RETURN", 0>> >>)

(* A loop over `if (a) { if (c) Y else Z } rest`.                          *)
IfElseInIf(m) == Method(m, <<
    <<0, "ICONST_n", 0>>, <<1, "ISTORE_n", 1>>,
    <<2, "ILOAD_n", 1>>, <<3, "LDC", 0>>, <<5, "IF_ICMPGE", 30>>,
    <<8, "ILOAD_n", 1>>, <<9, "LDC", 0>>, <<11, "IF_ICMPGE", 18>>,
    <<14, "ILOAD_n", 1>>, <<15, "LDC", 0>>, <<17, "IF_ICMPLE", 9>>,
    <<20, "IINC", 0>>, <<23, "GOTO", 6>>,
    <<26, "IINC", 0>>,
    <<29, "IINC", 1>>, <<32, "GOTO", -30>>, <<35, "RETURN", 0>> >>)

(* do { if (a != 0) c = b + (a + b) } while (b > k): an expression of three*)
(* operands in registers.                                                  *)
DoWhile(m) == Method(m, <<
    <<0, "ILOAD_n", 0>>, <<1, "IFEQ", 9>>,
    <<4, "ILOAD_n", 1>>, <<5, "ILOAD_n", 0>>, <<6, "ILOAD_n", 1>>,
    <<7, "IADD", 0>>, <<8, "IADD", 0>>, <<9, "ISTORE_n", 2>>,
    <<10, "ILOAD_n", 1>>, <<11, "LDC", 0>>, <<13, "IF_ICMPGT", -13>>, <<16, "RETURN", 0>> >>)

(* A loop over `if (a == 0) X`, as `if (i % 2 == 0) X`.                    *)
EvenLoop(m) == Method(m, <<
    <<0, "ICONST_n", 0>>, <<1, "ISTORE_n", 0>>,
    <<2, "ILOAD_n", 0>>, <<3, "LDC", 0>>, <<5, "IF_ICMPGE", 18>>,
    <<8, "ILOAD_n", 0>>, <<9, "ICONST_n", 2>>, <<10, "IREM", 0>>, <<11, "IFNE", 6>>,
    <<14, "IINC", 0>>, <<17, "IINC", 0>>, <<20, "GOTO", -18>>, <<23, "RETURN", 0>> >>)

(* FunctionInsideTrace.java: a loop whose body calls a method.             *)
CallInLoop(m, callee) == Method(m, <<
    <<0, "ICONST_n", 0>>, <<1, "ISTORE_n", 1>>,
    <<2, "ICONST_n", 0>>, <<3, "ISTORE_n", 2>>,
    <<4, "ILOAD_n", 2>>, <<5, "SIPUSH", 10000>>, <<8, "IF_ICMPGE", 15>>,
    <<11, "ILOAD_n", 1>>, <<12, "ILOAD_n", 2>>, <<13, "INVOKESTATIC", callee>>,
    <<16, "ISTORE_n", 1>>, <<17, "IINC", 2>>, <<20, "GOTO", -16>>,
    <<23, "GETSTATIC", 0>>, <<26, "ILOAD_n", 1>>, <<27, "INVOKEVIRTUAL", 0>>,
    <<30, "RETURN", 0>> >>)

Add(m) == Method(m, <<
    <<0, "ILOAD_n", 0>>, <<1, "ILOAD_n", 1>>, <<2, "IADD", 0>>, <<3, "IRETURN", 0>> >>)

-----------------------------------------------------------------------------
(* Main methods.                                                           *)
Nested == NestedLoops(1)
Guarded == IfElseInIf(1)
Even == EvenLoop(1)
FunctionInsideTrace == CallInLoop(1, 2) @@ Add(2)

(* The report's loop in a method that is called twice, or a method that    *)
(* calls itself twice.                                                     *)
WellBehaved ==
    Method(1, <<
        <<0, "ILOAD_n", 0>>, <<1, "IFEQ", 10>>,
        <<4, "INVOKESTATIC", 2>>, <<7, "INVOKESTATIC", 2>>, <<10, "RETURN", 0>>,
        <<11, "BIPUSH", 0>>, <<13, "INVOKESTATIC", 3>>, <<16, "POP", 0>>, <<17, "RETURN", 0>> >>)
    @@ ReportExample(2) @@ Fib(3)

(* One of several methods, whichever the oracle picks.                     *)
AllLoops ==
    Method(1, <<
        <<0, "ILOAD_n", 0>>, <<1, "IFEQ", 7>>, <<4, "INVOKESTATIC", 2>>, <<7, "RETURN", 0>>,
        <<8, "ILOAD_n", 0>>, <<9, "IFEQ", 7>>, <<12, "INVOKESTATIC", 3>>, <<15, "RETURN", 0>>,
        <<16, "ILOAD_n", 0>>, <<17, "IFEQ", 7>>, <<20, "INVOKESTATIC", 4>>, <<23, "RETURN", 0>>,
        <<24, "ILOAD_n", 0>>, <<25, "IFEQ", 9>>, <<28, "ICONST_n", 0>>, <<29, "ICONST_n", 0>>,
        <<30, "INVOKESTATIC", 5>>, <<33, "RETURN", 0>>,
        <<34, "ICONST_n", 0>>, <<35, "INVOKESTATIC", 6>>, <<38, "POP", 0>>, <<39, "RETURN", 0>> >>)
    @@ NestedLoops(2) @@ NestedBreak(3) @@ IfElseInIf(4) @@ DoWhile(5) @@ Fib(6)
=============================================================================
