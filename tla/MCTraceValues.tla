---------------------------- MODULE MCTraceValues ----------------------------
(***************************************************************************)
(* Two registers and two variables, ints of three bits and registers of    *)
(* five.                                                                   *)
(***************************************************************************)
EXTENDS TraceValuesProperties, TLC

TwoVars == {"x", "y"}
NoVars == {}
SomeArguments ==
    {[x |-> 3, y |-> 0], [x |-> -4, y |-> -1]}
NoArguments == {[x |-> 0, y |-> 0]}
TwoRegisters == <<"RSI", "RCX">>

Entry(op, var, val) == [op |-> op, var |-> var, val |-> val]
Operator(op) == Entry(op, "x", 0)

SomeEntries ==
    {Entry("ILOAD", v, 0) : v \in TwoVars}
    \cup {Entry("ISTORE", v, 0) : v \in TwoVars}
    \cup {Entry("PUSH", "x", n) : n \in {-3, 2}}
    \cup {Entry("IINC", "x", 1)}
    \cup {Operator(op) : op \in {"IADD", "ISUB", "IMUL", "IDIV", "IREM",
                                 "IF_ICMPGE", "IF_ICMPLE", "IFEQ", "GOTO"}}

(* The loop of a method that counts down: i-- and its test.                *)
LoopEntries ==
    {Entry("ILOAD", "x", 0), Entry("IINC", "x", 3), Operator("IFEQ"), Operator("GOTO")}
=============================================================================
