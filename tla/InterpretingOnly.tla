-------------------------- MODULE InterpretingOnly --------------------------
(***************************************************************************)
(* The run loop built with INTERPRETING_ONLY: fetch, evaluate, repeat.  It *)
(* is what the tracing run loop promises, since recording, compiling and   *)
(* native traces are there for speed and may not change where the program  *)
(* goes.  Unconditional forward jumps are folded into the step before      *)
(* them, because a compiled trace does not contain them.                   *)
(***************************************************************************)
EXTENDS Interpreter

VARIABLES
    frames,   \* program->states, settled
    cond      \* whether the relation the next conditional branch tests holds

vars == <<frames, cond>>

Init ==
    /\ frames = Settle(<<EntryPc(MainMethod)>>)
    /\ cond \in BOOLEAN

(* Operands change between branches as the program wills, so the oracle is *)
(* drawn anew whenever a branch has used it.                               *)
Step ==
    /\ frames # <<>>
    /\ frames' = Settle(EvalInstruction(frames, cond))
    /\ cond' \in (IF Mnemonic(Head(frames)) \in Branches THEN BOOLEAN ELSE {cond})

Spec == Init /\ [][Step]_vars
=============================================================================
