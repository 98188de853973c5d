---------------------------- MODULE Interpreter ----------------------------
(***************************************************************************)
(* Interpreter::prepareNext and evalInstruction: what one byte code        *)
(* instruction does to the stack of states.  frames[1] is the pc of        *)
(* program->states.top(), frames[2] where its caller resumes, and so on.   *)
(***************************************************************************)
EXTENDS Bytecode

(* prepareNext has moved the pc past the instruction before evalInstruction*)
(* looks at it; jump(offset, 3) takes those three bytes back.  `cond` says *)
(* whether the tested relation holds of the operands.                      *)
EvalInstruction(frames, cond) ==
    LET pc    == Head(frames)
        below == Tail(frames)
        mn    == Mnemonic(pc)
    IN  CASE mn \in Branches      -> <<IF cond THEN Target(pc) ELSE After(pc)>> \o below
          [] mn = "GOTO"          -> <<Target(pc)>> \o below
          [] mn = "INVOKESTATIC"  -> <<EntryPc(Code[pc].arg), After(pc)>> \o below
          [] mn \in Returns       -> below
          [] OTHER                -> <<After(pc)>> \o below

(* The pc the machine is at, with the jumps that do no work behind it.     *)
Settle(frames) ==
    IF frames = <<>> THEN <<>> ELSE <<PastGotos[Head(frames)]>> \o Tail(frames)
=============================================================================
