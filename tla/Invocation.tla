------------------------------ MODULE Invocation ------------------------------
(***************************************************************************)
(* Interpreter::invoke and the returns, on the stack of States.  A call    *)
(* sums up the sizes of the parameters, then counts down again while the   *)
(* arguments leave the caller's operand stack.                             *)
(***************************************************************************)
EXTENDS Integers, Sequences

CONSTANTS
    Values,        \* what operands and local variables hold
    Signatures,    \* the argTypes of the methods there are
    MaxFrames,     \* bounds of the model: methods under way,
    MaxOperands    \* and operands of each

VARIABLES
    states,      \* Program::states, the top one first
    phase,       \* "eval", in a call "sizes" or "place", or "aborted"
    argTypes,    \* of methodToInvoke
    i,           \* the argument the loop under way is at
    key,         \* the local variable it has got to
    locals,      \* of the new state
    found        \* the caller's operands when the call began (not in the code)

callVars == <<argTypes, i, key, locals, found>>
vars == <<states, phase, callVars>>

State(operands, variables) == [operands |-> operands, locals |-> variables]

NoLocals == [v \in {} |-> 0]

(* Seen from outside a call has not begun until it is complete.            *)
Shown == IF phase = "eval" THEN states ELSE <<State(found, Head(states).locals)>> \o Tail(states)

Convention == INSTANCE CallingConvention WITH states <- Shown

(* A type is the sequence of its base types, outermost first.  Variables   *)
(* are made with a Value() in them.                                        *)
BaseTypes == {"Int", "Long", "Float", "Double", "String", "List"}
ASSUME SignatureAssumption ==
    /\ Signatures \subseteq Seq(Seq(BaseTypes))
    /\ 0 \in Values
    /\ MaxFrames \in Nat /\ MaxOperands \in Nat

-----------------------------------------------------------------------------
Current == Head(states)
Top == Current.operands[Len(Current.operands)]
WithOperands(operands) == <<State(operands, Current.locals)>> \o Tail(states)
Popped == SubSeq(Current.operands, 1, Len(Current.operands) - 1)

Init ==
    /\ states = <<State(<<>>, NoLocals)>>
    /\ phase = "eval"
    /\ argTypes = <<>> /\ i = 0 /\ key = 0 /\ locals = NoLocals /\ found = <<>>

Evaluating == phase = "eval" /\ states # <<>>

(* Any instruction that leaves a value.  What else instructions do is to   *)
(* the state on top, too, and makes no difference to calls.                *)
Push ==
    /\ Evaluating /\ Len(Current.operands) < MaxOperands
    /\ \E value \in Values : states' = WithOperands(Append(Current.operands, value))
    /\ UNCHANGED <<phase, callVars>>

(* RETURN, and the returns with a value; only main has no caller, and the  *)
(* verifier knows the value is there.                                      *)
Return ==
    /\ Evaluating
    /\ states' = Tail(states)
    /\ UNCHANGED <<phase, callVars>>

ReturnValue ==
    /\ Evaluating /\ Len(states) >= 2 /\ Current.operands # <<>>
    /\ Len(states[2].operands) < MaxOperands
    /\ states' = <<State(Append(states[2].operands, Top), states[2].locals)>>
                    \o Tail(Tail(states))
    /\ UNCHANGED <<phase, callVars>>

(* INVOKESTATIC; the verifier knows the arguments are there.               *)
Invoke ==
    /\ Evaluating /\ Len(states) < MaxFrames
    /\ \E types \in Signatures :
         Len(types) <= Len(Current.operands) /\ argTypes' = types
    /\ phase' = "sizes" /\ i' = 0 /\ key' = 0 /\ locals' = NoLocals
    /\ found' = Current.operands
    /\ UNCHANGED states

(* Mutant of SizeOf: one local variable for every argument.                *)
SizeOfOne(type) == 1

SizeOf(type) ==
    CASE type[1] \in {"Int", "Float"}   -> 1
      [] type[1] \in {"Long", "Double"} -> 2
      [] OTHER -> 0

(* Mutants of AddSize: the sum starts anew, and counts the first argument  *)
(* over and over.                                                          *)
AddSizeOnly ==
    /\ phase = "sizes" /\ i < Len(argTypes)
    /\ key' = SizeOf(argTypes[i + 1]) /\ i' = i + 1
    /\ UNCHANGED <<states, phase, argTypes, locals, found>>

AddFirstSize ==
    /\ phase = "sizes" /\ i < Len(argTypes)
    /\ key' = key + SizeOf(argTypes[1]) /\ i' = i + 1
    /\ UNCHANGED <<states, phase, argTypes, locals, found>>

(* sizeOf of all the types.                                                *)
AddSize ==
    /\ phase = "sizes" /\ i < Len(argTypes)
    /\ key' = key + SizeOf(argTypes[i + 1]) /\ i' = i + 1
    /\ UNCHANGED <<states, phase, argTypes, locals, found>>

StartPlacing ==
    /\ phase = "sizes" /\ i = Len(argTypes)
    /\ phase' = "place"
    /\ UNCHANGED <<states, callVars>>

(* An unsigned difference in the code: it would wrap round below zero.     *)
PlaceArgument ==
    /\ phase = "place" /\ i > 0
    /\ key' = key - SizeOf(argTypes[i]) /\ i' = i - 1
    /\ locals' = [v \in DOMAIN locals \cup {key'} |-> IF v = key' THEN Top ELSE locals[v]]
    /\ states' = WithOperands(Popped)
    /\ UNCHANGED <<phase, argTypes, found>>

(* What the debug output reads, operator[] creates; the arguments of the   *)
(* macro are evaluated with printing switched off, too.                    *)
Printed(variables) ==
    [v \in DOMAIN variables \cup {0, 1} |-> IF v \in DOMAIN variables THEN variables[v] ELSE 0]

(* The assertion, and the new state on top.                                *)
EnterMethod ==
    /\ phase = "place" /\ i = 0
    /\ IF key = 0
       THEN /\ states' = <<State(<<>>, Printed(locals))>> \o states
            /\ phase' = "eval"
       ELSE phase' = "aborted" /\ UNCHANGED states
    /\ UNCHANGED callVars

Stop == (phase = "aborted" \/ states = <<>>) /\ UNCHANGED vars

Next ==
    \/ Push \/ Return \/ ReturnValue
    \/ Invoke \/ AddSize \/ StartPlacing \/ PlaceArgument \/ EnterMethod
    \/ Stop

Spec == Init /\ [][Next]_vars

-----------------------------------------------------------------------------
(* Type invariant.  The variable counted down to is never below 0: size_t  *)
(* does not wrap round.                                                    *)
LocalsOK(f) == DOMAIN f \subseteq Nat /\ \A v \in DOMAIN f : f[v] \in Values

CallTypeOK ==
    /\ \A k \in DOMAIN states :
         LET state == states[k]
         IN  /\ state = State(state.operands, state.locals)
             /\ state.operands \in Seq(Values) /\ LocalsOK(state.locals)
    /\ phase \in {"eval", "sizes", "place", "aborted"}
    /\ argTypes \in Signatures \cup {<<>>}
    /\ i \in 0 .. Len(argTypes)
    /\ key \in Nat
    /\ LocalsOK(locals)
    /\ found \in Seq(Values)

(* The sizes taken off are those added up: the assertion of invoke that    *)
(* the first argument ends up in the beginning holds, references or not.   *)
SizesAddUp == phase # "aborted"

(* A call is one step that leaves the caller what is below the arguments   *)
(* and puts each of them where javac expects it, if all are numbers.       *)
CallsKeepConvention == Convention!Spec
=============================================================================
