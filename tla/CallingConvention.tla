-------------------------- MODULE CallingConvention --------------------------
(***************************************************************************)
(* What a call of a static method is to do to the stack of States: an      *)
(* abstract specification of Interpreter::invoke, where a call is one step.*)
(***************************************************************************)
EXTENDS Integers, Sequences

CONSTANTS
    Values,       \* what operands and local variables hold
    Signatures    \* the argTypes of the methods there are

VARIABLE states   \* of the methods under way, the top one first

NoLocals == [v \in {} |-> 0]
State(operands, locals) == [operands |-> operands, locals |-> locals]

Numbers == {"Int", "Long", "Float", "Double"}
NumbersOnly(argTypes) == \A i \in DOMAIN argTypes : argTypes[i][1] \in Numbers

(* Where javac expects the parameters: each after those before it, long    *)
(* and double taking two local variables.                                  *)
Width(type) == IF type[1] \in {"Long", "Double"} THEN 2 ELSE 1
SlotMaps(argTypes) == [1 .. Len(argTypes) + 1 -> 0 .. 2 * Len(argTypes)]
IsLayout(slot, argTypes) ==
    /\ slot[1] = 0
    /\ \A i \in DOMAIN argTypes : slot[i + 1] = slot[i] + Width(argTypes[i])

(* Every argument is in its slot, and nothing is in any other variable.    *)
LaidOut(locals, argTypes, args) ==
    \E slot \in SlotMaps(argTypes) :
        /\ IsLayout(slot, argTypes)
        /\ \A i \in DOMAIN argTypes :
                slot[i] \in DOMAIN locals /\ locals[slot[i]] = args[i]
        /\ \A key \in DOMAIN locals :
                locals[key] # 0 => \E i \in DOMAIN argTypes : slot[i] = key

-----------------------------------------------------------------------------
Init == states = <<State(<<>>, NoLocals)>>

Current == Head(states)
WithOperands(operands) == <<State(operands, Current.locals)>> \o Tail(states)

(* The method under way computes something.                                *)
Push ==
    /\ states # <<>>
    /\ \E value \in Values :
         states' = WithOperands(Append(Current.operands, value))

(* A call takes its arguments, the last one on top, and no more.           *)
Call ==
    /\ states # <<>>
    /\ \E argTypes \in Signatures :
         LET kept == Len(Current.operands) - Len(argTypes)
         IN  /\ kept >= 0
             /\ states' # <<>>
             /\ Tail(states') = WithOperands(SubSeq(Current.operands, 1, kept))
             /\ Head(states').operands = <<>>
             /\ NumbersOnly(argTypes) =>
                    LaidOut(Head(states').locals, argTypes,
                            [i \in DOMAIN argTypes |-> Current.operands[kept + i]])

Return ==
    /\ states # <<>>
    /\ states' = Tail(states)

(* The caller finds the result above what it had before the call.          *)
ReturnValue ==
    /\ Len(states) >= 2 /\ Current.operands # <<>>
    /\ LET caller == states[2]
           result == Current.operands[Len(Current.operands)]
       IN  states' = <<State(Append(caller.operands, result), caller.locals)>>
                       \o Tail(Tail(states))

Next == Push \/ Call \/ Return \/ ReturnValue

Spec == Init /\ [][Next]_states
=============================================================================
