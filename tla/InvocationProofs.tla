-------------------------- MODULE InvocationProofs --------------------------
(***************************************************************************)
(* Proof that invoke keeps the calling convention, for all methods, values *)
(* and depths of calls.                                                    *)
(***************************************************************************)
EXTENDS Invocation, SequenceTheorems, TLAPS

LocalMaps == UNION {[vs -> Values] : vs \in SUBSET Nat}
States == [operands : Seq(Values), locals : LocalMaps]

(* What is known of a call under way: where in the caller's stack the      *)
(* arguments are that have not been placed yet,                            *)
Calling == phase \in {"sizes", "place"}
Below == Len(found) - Len(argTypes)

CallerWaits ==
    Calling =>
        /\ states # <<>> /\ argTypes \in Signatures /\ Below >= 0
        /\ phase = "sizes" => locals = NoLocals /\ Current.operands = found
        /\ phase = "place" => Current.operands = SubSeq(found, 1, Below + i)

(* and that there is a variable for each argument summed up so far, with   *)
(* the arguments placed in theirs.                                         *)
SizesUpTo(slot, n) == \A j \in 1 .. n : slot[j + 1] = slot[j] + SizeOf(argTypes[j])

Summed(slot) ==
    /\ slot \in [1 .. Len(argTypes) + 1 -> Nat]
    /\ slot[1] = 0 /\ slot[i + 1] = key
    /\ SizesUpTo(slot, IF phase = "place" THEN Len(argTypes) ELSE i)
    /\ \A j \in 1 .. Len(argTypes) + 1 : slot[j] <= 2 * (j - 1)

Placed(slot) ==
    /\ DOMAIN locals = {slot[j] : j \in i + 1 .. Len(argTypes)}
    /\ Convention!NumbersOnly(argTypes) =>
         \A j \in i + 1 .. Len(argTypes) :
            slot[j] >= key /\ locals[slot[j]] = found[Below + j]

SlotsKnown ==
    Calling => \E slot : Summed(slot) /\ (phase = "place" => Placed(slot))

CallInv ==
    /\ states \in Seq(States)
    /\ phase \in {"eval", "sizes", "place"}
    /\ argTypes \in Signatures \cup {<<>>}
    /\ i \in 0 .. Len(argTypes)
    /\ key \in Nat
    /\ locals \in LocalMaps
    /\ found \in Seq(Values)
    /\ CallerWaits /\ SlotsKnown

-----------------------------------------------------------------------------
LEMMA NoLocalsTyped == NoLocals \in LocalMaps /\ DOMAIN NoLocals = {}
<1>1. NoLocals \in [{} -> Values] /\ DOMAIN NoLocals = {}
  BY DEF NoLocals
<1> QED
  BY <1>1 DEF LocalMaps

LEMMA LocalMap ==
    /\ \A f \in LocalMaps : DOMAIN f \subseteq Nat /\ \A v \in DOMAIN f : f[v] \in Values
    /\ \A vs \in SUBSET Nat : [vs -> Values] \subseteq LocalMaps
BY DEF LocalMaps

LEMMA InvTyped == CallInv => CallTypeOK /\ SizesAddUp
<1> SUFFICES ASSUME CallInv PROVE CallTypeOK /\ SizesAddUp
  OBVIOUS
<1>1. \A state \in States : /\ state = State(state.operands, state.locals)
                            /\ state.operands \in Seq(Values) /\ LocalsOK(state.locals)
  BY LocalMap DEF States, State, LocalsOK
<1>2. \A k \in DOMAIN states : states[k] \in States
  BY DEF CallInv
<1> QED
  BY <1>1, <1>2, LocalMap DEF CallInv, CallTypeOK, SizesAddUp, LocalsOK

(* A method's parameters are a sequence.                                   *)
LEMMA Parameters ==
    ASSUME CallInv
    PROVE  argTypes \in Seq(Seq(BaseTypes)) /\ Len(argTypes) \in Nat /\ i \in Nat
<1>1. argTypes \in Seq(Seq(BaseTypes))
  BY SignatureAssumption, EmptySeq DEF CallInv
<1> QED
  BY <1>1 DEF CallInv

LEMMA Sizes == \A type : SizeOf(type) \in 0 .. 2
BY DEF SizeOf

LEMMA OnTop ==
    ASSUME NEW S, NEW x \in S, NEW s \in Seq(S)
    PROVE  /\ <<x>> \o s \in Seq(S) /\ <<x>> \o s # <<>>
           /\ Head(<<x>> \o s) = x /\ Tail(<<x>> \o s) = s
OBVIOUS

LEMMA Apart ==
    ASSUME NEW S, NEW s \in Seq(S), s # <<>>
    PROVE  Head(s) \in S /\ Tail(s) \in Seq(S) /\ s = <<Head(s)>> \o Tail(s)
<1>1. Head(s) \in S /\ Tail(s) \in Seq(S) /\ Len(Tail(s)) = Len(s) - 1
      /\ \A k \in 1 .. Len(Tail(s)) : Tail(s)[k] = s[k + 1]
  BY HeadTailProperties
<1>2. /\ <<Head(s)>> \o Tail(s) \in Seq(S)
      /\ Len(<<Head(s)>> \o Tail(s)) = Len(s)
      /\ \A k \in 1 .. Len(s) : (<<Head(s)>> \o Tail(s))[k] = s[k]
  BY <1>1
<1> QED
  BY <1>1, <1>2, SeqEqual

LEMMA SecondOf ==
    ASSUME NEW S, NEW s \in Seq(S), Len(s) >= 2
    PROVE  s[2] \in S /\ Tail(Tail(s)) \in Seq(S)
<1>1. ASSUME NEW t \in Seq(S), Len(t) >= 1 PROVE Tail(t) \in Seq(S) /\ Len(Tail(t)) = Len(t) - 1
  <2>1. t # <<>>
    BY <1>1
  <2> QED
    BY <2>1, HeadTailProperties
<1>2. s \in Seq(S) /\ Len(s) \in Nat /\ 2 \in 1 .. Len(s) /\ Len(s) >= 1
  BY LenProperties
<1>3. s[2] \in S
  BY <1>2, ElementOfSeq
<1>4. Tail(s) \in Seq(S) /\ Len(Tail(s)) >= 1
  BY <1>1, <1>2
<1> QED
  BY <1>1, <1>3, <1>4

LEMMA StateTyped ==
    /\ \A ops \in Seq(Values), ls \in LocalMaps :
         /\ State(ops, ls) \in States
         /\ State(ops, ls).operands = ops /\ State(ops, ls).locals = ls
    /\ \A state \in States :
         /\ state.operands \in Seq(Values) /\ state.locals \in LocalMaps
         /\ state = State(state.operands, state.locals)
BY DEF States, State

LEMMA CurrentTyped ==
    ASSUME CallInv, states # <<>>
    PROVE  /\ Current.operands \in Seq(Values) /\ Current.locals \in LocalMaps
           /\ Tail(states) \in Seq(States)
           /\ states = <<State(Current.operands, Current.locals)>> \o Tail(states)
<1>1. Current \in States /\ Tail(states) \in Seq(States) /\ states = <<Current>> \o Tail(states)
  BY Apart DEF CallInv, Current
<1> QED
  BY <1>1, StateTyped

(* The state on top with other operands.                                   *)
LEMMA WithTyped ==
    ASSUME CallInv, states # <<>>, NEW ops \in Seq(Values)
    PROVE  /\ WithOperands(ops) \in Seq(States) /\ WithOperands(ops) # <<>>
           /\ Head(WithOperands(ops)) = State(ops, Current.locals)
           /\ Tail(WithOperands(ops)) = Tail(states)
BY CurrentTyped, StateTyped, OnTop DEF WithOperands

-----------------------------------------------------------------------------
(* Every step keeps the invariant.                                         *)

LEMMA InitCall == Init => CallInv
<1> SUFFICES ASSUME Init PROVE CallInv
  OBVIOUS
<1>1. State(<<>>, NoLocals) \in States
  BY NoLocalsTyped, StateTyped, EmptySeq
<1>2. states \in Seq(States)
  BY <1>1 DEF Init
<1> QED
  BY <1>2, NoLocalsTyped, EmptySeq DEF Init, CallInv, CallerWaits, SlotsKnown, Calling

(* Outside of calls there is nothing more to show than the new states.     *)
LEMMA EvaluatingKeeps ==
    ASSUME CallInv, phase = "eval", UNCHANGED <<phase, callVars>>, states' \in Seq(States)
    PROVE  CallInv'
BY DEF CallInv, CallerWaits, SlotsKnown, Calling, callVars, LocalMaps

LEMMA PushKeeps == CallInv /\ Push => CallInv'
<1> SUFFICES ASSUME CallInv, Push PROVE CallInv'
  OBVIOUS
<1>1. PICK value \in Values : states' = WithOperands(Append(Current.operands, value))
  BY DEF Push
<1>2. Append(Current.operands, value) \in Seq(Values)
  BY CurrentTyped DEF Push, Evaluating
<1> QED
  BY <1>1, <1>2, WithTyped, EvaluatingKeeps DEF Push, Evaluating

LEMMA ReturnKeeps == CallInv /\ Return => CallInv'
BY CurrentTyped, EvaluatingKeeps DEF Return, Evaluating

LEMMA ReturnValueKeeps == CallInv /\ ReturnValue => CallInv'
<1> SUFFICES ASSUME CallInv, ReturnValue PROVE CallInv'
  OBVIOUS
<1> DEFINE caller == states[2]
<1>1. caller \in States /\ Tail(Tail(states)) \in Seq(States)
  BY SecondOf DEF CallInv, ReturnValue
<1>2. Top \in Values
  BY CurrentTyped DEF ReturnValue, Evaluating, Top
<1>3. State(Append(caller.operands, Top), caller.locals) \in States
  <2>1. caller.operands \in Seq(Values) /\ caller.locals \in LocalMaps
    BY <1>1, StateTyped
  <2>2. Append(caller.operands, Top) \in Seq(Values)
    BY <1>2, <2>1
  <2> QED
    BY <2>1, <2>2, StateTyped
<1> QED
  BY <1>1, <1>3, OnTop, EvaluatingKeeps DEF ReturnValue, Evaluating

LEMMA InvokeKeeps == CallInv /\ Invoke => CallInv'
<1> SUFFICES ASSUME CallInv, Invoke PROVE CallInv'
  OBVIOUS
<1>1. argTypes' \in Signatures /\ Len(argTypes') <= Len(Current.operands)
  BY DEF Invoke
<1>2. Len(argTypes') \in Nat /\ DOMAIN argTypes' = 1 .. Len(argTypes')
  BY <1>1, SignatureAssumption
<1>3. found' = Current.operands /\ found' \in Seq(Values)
  BY CurrentTyped DEF Invoke, Evaluating
<1>5. CallerWaits'
  BY <1>1, <1>2, <1>3 DEF Invoke, Evaluating, CallerWaits, Below, Current
<1>6. SlotsKnown'
  <2>1. PICK slot : slot = [j \in 1 .. Len(argTypes') + 1 |-> 0]
    OBVIOUS
  <2>2. Summed(slot)'
    BY <1>2, <2>1 DEF Summed, SizesUpTo, Invoke
  <2> QED
    BY <2>2 DEF SlotsKnown, Invoke
<1> QED
  BY <1>1, <1>2, <1>3, <1>5, <1>6, NoLocalsTyped DEF CallInv, Invoke

LEMMA AddSizeKeeps == CallInv /\ AddSize => CallInv'
<1> SUFFICES ASSUME CallInv, AddSize PROVE CallInv'
  OBVIOUS
<1> DEFINE n == Len(argTypes)
           size == SizeOf(argTypes[i + 1])
<1>1. n \in Nat /\ i \in Nat /\ i < n /\ DOMAIN argTypes = 1 .. n /\ size \in 0 .. 2 /\ key \in Nat
  BY Parameters, Sizes DEF AddSize, CallInv
<1>2. PICK slot : Summed(slot)
  BY DEF CallInv, SlotsKnown, Calling, AddSize
<1>3. PICK next : next = [slot EXCEPT ![i + 2] = key + size]
  OBVIOUS
<1>4. Summed(next)'
  <2>1. slot \in [1 .. n + 1 -> Nat] /\ slot[1] = 0 /\ slot[i + 1] = key
        /\ \A j \in 1 .. n + 1 : slot[j] <= 2 * (j - 1)
    BY <1>2 DEF Summed
  <2>2. \A j \in 1 .. i : slot[j + 1] = slot[j] + SizeOf(argTypes[j])
    BY <1>2 DEF Summed, SizesUpTo, AddSize
  <2>3. next \in [1 .. n + 1 -> Nat] /\ next[i + 2] = key + size
        /\ \A j \in 1 .. n + 1 : j # i + 2 => next[j] = slot[j]
    BY <1>1, <1>3, <2>1
  <2>4. next[1] = 0 /\ next[i + 1] = key
    <3>1. 1 \in 1 .. n + 1 /\ i + 1 \in 1 .. n + 1 /\ 1 # i + 2 /\ i + 1 # i + 2
      BY <1>1
    <3> QED
      BY <2>1, <2>3, <3>1
  <2>5. \A j \in 1 .. i + 1 : next[j + 1] = next[j] + SizeOf(argTypes[j])
    BY <1>1, <2>2, <2>3, <2>4
  <2>6. \A j \in 1 .. n + 1 : next[j] <= 2 * (j - 1)
    <3>1. key <= 2 * i
      BY <1>1, <2>1
    <3>2. next[i + 2] <= 2 * (i + 1)
      BY <1>1, <2>3, <3>1
    <3> QED
      BY <1>1, <2>1, <2>3, <3>2
  <2>7. SizesUpTo(next, IF phase = "place" THEN n ELSE i)'
    BY <2>5 DEF SizesUpTo, AddSize
  <2>8. next[i' + 1] = key'
    BY <1>1, <2>3 DEF AddSize
  <2> QED
    BY <2>3, <2>4, <2>6, <2>7, <2>8 DEF Summed, AddSize
<1>5. CallerWaits'
  BY DEF CallInv, AddSize, CallerWaits, Calling, Below, Current
<1>6. SlotsKnown'
  BY <1>4 DEF SlotsKnown, AddSize
<1> QED
  BY <1>1, <1>5, <1>6 DEF CallInv, AddSize, LocalMaps

LEMMA StartPlacingKeeps == CallInv /\ StartPlacing => CallInv'
<1> SUFFICES ASSUME CallInv, StartPlacing PROVE CallInv'
  OBVIOUS
<1>1. Len(argTypes) \in Nat /\ i = Len(argTypes) /\ DOMAIN argTypes = 1 .. i
      /\ found \in Seq(Values) /\ Len(found) \in Nat /\ Below + i = Len(found)
  BY Parameters DEF StartPlacing, CallInv, Below
<1>2. CallerWaits'
  <2>1. SubSeq(found, 1, Below + i) = found
    BY <1>1, SubSeqFull
  <2> QED
    BY <2>1 DEF CallInv, StartPlacing, CallerWaits, Calling, Below, Current, callVars
<1>3. PICK slot : Summed(slot)
  BY DEF CallInv, SlotsKnown, Calling, StartPlacing
<1>4. Summed(slot)'
  BY <1>1, <1>3 DEF Summed, SizesUpTo, StartPlacing, callVars
<1>5. Placed(slot)'
  <2>1. DOMAIN locals = {}
    BY NoLocalsTyped DEF CallInv, CallerWaits, StartPlacing, Calling
  <2> QED
    BY <1>1, <2>1 DEF Placed, StartPlacing, callVars
<1>6. SlotsKnown'
  BY <1>4, <1>5 DEF SlotsKnown
<1> QED
  BY <1>2, <1>6 DEF CallInv, StartPlacing, callVars, LocalMaps

(* The argument that is next is on top of the caller's operands.           *)
LEMMA PlacingTyped ==
    ASSUME CallInv, PlaceArgument
    PROVE  /\ Top = found[Below + i] /\ Top \in Values
           /\ Popped = SubSeq(found, 1, Below + (i - 1)) /\ Popped \in Seq(Values)
<1> DEFINE n == Len(argTypes)
<1>1. n \in Nat /\ i \in 1 .. n /\ DOMAIN argTypes = 1 .. n /\ key \in Nat
  BY Parameters DEF PlaceArgument, CallInv
<1>2. found \in Seq(Values) /\ Len(found) \in Nat /\ Below \in Nat /\ Below + n = Len(found)
      /\ states # <<>> /\ argTypes \in Signatures /\ Current.operands = SubSeq(found, 1, Below + i)
  BY <1>1 DEF CallInv, CallerWaits, Calling, PlaceArgument, Below
<1>3. /\ Len(Current.operands) = Below + i
      /\ Top = found[Below + i] /\ Top \in Values
  BY <1>1, <1>2 DEF Top
<1> QED
  BY <1>1, <1>2, <1>3 DEF Popped

LEMMA PlaceArgumentKeeps == CallInv /\ PlaceArgument => CallInv'
<1> SUFFICES ASSUME CallInv, PlaceArgument PROVE CallInv'
  OBVIOUS
<1> DEFINE n == Len(argTypes)
<1>1. n \in Nat /\ i \in 1 .. n /\ DOMAIN argTypes = 1 .. n /\ key \in Nat
  BY Parameters DEF PlaceArgument, CallInv
<1>2. Below \in Nat /\ found \in Seq(Values) /\ states # <<>> /\ argTypes \in Signatures
  BY <1>1 DEF CallInv, CallerWaits, Calling, PlaceArgument, Below
<1>3. Top = found[Below + i] /\ Top \in Values
  BY PlacingTyped
<1>4. Popped = SubSeq(found, 1, Below + (i - 1)) /\ Popped \in Seq(Values)
  BY PlacingTyped
<1>5. states' \in Seq(States) /\ CallerWaits'
  <2>1. states' = WithOperands(Popped)
    BY DEF PlaceArgument
  <2>2. /\ states' \in Seq(States) /\ states' # <<>>
        /\ Current' = State(Popped, Current.locals)
    BY <1>2, <1>4, <2>1, WithTyped DEF Current
  <2>3. Current'.operands = Popped
    BY <2>2 DEF State
  <2> QED
    BY <1>2, <1>4, <2>2, <2>3 DEF PlaceArgument, CallerWaits, Calling, Below
<1>6. PICK slot : Summed(slot) /\ Placed(slot)
  BY DEF CallInv, SlotsKnown, Calling, PlaceArgument
<1>7. /\ slot \in [1 .. n + 1 -> Nat] /\ slot[i + 1] = key
      /\ slot[i + 1] = slot[i] + SizeOf(argTypes[i])
  BY <1>1, <1>6 DEF Summed, SizesUpTo, PlaceArgument
<1>8. key' = slot[i] /\ key' \in Nat /\ SizeOf(argTypes[i]) \in 0 .. 2
  BY <1>1, <1>7, Sizes DEF PlaceArgument
<1>9. Summed(slot)'
  BY <1>1, <1>6, <1>8 DEF Summed, SizesUpTo, PlaceArgument
<1>10. Placed(slot)'
  <2>1. DOMAIN locals' = DOMAIN locals \cup {slot[i]}
        /\ \A v \in DOMAIN locals' : locals'[v] = IF v = slot[i] THEN Top ELSE locals[v]
    BY <1>8 DEF PlaceArgument
  <2>2. DOMAIN locals = {slot[j] : j \in i + 1 .. n}
    BY <1>6 DEF Placed
  <2>3. DOMAIN locals' = {slot[j] : j \in i .. n}
    BY <1>1, <2>1, <2>2
  <2>4. ASSUME Convention!NumbersOnly(argTypes), NEW j \in i .. n
        PROVE  slot[j] >= slot[i] /\ locals'[slot[j]] = found[Below + j]
    <3>1. CASE j = i
      BY <1>1, <1>3, <1>7, <2>1, <2>3, <3>1
    <3>2. CASE j \in i + 1 .. n
      <4>1. slot[j] >= slot[i + 1] /\ locals[slot[j]] = found[Below + j]
        BY <1>6, <1>7, <2>4, <3>2 DEF Placed
      <4>2. SizeOf(argTypes[i]) >= 1
        BY <1>1, <2>4 DEF Convention!NumbersOnly, Convention!Numbers, SizeOf
      <4>3. slot[i] \in Nat /\ slot[j] \in Nat
        BY <1>1, <1>7, <3>2
      <4>4. slot[j] # slot[i] /\ slot[j] >= slot[i]
        BY <1>7, <1>8, <4>1, <4>2, <4>3
      <4>5. slot[j] \in DOMAIN locals'
        BY <2>3
      <4> QED
        BY <2>1, <4>1, <4>4, <4>5
    <3> QED
      BY <1>1, <3>1, <3>2
  <2> QED
    <3>1. i' + 1 = i /\ argTypes' = argTypes /\ found' = found
      BY <1>1 DEF PlaceArgument
    <3> QED
      BY <1>8, <2>3, <2>4, <3>1 DEF Placed, Below
<1>11. locals' \in LocalMaps
  <2>1. DOMAIN locals \subseteq Nat /\ \A v \in DOMAIN locals : locals[v] \in Values
    BY LocalMap DEF CallInv
  <2>2. locals' \in [DOMAIN locals \cup {key'} -> Values]
    BY <1>3, <2>1 DEF PlaceArgument
  <2> QED
    BY <1>8, <2>1, <2>2, LocalMap
<1> QED
  BY <1>1, <1>5, <1>8, <1>9, <1>10, <1>11 DEF CallInv, PlaceArgument, SlotsKnown

(* The assertion holds: all sizes have been taken off again.               *)
LEMMA KeyIsZero ==
    ASSUME CallInv, EnterMethod
    PROVE  key = 0 /\ states' = <<State(<<>>, Printed(locals))>> \o states /\ phase' = "eval"
<1>1. PICK slot : Summed(slot)
  BY DEF CallInv, SlotsKnown, Calling, EnterMethod
<1>2. key = 0
  BY <1>1 DEF Summed, EnterMethod
<1> QED
  BY <1>2 DEF EnterMethod

LEMMA EnterMethodTyped ==
    ASSUME CallInv
    PROVE  Printed(locals) \in LocalMaps /\ State(<<>>, Printed(locals)) \in States
<1>1. DOMAIN locals \subseteq Nat /\ \A v \in DOMAIN locals : locals[v] \in Values
  BY LocalMap DEF CallInv
<1>2. Printed(locals) \in [DOMAIN locals \cup {0, 1} -> Values]
  BY <1>1, SignatureAssumption DEF Printed
<1>3. Printed(locals) \in LocalMaps
  BY <1>1, <1>2, LocalMap
<1> QED
  BY <1>3, StateTyped, EmptySeq

LEMMA EnterMethodKeeps == CallInv /\ EnterMethod => CallInv'
<1> SUFFICES ASSUME CallInv, EnterMethod PROVE CallInv'
  OBVIOUS
<1>1. states' \in Seq(States)
  <2>1. states \in Seq(States) /\ states' = <<State(<<>>, Printed(locals))>> \o states
    BY KeyIsZero DEF CallInv
  <2> QED
    BY <2>1, EnterMethodTyped, OnTop
<1> QED
  BY <1>1, KeyIsZero DEF CallInv, EnterMethod, callVars, CallerWaits, SlotsKnown, Calling

LEMMA NextKeepsCall == CallInv /\ [Next]_vars => CallInv'
<1> SUFFICES ASSUME CallInv, [Next]_vars PROVE CallInv'
  OBVIOUS
<1>1. CASE UNCHANGED vars
  <2>1. UNCHANGED <<states, phase, argTypes, i, key, locals, found>>
    BY <1>1 DEF vars, callVars
  <2>2. CallerWaits' /\ LocalMaps' = LocalMaps /\ States' = States
    BY <2>1 DEF CallInv, CallerWaits, Calling, Below, Current, LocalMaps, States
  <2>3. SlotsKnown'
    <3>1. ASSUME NEW slot PROVE /\ Summed(slot) => Summed(slot)'
                                /\ Placed(slot) => Placed(slot)'
      BY <2>1 DEF Summed, SizesUpTo, Placed, Below
    <3> QED
      BY <2>1, <3>1 DEF CallInv, SlotsKnown, Calling
  <2> QED
    BY <2>1, <2>2, <2>3 DEF CallInv
<1> QED
  BY <1>1, PushKeeps, ReturnKeeps, ReturnValueKeeps, InvokeKeeps, AddSizeKeeps,
     StartPlacingKeeps, PlaceArgumentKeeps, EnterMethodKeeps DEF Next, Stop

(* Calls keep to types, and the variable counted down to stays a number of *)
(* a variable.                                                             *)
THEOREM CallsTypeCorrect == Spec => []CallTypeOK
BY InitCall, NextKeepsCall, InvTyped, PTL DEF Spec

(* The assertion of invoke never fails, for parameters of any types.       *)
THEOREM InvokeAssertionHolds == Spec => []SizesAddUp
BY InitCall, NextKeepsCall, InvTyped, PTL DEF Spec

-----------------------------------------------------------------------------
(* Every step shows as a step of the convention or not at all.             *)

LEMMA CallComplete ==
    ASSUME CallInv, EnterMethod
    PROVE  Convention!Call
<1> DEFINE n == Len(argTypes)
           new == State(<<>>, Printed(locals))
<1>1. n \in Nat /\ i = 0 /\ DOMAIN argTypes = 1 .. n /\ argTypes \in Signatures
  BY Parameters DEF EnterMethod, CallInv, CallerWaits, Calling
<1>2. found \in Seq(Values) /\ Len(found) \in Nat /\ Below \in Nat /\ Below = Len(found) - n
      /\ states # <<>> /\ Current.operands = SubSeq(found, 1, Below)
  BY <1>1 DEF CallInv, CallerWaits, Calling, EnterMethod, Below
<1>3. /\ Shown # <<>> /\ Head(Shown) = State(found, Current.locals)
      /\ Tail(Shown) = Tail(states)
  BY <1>2, CurrentTyped, StateTyped, OnTop DEF Shown, EnterMethod, Current
<1>4. states \in Seq(States) /\ new \in States /\ new.operands = <<>>
      /\ new.locals = Printed(locals)
  BY EnterMethodTyped, StateTyped, EmptySeq DEF CallInv
<1>5. /\ Shown' # <<>> /\ Head(Shown') = new /\ Tail(Shown') = states
  <2>1. Shown' = <<new>> \o states
    BY KeyIsZero DEF Shown
  <2> QED
    BY <1>4, <2>1, OnTop
<1>6. states = <<State(SubSeq(found, 1, Below), Current.locals)>> \o Tail(states)
  BY <1>2, CurrentTyped
<1>7. ASSUME Convention!NumbersOnly(argTypes)
      PROVE  Convention!LaidOut(Printed(locals), argTypes,
                                [j \in DOMAIN argTypes |-> found[Below + j]])
  <2>1. PICK slot : Summed(slot) /\ Placed(slot)
    BY DEF CallInv, SlotsKnown, Calling, EnterMethod
  <2>2. slot \in Convention!SlotMaps(argTypes)
    <3>1. slot \in [1 .. n + 1 -> Nat] /\ \A j \in 1 .. n + 1 : slot[j] <= 2 * (j - 1)
      BY <2>1 DEF Summed
    <3>2. \A j \in 1 .. n + 1 : slot[j] \in 0 .. 2 * n
      BY <1>1, <3>1
    <3> QED
      BY <3>1, <3>2 DEF Convention!SlotMaps
  <2>3. Convention!IsLayout(slot, argTypes)
    <3>1. \A j \in 1 .. n : SizeOf(argTypes[j]) = Convention!Width(argTypes[j])
      BY <1>1, <1>7 DEF Convention!NumbersOnly, Convention!Numbers, Convention!Width, SizeOf
    <3> QED
      BY <1>1, <2>1, <3>1 DEF Summed, SizesUpTo, EnterMethod, Convention!IsLayout
  <2>4. /\ DOMAIN locals = {slot[j] : j \in 1 .. n}
        /\ \A j \in 1 .. n : locals[slot[j]] = found[Below + j]
    BY <1>1, <1>7, <2>1 DEF Placed
  <2>5. \A j \in DOMAIN argTypes : /\ slot[j] \in DOMAIN Printed(locals)
                                   /\ Printed(locals)[slot[j]] = found[Below + j]
    BY <1>1, <2>4 DEF Printed
  <2>6. \A v \in DOMAIN Printed(locals) :
            Printed(locals)[v] # 0 => \E j \in DOMAIN argTypes : slot[j] = v
    BY <1>1, <2>4 DEF Printed
  <2> QED
    BY <2>2, <2>3, <2>5, <2>6 DEF Convention!LaidOut
<1>8. /\ Convention!Current.operands = found /\ Len(found) - n = Below
      /\ \A ops : Convention!WithOperands(ops) = <<State(ops, Current.locals)>> \o Tail(states)
  <2>1. Convention!Current = State(found, Current.locals) /\ Tail(Shown) = Tail(states)
    BY <1>3 DEF Convention!Current
  <2>2. Convention!Current.operands = found /\ Convention!Current.locals = Current.locals
    BY <2>1 DEF State
  <2>3. Len(found) - n = Below
    BY DEF Below
  <2>4. ASSUME NEW ops
        PROVE  Convention!WithOperands(ops) = <<State(ops, Current.locals)>> \o Tail(states)
    BY <2>1, <2>2 DEF Convention!WithOperands, Convention!State, State
  <2> QED
    BY <2>2, <2>3, <2>4
<1> QED
  <2> DEFINE kept == Len(Convention!Current.operands) - Len(argTypes)
  <2>1. kept = Below /\ kept >= 0
    BY <1>2, <1>8
  <2>2. Tail(Shown') = Convention!WithOperands(SubSeq(Convention!Current.operands, 1, kept))
    BY <1>5, <1>6, <1>8, <2>1
  <2>3. Head(Shown').operands = <<>>
    BY <1>4, <1>5
  <2>4. Convention!NumbersOnly(argTypes) =>
            Convention!LaidOut(Head(Shown').locals, argTypes,
                [j \in DOMAIN argTypes |-> Convention!Current.operands[kept + j]])
    BY <1>4, <1>5, <1>7, <1>8, <2>1
  <2> HIDE DEF new
  <2> QED
    BY <1>1, <1>3, <1>5, <2>1, <2>2, <2>3, <2>4 DEF Convention!Call

LEMMA EvaluatingShows ==
    ASSUME CallInv, Evaluating, UNCHANGED phase
    PROVE  /\ Shown = states /\ Shown' = states'
           /\ Convention!Current = Current
           /\ \A ops : Convention!WithOperands(ops) = WithOperands(ops)
BY DEF Evaluating, Shown, Convention!Current, Current, Convention!WithOperands, WithOperands,
       Convention!State, State

LEMMA PushShows == CallInv /\ Push => Convention!Push
BY EvaluatingShows DEF Push, Evaluating, Convention!Push

LEMMA ReturnShows == CallInv /\ Return => Convention!Return
BY EvaluatingShows DEF Return, Evaluating, Convention!Return

LEMMA ReturnValueShows == CallInv /\ ReturnValue => Convention!ReturnValue
BY EvaluatingShows DEF ReturnValue, Evaluating, Convention!ReturnValue, Convention!State, State, Top

(* Until the new state is on the stack, the caller is shown as it was.     *)
LEMMA CallingHidden ==
    ASSUME CallInv, AddSize \/ StartPlacing \/ PlaceArgument
    PROVE  UNCHANGED Shown
<1>1. phase # "eval" /\ phase' # "eval" /\ found' = found /\ states # <<>>
  BY DEF AddSize, StartPlacing, PlaceArgument, callVars, CallInv, CallerWaits, Calling
<1>2. Head(states').locals = Head(states).locals /\ Tail(states') = Tail(states)
  <2>1. CASE PlaceArgument
    <3>1. Popped \in Seq(Values)
      BY <1>1, <2>1, PlacingTyped
    <3>2. Head(states') = State(Popped, Current.locals) /\ Tail(states') = Tail(states)
      BY <1>1, <2>1, <3>1, WithTyped DEF PlaceArgument
    <3> QED
      BY <3>2 DEF State, Current
  <2>2. CASE AddSize \/ StartPlacing
    BY <2>2 DEF AddSize, StartPlacing
  <2> QED
    BY <2>1, <2>2
<1> QED
  BY <1>1, <1>2 DEF Shown

LEMMA InvokeHidden ==
    ASSUME CallInv, Invoke
    PROVE  UNCHANGED Shown
<1>1. phase = "eval" /\ phase' # "eval" /\ states' = states /\ states # <<>>
      /\ found' = Current.operands
  BY DEF Invoke, Evaluating
<1> QED
  BY <1>1, CurrentTyped DEF Shown, Current

(* Calls keep the calling convention: every method finds its arguments     *)
(* where javac puts them, in any nesting of calls and returns, and its     *)
(* caller what was below them.                                             *)
THEOREM CallsImplementConvention == Spec => CallsKeepConvention
<1>1. Init => Convention!Init
  BY DEF Init, Shown, Convention!Init, Convention!State, State, Convention!NoLocals, NoLocals
<1>2. CallInv /\ [Next]_vars => [Convention!Next]_Shown
  <2> SUFFICES ASSUME CallInv, [Next]_vars PROVE [Convention!Next]_Shown
    OBVIOUS
  <2>1. CASE UNCHANGED vars
    BY <2>1 DEF vars, callVars, Shown
  <2> QED
    BY <2>1, PushShows, ReturnShows, ReturnValueShows, CallComplete, CallingHidden,
       InvokeHidden DEF Next, Stop, Convention!Next
<1> QED
  BY <1>1, <1>2, InitCall, NextKeepsCall, PTL DEF Spec, CallsKeepConvention, Convention!Spec
=============================================================================
