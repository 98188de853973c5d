------------------------ MODULE TraceValuesProperties ------------------------
(***************************************************************************)
(* What a trace is to do to the values of its frame.                       *)
(***************************************************************************)
EXTENDS TraceValues

Operands ==
    [kind : {"REGISTER"}, reg : Pool] \cup [kind : {"IMMEDIATE"}, val : Ints]

AllRegisters == Pool \cup {"RAX", "RDX"}

Machines ==
    [ops : Seq(Operands), free : Seq(Pool),
     regs : [AllRegisters -> Longs], mem : [Vars -> Longs]]

(* Type invariant.  Operands are registers of the pool and int immediates, *)
(* and everything a trace computes is kept in 64 bits.                     *)
ValuesTypeOK ==
    /\ mode \in Modes
    /\ stack \in Seq(Ints) /\ locals \in [Vars -> Ints]
    /\ keys \in SUBSET Vars /\ assigned \in SUBSET Vars
    /\ trace \in Machines
    /\ steps \in 0 .. MaxSteps

InUse(c, r) == \E i \in DOMAIN c.ops : c.ops[i] = Reg(r)
Available(c, r) == \E i \in DOMAIN c.free : c.free[i] = r

(* Every register of the pool is in one place: one entry of the operand    *)
(* stack, one of the queue, or in the hands of a generator.                *)
Partitioned(c, held) ==
    /\ \A r \in Pool : InUse(c, r) \/ Available(c, r) \/ r \in held
    /\ \A r \in Pool : ~(InUse(c, r) /\ Available(c, r))
    /\ \A r \in held : ~InUse(c, r) /\ ~Available(c, r)
    /\ \A i, j \in DOMAIN c.free : c.free[i] = c.free[j] => i = j
    /\ \A i, j \in DOMAIN c.ops : IsReg(c.ops[i]) /\ c.ops[i] = c.ops[j] => i = j

(* Three functions take registers and give them back by hand.  Still,      *)
(* between two entries none is lost, and none holds two operands at a time.*)
RegistersPartitioned == Partitioned(trace, {})

ByteCode == INSTANCE ByteCodeValues WITH stack <- VisibleStack, locals <- VisibleLocals

(* However native code and interpreter take turns, operand stack and local *)
(* variables are what the interpreter alone would make of them, although   *)
(* native code computes in 64 bits what byte code computes in 32.          *)
RefinesByteCode == ByteCode!ValuesSpec

(* A compiled branch is taken when the byte code it was compiled from is   *)
(* taken, and native code dies of a division when the byte code would.     *)
DecidesAsByteCode ==
    [][mode = "native" =>
        \A e \in Entries :
         /\ FallThrough(e) => ~Holds(e.op, VisibleStack)
         /\ JumpOut(e) /\ e.op \in Tests => Holds(e.op, VisibleStack)
         /\ NativeTraps(e) => DivisionTraps(Second(VisibleStack), Top(VisibleStack))]_vars

(* All values are written back when a trace is left (the comment at        *)
(* Compiler.cpp:41): a variable the program has assigned has a key, and    *)
(* with it its value, in the map the interpreter reads.                    *)
NoLocalIsLost == mode = "interpreting" => assigned \subseteq keys
=============================================================================
