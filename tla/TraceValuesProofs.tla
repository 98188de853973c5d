-------------------------- MODULE TraceValuesProofs --------------------------
(***************************************************************************)
(* Proofs of the properties of TraceValues.  They are built from lemmas on *)
(* the operators of the code generator: each says what one of them does to *)
(* the type of the machine, to the partition of the registers, and to the  *)
(* values of the operands.                                                 *)
(***************************************************************************)
EXTENDS TraceValuesProperties, TLAPS

-----------------------------------------------------------------------------
(* Words.  Arithmetic in long words, cut to an int at the end, is           *)
(* arithmetic in int words: sums, differences and products do not see the   *)
(* bits above.                                                              *)
LongsPerInt == LongHalf \div IntHalf

(* A multiple of m that is closer to 0 than m is 0.                        *)
LEMMA SmallMultiple ==
    ASSUME NEW m \in Nat \ {0}, NEW k \in Int, -m < k * m, k * m < m
    PROVE  k = 0
<1>1. CASE k >= 1
    <2>1. k * m >= m BY <1>1
    <2> QED BY <2>1
<1>2. CASE k <= -1
    <2>1. k * m <= -m BY <1>2
    <2> QED BY <2>1
<1> QED BY <1>1, <1>2

(* What Wrap returns: a word, congruent to its argument.                   *)
LEMMA WrapFacts ==
    ASSUME NEW half \in Nat \ {0}, NEW x \in Int
    PROVE  /\ Wrap(x, half) \in -half .. half - 1
           /\ \E k \in Int : Wrap(x, half) = x + k * (2 * half)
<1> DEFINE m == 2 * half
           y == x + half
<1>1. m \in Nat \ {0} /\ y \in Int OBVIOUS
<1> HIDE DEF m, y
<1>2. y % m \in 0 .. m - 1 /\ y \div m \in Int BY <1>1
<1>3. y = m * (y \div m) + (y % m) BY <1>1
<1>4. Wrap(x, half) = (y % m) - half BY DEF Wrap, m, y
<1>5. Wrap(x, half) \in -half .. half - 1 BY <1>2, <1>4 DEF m
<1>6. (y % m) = y + (-(y \div m)) * m
    <2>1. m * (y \div m) = (y \div m) * m BY <1>1, <1>2
    <2>2. (-(y \div m)) * m = -((y \div m) * m) BY <1>1, <1>2
    <2> QED BY <1>1, <1>2, <1>3, <2>1, <2>2
<1>7. Wrap(x, half) = x + (-(y \div m)) * m BY <1>2, <1>4, <1>6, <1>1 DEF y
<1>8. -(y \div m) \in Int BY <1>2
<1> QED BY <1>5, <1>7, <1>8 DEF m

(* There is one word only that is congruent to x.                          *)
LEMMA WrapUnique ==
    ASSUME NEW half \in Nat \ {0}, NEW x \in Int, NEW w \in -half .. half - 1,
           NEW k \in Int, w = x + k * (2 * half)
    PROVE  Wrap(x, half) = w
<1> DEFINE m == 2 * half
<1>1. m \in Nat \ {0} OBVIOUS
<1>2. PICK j \in Int : Wrap(x, half) = x + j * m BY WrapFacts
<1>3. Wrap(x, half) \in -half .. half - 1 BY WrapFacts
<1>4. (j - k) * m = j * m - k * m BY <1>1
<1>5. (j - k) * m = Wrap(x, half) - w BY <1>2, <1>3, <1>4
<1>6. -m < (j - k) * m /\ (j - k) * m < m BY <1>3, <1>5
<1>7. j - k \in Int OBVIOUS
<1> HIDE DEF m
<1>8. j - k = 0 BY <1>1, <1>6, <1>7, SmallMultiple
<1>9. j = k BY <1>8
<1> QED BY <1>2, <1>9 DEF m

LEMMA IntFits ==
    ASSUME NEW x \in Ints
    PROVE  AsInt(x) = x
<1>1. x \in -IntHalf .. IntHalf - 1 /\ x \in Int /\ IntHalf \in Nat \ {0}
    BY WordAssumption DEF Ints
<1>2. x = x + 0 * (2 * IntHalf) /\ 0 \in Int BY <1>1
<1>3. Wrap(x, IntHalf) = x BY ONLY <1>1, <1>2, WrapUnique
<1> QED BY <1>3 DEF AsInt

(* Congruent numbers have the same int.                                    *)
LEMMA AsIntCongruent ==
    ASSUME NEW x \in Int, NEW y \in Int, NEW k \in Int,
           y = x + k * (2 * IntHalf)
    PROVE  AsInt(y) = AsInt(x)
<1> DEFINE m == 2 * IntHalf
<1>1. m \in Nat BY WordAssumption
<1>2. PICK j \in Int : AsInt(y) = y + j * m BY WrapFacts, WordAssumption DEF AsInt
<1>3. AsInt(y) \in -IntHalf .. IntHalf - 1 BY WrapFacts, WordAssumption DEF AsInt
<1>4. (k + j) * m = k * m + j * m BY <1>1
<1>5. AsInt(y) = x + (k + j) * m BY <1>1, <1>2, <1>4
<1>6. k + j \in Int OBVIOUS
<1> HIDE DEF m
<1> QED BY <1>3, <1>5, <1>6, WrapUnique, WordAssumption DEF AsInt, m

(* A long has room for every int.                                          *)
LEMMA LongsAreWider == LongsPerInt \in Nat /\ IntHalf <= LongHalf /\ Ints \subseteq Longs
<1>1. LongsPerInt \in Nat /\ LongHalf = LongsPerInt * IntHalf
    BY WordAssumption DEF LongsPerInt
<1>2. LongsPerInt # 0
    <2>1. SUFFICES ASSUME LongsPerInt = 0 PROVE FALSE OBVIOUS
    <2>2. LongHalf = 0 BY <1>1, <2>1, WordAssumption
    <2> QED BY <2>2, WordAssumption
<1>3. LongsPerInt * IntHalf = (LongsPerInt - 1) * IntHalf + IntHalf
    BY <1>1, WordAssumption
<1>4. (LongsPerInt - 1) * IntHalf >= 0 BY <1>1, <1>2, WordAssumption
<1>5. IntHalf <= LongHalf BY <1>1, <1>3, <1>4, WordAssumption
<1> QED BY <1>1, <1>5, WordAssumption DEF Ints, Longs

LEMMA AsLongType ==
    ASSUME NEW x \in Int
    PROVE  AsLong(x) \in Longs
BY WrapFacts, WordAssumption DEF AsLong, Longs

LEMMA AsIntType ==
    ASSUME NEW x \in Int
    PROVE  AsInt(x) \in Ints
BY WrapFacts, WordAssumption DEF AsInt, Ints

(* Nothing is lost by keeping an int in a long until it is read.           *)
LEMMA IntOfLong ==
    ASSUME NEW x \in Int
    PROVE  AsInt(AsLong(x)) = AsInt(x)
<1>1. PICK k \in Int : AsLong(x) = x + k * (2 * LongHalf)
    BY WrapFacts, WordAssumption DEF AsLong
<1>2. LongsPerInt \in Nat /\ LongHalf = LongsPerInt * IntHalf
    BY WordAssumption DEF LongsPerInt
<1>3. k * (2 * LongHalf) = (k * LongsPerInt) * (2 * IntHalf)
    BY <1>2, WordAssumption
<1>4. k * LongsPerInt \in Int BY <1>2
<1>5. AsLong(x) \in Int BY AsLongType, WordAssumption DEF Longs
<1> QED BY <1>1, <1>3, <1>4, <1>5, AsIntCongruent

(* Arithmetic on words of any width, cut to an int.                        *)
LEMMA CutLate ==
    ASSUME NEW a \in Int, NEW b \in Int
    PROVE  /\ AsInt(AsInt(a) + AsInt(b)) = AsInt(a + b)
           /\ AsInt(AsInt(a) - AsInt(b)) = AsInt(a - b)
           /\ AsInt(AsInt(a) * AsInt(b)) = AsInt(a * b)
<1> DEFINE m == 2 * IntHalf
<1>1. m \in Nat BY WordAssumption
<1>2. AsInt(a) \in Int /\ AsInt(b) \in Int BY AsIntType, WordAssumption DEF Ints
<1>3. PICK i \in Int : AsInt(a) = a + i * m BY WrapFacts, WordAssumption DEF AsInt
<1>4. PICK j \in Int : AsInt(b) = b + j * m BY WrapFacts, WordAssumption DEF AsInt
<1> HIDE DEF m
<1>5. AsInt(AsInt(a) + AsInt(b)) = AsInt(a + b)
    <2>1. (i + j) * m = i * m + j * m BY <1>1
    <2>2. AsInt(a) + AsInt(b) = (a + b) + (i + j) * m BY <1>1, <1>3, <1>4, <2>1
    <2>3. i + j \in Int /\ a + b \in Int /\ AsInt(a) + AsInt(b) \in Int BY <1>2
    <2> QED BY <2>2, <2>3, AsIntCongruent DEF m
<1>6. AsInt(AsInt(a) - AsInt(b)) = AsInt(a - b)
    <2>1. (i - j) * m = i * m - j * m BY <1>1
    <2>2. AsInt(a) - AsInt(b) = (a - b) + (i - j) * m BY <1>1, <1>3, <1>4, <2>1
    <2>3. i - j \in Int /\ a - b \in Int /\ AsInt(a) - AsInt(b) \in Int BY <1>2
    <2> QED BY <2>2, <2>3, AsIntCongruent DEF m
<1>7. AsInt(AsInt(a) * AsInt(b)) = AsInt(a * b)
    <2> DEFINE k == a * j + b * i + (i * m) * j
    <2>1. (a + i * m) * (b + j * m) = a * b + k * m BY <1>1
    <2>2. k \in Int /\ a * b \in Int /\ AsInt(a) * AsInt(b) \in Int BY <1>1, <1>2
    <2>3. AsInt(a) * AsInt(b) = a * b + k * m BY <1>3, <1>4, <2>1
    <2> HIDE DEF k
    <2> QED BY <2>2, <2>3, AsIntCongruent DEF m
<1> QED BY <1>5, <1>6, <1>7

(* Native sums, differences and products read as an int are the byte       *)
(* code's.                                                                 *)
LEMMA NativeArithmetic ==
    ASSUME NEW a \in Int, NEW b \in Int
    PROVE  /\ AsInt(AsLong(a + b)) = AsInt(AsInt(a) + AsInt(b))
           /\ AsInt(AsLong(a - b)) = AsInt(AsInt(a) - AsInt(b))
           /\ AsInt(AsLong(a * b)) = AsInt(AsInt(a) * AsInt(b))
<1>1. AsInt(AsLong(a + b)) = AsInt(a + b) BY IntOfLong
<1>2. AsInt(AsLong(a - b)) = AsInt(a - b) BY IntOfLong
<1>3. AsInt(AsLong(a * b)) = AsInt(a * b)
    <2>1. a * b \in Int OBVIOUS
    <2> QED BY ONLY <2>1, IntOfLong
<1> QED BY <1>1, <1>2, <1>3, CutLate

-----------------------------------------------------------------------------
LEMMA QuotientFacts ==
    ASSUME NEW a \in Int, NEW b \in Int \ {0}
    PROVE  /\ Quotient(a, b) \in Int
           /\ Remainder(a, b) \in Int
           /\ Magnitude(Quotient(a, b)) <= Magnitude(a)
           /\ Magnitude(Remainder(a, b)) < Magnitude(b)
<1> DEFINE x == Magnitude(a)
           y == Magnitude(b)
           q == x \div y
<1>1. x \in Nat /\ y \in Nat \ {0} BY DEF Magnitude
<1>2. q \in Nat /\ (x % y) \in 0 .. y - 1 /\ x = y * q + (x % y)
    <2> HIDE DEF x, y
    <2>1. (x % y) \in 0 .. y - 1 /\ x = y * q + (x % y) /\ q \in Int BY <1>1
    <2>2. CASE q < 0
        <3>1. y * q <= -y BY <1>1, <2>1, <2>2
        <3> QED BY <1>1, <2>1, <3>1
    <2> QED BY <2>1, <2>2
<1>3. y * q >= q
    <2> HIDE DEF x, y, q
    <2>1. (y - 1) * q >= 0 BY <1>1, <1>2
    <2>2. y * q = (y - 1) * q + q BY <1>1, <1>2
    <2> QED BY <1>1, <1>2, <2>1, <2>2
<1>4. q <= x BY <1>1, <1>2, <1>3
<1>5. Quotient(a, b) = IF (a < 0) = (b < 0) THEN q ELSE -q BY DEF Quotient
<1>6. b * Quotient(a, b) = IF a < 0 THEN -(y * q) ELSE y * q
    <2>1. b = y \/ b = -y BY DEF Magnitude
    <2> HIDE DEF q
    <2> QED BY <1>2, <1>5 DEF Magnitude
<1>7. Remainder(a, b) = IF a < 0 THEN -(x % y) ELSE (x % y)
    <2>1. a = IF a < 0 THEN -x ELSE x BY DEF Magnitude
    <2>2. y * q \in Int BY <1>1, <1>2
    <2> HIDE DEF x, y, q
    <2> QED BY <1>1, <1>2, <1>6, <2>1, <2>2 DEF Remainder
<1> HIDE DEF q
<1> QED BY <1>1, <1>2, <1>4, <1>5, <1>7 DEF Magnitude

(* A division whose quotient fits: so does the remainder.                  *)
LEMMA RemainderIsLong ==
    ASSUME NEW a \in Int, NEW b \in Longs \ {0}
    PROVE  Remainder(a, b) \in Longs
<1>1. b \in Int \ {0} BY WordAssumption DEF Longs
<1>2. Remainder(a, b) \in Int /\ Magnitude(Remainder(a, b)) < Magnitude(b)
    BY <1>1, QuotientFacts
<1> QED BY <1>1, <1>2, WordAssumption DEF Longs, Magnitude

(* Dividing an int that is not negative gives ints.                        *)
LEMMA NatDivision ==
    ASSUME NEW a \in Ints, NEW b \in Ints \ {0}, a >= 0
    PROVE  Quotient(a, b) \in Ints /\ Remainder(a, b) \in Ints
<1>1. a \in Int /\ b \in Int \ {0} BY WordAssumption DEF Ints
<1>2. /\ Quotient(a, b) \in Int /\ Remainder(a, b) \in Int
      /\ Magnitude(Quotient(a, b)) <= Magnitude(a)
      /\ Magnitude(Remainder(a, b)) < Magnitude(b)
    BY <1>1, QuotientFacts
<1> QED BY <1>1, <1>2, WordAssumption DEF Ints, Magnitude

-----------------------------------------------------------------------------
(* The operands of the instructions.                                       *)
Destinations ==
    [kind : {"REGISTER"}, reg : AllRegisters] \cup [kind : {"MEMORY"}, var : Vars]
Sources == Destinations \cup [kind : {"IMMEDIATE"}, val : Ints]

Mnemonics == {"ADD", "SUB", "IMUL"}

RegistersOf(op) == IF IsReg(op) THEN {op.reg} ELSE {}

-----------------------------------------------------------------------------
(* The machine.                                                            *)
LEMMA OperandTypes ==
    /\ Operands \subseteq Sources /\ Destinations \subseteq Sources
    /\ \A r \in AllRegisters : Reg(r) \in Destinations
    /\ \A v \in Vars : Mem(v) \in Destinations
    /\ \A x \in Ints : Imm(x) \in Operands
    /\ \A r \in Pool : Reg(r) \in Operands /\ IsReg(Reg(r))
    /\ \A x \in Ints : ~IsReg(Imm(x))
BY DEF Operands, Sources, Destinations, Reg, Mem, Imm, IsReg, AllRegisters

LEMMA ReadType ==
    ASSUME NEW c \in Machines, NEW op \in Sources
    PROVE  Read(c, op) \in Longs
BY LongsAreWider DEF Read, Machines, Sources, Destinations

LEMMA WriteFacts ==
    ASSUME NEW c \in Machines, NEW dst \in Destinations, NEW x \in Longs
    PROVE  /\ Write(c, dst, x) \in Machines
           /\ Write(c, dst, x).ops = c.ops
           /\ Write(c, dst, x).free = c.free
           /\ Read(Write(c, dst, x), dst) = x
           /\ \A op \in Sources : op # dst => Read(Write(c, dst, x), op) = Read(c, op)
<1> DEFINE d == Write(c, dst, x)
<1>1. CASE dst.kind = "REGISTER"
    <2>1. dst.reg \in AllRegisters BY <1>1 DEF Destinations
    <2>2. d = [ops |-> c.ops, free |-> c.free,
               regs |-> [c.regs EXCEPT ![dst.reg] = x], mem |-> c.mem]
        BY <1>1 DEF Write, Machines
    <2> HIDE DEF d
    <2>3. d \in Machines /\ d.ops = c.ops /\ d.free = c.free /\ d.mem = c.mem
        BY <2>1, <2>2 DEF Machines
    <2>4. d.regs = [c.regs EXCEPT ![dst.reg] = x] /\ c.regs \in [AllRegisters -> Longs]
        BY <2>2 DEF Machines
    <2>5. Read(d, dst) = x BY <1>1, <2>1, <2>4 DEF Read
    <2>6. ASSUME NEW op \in Sources, op # dst PROVE Read(d, op) = Read(c, op)
        <3>1. CASE op.kind = "REGISTER"
            <4>1. op.reg \in AllRegisters /\ op.reg # dst.reg
                BY <1>1, <2>6, <3>1 DEF Sources, Destinations
            <4> QED BY <3>1, <4>1, <2>4 DEF Read
        <3>2. CASE op.kind # "REGISTER"
            BY <3>2, <2>3 DEF Read, Sources, Destinations
        <3> QED BY <3>1, <3>2
    <2> QED BY <2>3, <2>5, <2>6 DEF d
<1>2. CASE dst.kind # "REGISTER"
    <2>1. dst.kind = "MEMORY" /\ dst.var \in Vars BY <1>2 DEF Destinations
    <2>2. d = [ops |-> c.ops, free |-> c.free,
               regs |-> c.regs, mem |-> [c.mem EXCEPT ![dst.var] = x]]
        BY <1>2 DEF Write, Machines
    <2> HIDE DEF d
    <2>3. d \in Machines /\ d.ops = c.ops /\ d.free = c.free /\ d.regs = c.regs
        BY <2>1, <2>2 DEF Machines
    <2>4. d.mem = [c.mem EXCEPT ![dst.var] = x] /\ c.mem \in [Vars -> Longs]
        BY <2>2 DEF Machines
    <2>5. Read(d, dst) = x BY <2>1, <2>4 DEF Read
    <2>6. ASSUME NEW op \in Sources, op # dst PROVE Read(d, op) = Read(c, op)
        <3>1. CASE op.kind = "MEMORY"
            <4>1. op.var \in Vars /\ op.var # dst.var
                BY <2>1, <2>6, <3>1 DEF Sources, Destinations
            <4> QED BY <3>1, <4>1, <2>4 DEF Read
        <3>2. CASE op.kind # "MEMORY"
            BY <3>2, <2>3 DEF Read, Sources, Destinations
        <3> QED BY <3>1, <3>2
    <2> QED BY <2>3, <2>5, <2>6 DEF d
<1> QED BY <1>1, <1>2

LEMMA MovFacts ==
    ASSUME NEW c \in Machines, NEW dst \in Destinations, NEW src \in Sources
    PROVE  /\ Mov(c, dst, src) \in Machines
           /\ Mov(c, dst, src).ops = c.ops
           /\ Mov(c, dst, src).free = c.free
           /\ Read(Mov(c, dst, src), dst) = Read(c, src)
           /\ \A op \in Sources : op # dst => Read(Mov(c, dst, src), op) = Read(c, op)
<1>1. Read(c, src) \in Longs BY ReadType
<1>2. CASE dst = src BY <1>2 DEF Mov
<1>3. CASE dst # src BY <1>1, <1>3, WriteFacts DEF Mov
<1> QED BY <1>2, <1>3

LEMMA X86ResultType ==
    ASSUME NEW inst \in Mnemonics, NEW a \in Longs, NEW b \in Longs
    PROVE  X86Result(inst, a, b) \in Longs
<1>1. a \in Int /\ b \in Int BY WordAssumption DEF Longs
<1>2. a + b \in Int /\ a - b \in Int /\ a * b \in Int BY <1>1
<1> HIDE DEF Longs
<1>3. AsLong(a + b) \in Longs /\ AsLong(a - b) \in Longs /\ AsLong(a * b) \in Longs
    BY ONLY <1>2, AsLongType
<1> QED BY <1>3 DEF X86Result, Mnemonics

LEMMA EmitFacts ==
    ASSUME NEW inst \in Mnemonics, NEW c \in Machines,
           NEW dst \in Destinations, NEW src \in Sources
    PROVE  /\ Emit(inst, c, dst, src) \in Machines
           /\ Emit(inst, c, dst, src).ops = c.ops
           /\ Emit(inst, c, dst, src).free = c.free
           /\ Read(Emit(inst, c, dst, src), dst) = X86Result(inst, Read(c, dst), Read(c, src))
           /\ \A op \in Sources : op # dst => Read(Emit(inst, c, dst, src), op) = Read(c, op)
<1>1. Read(c, dst) \in Longs /\ Read(c, src) \in Longs BY ReadType, OperandTypes
<1>2. X86Result(inst, Read(c, dst), Read(c, src)) \in Longs BY <1>1, X86ResultType
<1> QED BY <1>2, WriteFacts DEF Emit

-----------------------------------------------------------------------------
(* The operand stack and the queue, as records.                            *)
SameCells(c, d) == d.regs = c.regs /\ d.mem = c.mem

LEMMA SameCellsRead ==
    ASSUME NEW c, NEW d, SameCells(c, d), NEW op
    PROVE  Read(d, op) = Read(c, op)
BY DEF SameCells, Read

LEMMA Updates ==
    ASSUME NEW c \in Machines, NEW x
    PROVE  /\ [c EXCEPT !.ops = x] =
                [ops |-> x, free |-> c.free, regs |-> c.regs, mem |-> c.mem]
           /\ [c EXCEPT !.free = x] =
                [ops |-> c.ops, free |-> x, regs |-> c.regs, mem |-> c.mem]
           /\ [c EXCEPT !.regs = x] =
                [ops |-> c.ops, free |-> c.free, regs |-> x, mem |-> c.mem]
           /\ [c EXCEPT !.mem = x] =
                [ops |-> c.ops, free |-> c.free, regs |-> c.regs, mem |-> x]
BY DEF Machines

LEMMA PushOpFacts ==
    ASSUME NEW c \in Machines, NEW op \in Operands
    PROVE  /\ PushOp(c, op) \in Machines
           /\ PushOp(c, op).ops = Append(c.ops, op)
           /\ PushOp(c, op).free = c.free
           /\ SameCells(c, PushOp(c, op))
<1>1. Append(c.ops, op) \in Seq(Operands) BY DEF Machines
<1>2. PushOp(c, op) = [ops |-> Append(c.ops, op), free |-> c.free,
                       regs |-> c.regs, mem |-> c.mem]
    BY Updates DEF PushOp
<1> QED BY <1>1, <1>2 DEF Machines, SameCells

LEMMA PopOpsFacts ==
    ASSUME NEW c \in Machines, NEW n \in Nat, n <= Len(c.ops)
    PROVE  /\ PopOps(c, n) \in Machines
           /\ PopOps(c, n).ops = SubSeq(c.ops, 1, Len(c.ops) - n)
           /\ PopOps(c, n).free = c.free
           /\ SameCells(c, PopOps(c, n))
<1>1. c.ops \in Seq(Operands) /\ Len(c.ops) \in Nat BY DEF Machines
<1>2. SubSeq(c.ops, 1, Len(c.ops) - n) \in Seq(Operands) BY <1>1
<1> QED BY <1>2 DEF PopOps, Below, Machines, SameCells

LEMMA FreeFacts ==
    ASSUME NEW c \in Machines, NEW op \in Operands
    PROVE  /\ Free(c, op) \in Machines
           /\ Free(c, op).ops = c.ops
           /\ Free(c, op).free = IF IsReg(op) THEN Append(c.free, op.reg) ELSE c.free
           /\ SameCells(c, Free(c, op))
<1>1. CASE IsReg(op)
    <2>1. op.reg \in Pool BY <1>1 DEF IsReg, Operands
    <2>2. Append(c.free, op.reg) \in Seq(Pool) BY <2>1 DEF Machines
    <2>3. Free(c, op) = [ops |-> c.ops, free |-> Append(c.free, op.reg),
                         regs |-> c.regs, mem |-> c.mem]
        BY <1>1, Updates DEF Free
    <2> QED BY <1>1, <2>2, <2>3 DEF SameCells, Machines
<1>2. CASE ~IsReg(op) BY <1>2 DEF Free, SameCells
<1> QED BY <1>1, <1>2

LEMMA TakeRegFacts ==
    ASSUME NEW c \in Machines, c.free # <<>>
    PROVE  /\ TakeReg(c) \in Machines
           /\ TakeReg(c).ops = c.ops
           /\ TakeReg(c).free = Tail(c.free)
           /\ SameCells(c, TakeReg(c))
           /\ FirstAvailableReg(c) \in Operands
           /\ FirstAvailableReg(c) = Reg(Head(c.free)) /\ Head(c.free) \in Pool
<1>1. c.free \in Seq(Pool) BY DEF Machines
<1>2. Tail(c.free) \in Seq(Pool) /\ Head(c.free) \in Pool BY <1>1
<1>3. TakeReg(c) = [ops |-> c.ops, free |-> Tail(c.free), regs |-> c.regs, mem |-> c.mem]
    BY Updates DEF TakeReg
<1>4. TakeReg(c) \in Machines BY <1>2, <1>3 DEF Machines
<1>5. Reg(Head(c.free)) \in Operands BY <1>2, OperandTypes
<1> QED BY <1>2, <1>3, <1>4, <1>5 DEF SameCells, FirstAvailableReg

-----------------------------------------------------------------------------
(* What an operand has in hand when it is popped, and what happens to the  *)
(* partition: popping takes a register in hand, freeing and pushing give   *)
(* it back, taking one from the queue takes it in hand.                    *)
LEMMA PopPartition ==
    ASSUME NEW c \in Machines, NEW held, Partitioned(c, held), c.ops # <<>>
    PROVE  /\ Partitioned(PopOps(c, 1), held \cup RegistersOf(Top(c.ops)))
           /\ RegistersOf(Top(c.ops)) \cap held = {}
           /\ Top(c.ops) \in Operands
<1> DEFINE d == PopOps(c, 1)
           n == Len(c.ops)
<1>1. c.ops \in Seq(Operands) /\ n \in Nat \ {0} BY DEF Machines
<1>2. /\ d.ops = SubSeq(c.ops, 1, n - 1) /\ d.free = c.free
    BY <1>1, PopOpsFacts
<1>3. DOMAIN c.ops = 1 .. n /\ DOMAIN d.ops = 1 .. n - 1
      /\ \A i \in 1 .. n - 1 : d.ops[i] = c.ops[i]
    BY <1>1, <1>2
<1>4. Top(c.ops) = c.ops[n] /\ Top(c.ops) \in Operands BY <1>1 DEF Top
<1> HIDE DEF d, n
<1>5. ASSUME NEW r \in Pool
      PROVE  InUse(c, r) <=> InUse(d, r) \/ c.ops[n] = Reg(r)
    BY <1>1, <1>3 DEF InUse
<1>6. \A r : r \in RegistersOf(c.ops[n]) <=> c.ops[n] = Reg(r)
    BY <1>4 DEF RegistersOf, IsReg, Operands, Reg
<1>7. RegistersOf(c.ops[n]) \subseteq Pool BY <1>4 DEF RegistersOf, IsReg, Operands
<1>8. \A r \in Pool : Available(d, r) <=> Available(c, r) BY <1>2 DEF Available
<1>9. ASSUME NEW r \in Pool, c.ops[n] = Reg(r) PROVE ~InUse(d, r)
    <2>1. SUFFICES ASSUME NEW i \in 1 .. n - 1, d.ops[i] = Reg(r) PROVE FALSE
        BY <1>3 DEF InUse
    <2>2. c.ops[i] = c.ops[n] /\ IsReg(c.ops[i]) /\ i \in DOMAIN c.ops /\ n \in DOMAIN c.ops
        BY <1>1, <1>3, <1>9, <2>1 DEF IsReg, Reg
    <2>3. i = n BY <2>2 DEF Partitioned
    <2> QED BY <1>1, <2>3
<1>10. \A r \in held : ~InUse(d, r) /\ ~Available(d, r)
    BY <1>1, <1>2, <1>3 DEF Partitioned, InUse, Available
<1>11. RegistersOf(c.ops[n]) \cap held = {}
    BY <1>1, <1>3, <1>6 DEF Partitioned, InUse
<1>12. \A r \in RegistersOf(c.ops[n]) : ~InUse(d, r) /\ ~Available(d, r)
    BY <1>5, <1>6, <1>7, <1>8, <1>9 DEF Partitioned
<1>13. \A r \in Pool : InUse(d, r) \/ Available(d, r) \/ r \in held \cup RegistersOf(c.ops[n])
    BY <1>5, <1>6, <1>8 DEF Partitioned
<1>14. \A r \in Pool : ~(InUse(d, r) /\ Available(d, r))
    BY <1>5, <1>8 DEF Partitioned
<1>15. \A i, j \in DOMAIN d.ops : IsReg(d.ops[i]) /\ d.ops[i] = d.ops[j] => i = j
    BY <1>1, <1>3 DEF Partitioned
<1>16. \A i, j \in DOMAIN d.free : d.free[i] = d.free[j] => i = j
    BY <1>2 DEF Partitioned
<1>17. Partitioned(d, held \cup RegistersOf(c.ops[n]))
    BY <1>10, <1>12, <1>13, <1>14, <1>15, <1>16 DEF Partitioned
<1> QED BY <1>4, <1>11, <1>17 DEF d

LEMMA PushPartition ==
    ASSUME NEW c \in Machines, NEW held, Partitioned(c, held),
           NEW op \in Operands, RegistersOf(op) \subseteq held
    PROVE  Partitioned(PushOp(c, op), held \ RegistersOf(op))
<1> DEFINE d == PushOp(c, op)
           n == Len(c.ops)
<1>1. c.ops \in Seq(Operands) /\ n \in Nat BY DEF Machines
<1>2. d.ops = Append(c.ops, op) /\ d.free = c.free BY PushOpFacts
<1>3. DOMAIN c.ops = 1 .. n /\ DOMAIN d.ops = 1 .. n + 1 /\ d.ops[n + 1] = op
      /\ \A i \in 1 .. n : d.ops[i] = c.ops[i]
    BY <1>1, <1>2
<1> HIDE DEF d, n
<1>4. \A r : InUse(d, r) <=> InUse(c, r) \/ op = Reg(r)
    BY <1>1, <1>3 DEF InUse
<1>5. \A r : r \in RegistersOf(op) <=> op = Reg(r)
    BY DEF RegistersOf, IsReg, Operands, Reg
<1>6. \A r : Available(d, r) <=> Available(c, r) BY <1>2 DEF Available
<1>7. \A i \in 1 .. n : IsReg(op) => c.ops[i] # op
    BY <1>3, <1>5 DEF Partitioned, InUse, RegistersOf
<1>8. ASSUME NEW i \in DOMAIN d.ops, NEW j \in DOMAIN d.ops,
             IsReg(d.ops[i]), d.ops[i] = d.ops[j]
      PROVE  i = j
    <2>1. i \in 1 .. n \/ i = n + 1 BY <1>1, <1>3
    <2>2. j \in 1 .. n \/ j = n + 1 BY <1>1, <1>3
    <2>3. CASE i \in 1 .. n /\ j \in 1 .. n BY <1>3, <1>8, <2>3 DEF Partitioned
    <2>4. CASE i = n + 1 /\ j \in 1 .. n BY <1>3, <1>7, <1>8, <2>4
    <2>5. CASE i \in 1 .. n /\ j = n + 1 BY <1>3, <1>7, <1>8, <2>5
    <2> QED BY <2>1, <2>2, <2>3, <2>4, <2>5
<1>9. \A i, j \in DOMAIN d.free : d.free[i] = d.free[j] => i = j
    BY <1>2 DEF Partitioned
<1>10. \A r \in Pool : ~(InUse(d, r) /\ Available(d, r))
    BY <1>4, <1>5, <1>6 DEF Partitioned
<1> QED BY <1>4, <1>5, <1>6, <1>8, <1>9, <1>10 DEF Partitioned, d

LEMMA FreePartition ==
    ASSUME NEW c \in Machines, NEW held, Partitioned(c, held),
           NEW op \in Operands, RegistersOf(op) \subseteq held
    PROVE  Partitioned(Free(c, op), held \ RegistersOf(op))
<1>1. CASE ~IsReg(op) BY <1>1 DEF Free, RegistersOf
<1>2. CASE IsReg(op)
    <2> DEFINE d == Free(c, op)
               n == Len(c.free)
    <2>1. c.free \in Seq(Pool) /\ n \in Nat /\ op.reg \in Pool /\ RegistersOf(op) = {op.reg}
        BY <1>2 DEF Machines, IsReg, Operands, RegistersOf
    <2>2. d.free = Append(c.free, op.reg) /\ d.ops = c.ops BY <1>2, FreeFacts
    <2>3. DOMAIN c.free = 1 .. n /\ DOMAIN d.free = 1 .. n + 1 /\ d.free[n + 1] = op.reg
          /\ \A i \in 1 .. n : d.free[i] = c.free[i]
        BY <2>1, <2>2
    <2> HIDE DEF d, n
    <2>4. \A r : Available(d, r) <=> Available(c, r) \/ r = op.reg
        BY <2>1, <2>3 DEF Available
    <2>5. \A r : InUse(d, r) <=> InUse(c, r) BY <2>2 DEF InUse
    <2>6. \A i \in 1 .. n : c.free[i] # op.reg
        BY <2>1, <2>3 DEF Partitioned, Available
    <2>7. \A i, j \in DOMAIN d.free : d.free[i] = d.free[j] => i = j
        BY <2>1, <2>3, <2>6 DEF Partitioned
    <2>8. \A i, j \in DOMAIN d.ops : IsReg(d.ops[i]) /\ d.ops[i] = d.ops[j] => i = j
        BY <2>2 DEF Partitioned
    <2> QED BY <2>1, <2>4, <2>5, <2>7, <2>8 DEF Partitioned, d
<1> QED BY <1>1, <1>2

LEMMA TakePartition ==
    ASSUME NEW c \in Machines, NEW held, Partitioned(c, held), c.free # <<>>
    PROVE  /\ Partitioned(TakeReg(c), held \cup {Head(c.free)})
           /\ Head(c.free) \notin held
<1> DEFINE d == TakeReg(c)
           n == Len(c.free)
<1>1. c.free \in Seq(Pool) /\ n \in Nat \ {0} BY DEF Machines
<1>2. d.free = Tail(c.free) /\ d.ops = c.ops /\ Head(c.free) = c.free[1]
    BY <1>1, TakeRegFacts
<1>3. DOMAIN c.free = 1 .. n /\ DOMAIN d.free = 1 .. n - 1
      /\ \A i \in 1 .. n - 1 : d.free[i] = c.free[i + 1]
    BY <1>1, <1>2
<1>4. c.free[1] \in Pool BY <1>1
<1> HIDE DEF d, n
<1>5. \A r : InUse(d, r) <=> InUse(c, r) BY <1>2 DEF InUse
<1>6. ASSUME NEW r PROVE Available(c, r) <=> Available(d, r) \/ r = c.free[1]
    <2>1. ASSUME NEW i \in 1 .. n, c.free[i] = r, r # c.free[1] PROVE Available(d, r)
        <3>1. i - 1 \in 1 .. n - 1 /\ d.free[i - 1] = c.free[i] BY <1>1, <1>3, <2>1
        <3> QED BY <1>3, <2>1, <3>1 DEF Available
    <2>2. Available(d, r) => Available(c, r)
        <3>1. \A i \in 1 .. n - 1 : i + 1 \in 1 .. n BY <1>1
        <3> QED BY <1>3, <3>1 DEF Available
    <2>3. 1 \in 1 .. n BY <1>1
    <2> QED BY <1>3, <2>1, <2>2, <2>3 DEF Available
<1>7. ~Available(d, c.free[1])
    <2>1. SUFFICES ASSUME NEW i \in 1 .. n - 1, d.free[i] = c.free[1] PROVE FALSE
        BY <1>3 DEF Available
    <2>2. i + 1 \in DOMAIN c.free /\ 1 \in DOMAIN c.free /\ c.free[i + 1] = c.free[1]
        BY <1>1, <1>3, <2>1
    <2>3. i + 1 = 1 BY <2>2 DEF Partitioned
    <2> QED BY <2>3
<1>8. ASSUME NEW i \in DOMAIN d.free, NEW j \in DOMAIN d.free, d.free[i] = d.free[j]
      PROVE  i = j
    <2>1. i \in 1 .. n - 1 /\ j \in 1 .. n - 1 BY <1>3
    <2>2. i + 1 \in DOMAIN c.free /\ j + 1 \in DOMAIN c.free BY <1>1, <1>3, <2>1
    <2>3. c.free[i + 1] = c.free[j + 1] BY <1>3, <1>8, <2>1
    <2>4. i + 1 = j + 1 BY <2>2, <2>3 DEF Partitioned
    <2> QED BY <2>1, <2>4
<1>9. \A i, j \in DOMAIN d.ops : IsReg(d.ops[i]) /\ d.ops[i] = d.ops[j] => i = j
    BY <1>2 DEF Partitioned
<1>10. c.free[1] \notin held BY <1>6 DEF Partitioned
<1>11. Partitioned(d, held \cup {c.free[1]})
    BY <1>4, <1>5, <1>6, <1>7, <1>8, <1>9, <1>10 DEF Partitioned
<1> QED BY <1>2, <1>10, <1>11 DEF d

(* Writing a cell changes nothing of the partition.                        *)
LEMMA SamePartition ==
    ASSUME NEW c, NEW d, NEW held, Partitioned(c, held), d.ops = c.ops, d.free = c.free
    PROVE  Partitioned(d, held)
BY DEF Partitioned, InUse, Available

-----------------------------------------------------------------------------
(* What the byte code sees of the machine.                                 *)
Elsewhere(c, dst) == \A i \in DOMAIN c.ops : c.ops[i] # dst

LEMMA ElsewhereFacts ==
    ASSUME NEW c \in Machines
    PROVE  /\ \A v \in Vars : Elsewhere(c, Mem(v))
           /\ Elsewhere(c, Reg("RAX")) /\ Elsewhere(c, Reg("RDX"))
           /\ \A held : Partitioned(c, held) => \A r \in held : Elsewhere(c, Reg(r))
<1>1. \A i \in DOMAIN c.ops : c.ops[i] \in Operands BY DEF Machines
<1>2. "RAX" \notin Pool /\ "RDX" \notin Pool BY RegisterAssumption
<1>3. \A v \in Vars : Mem(v) \notin Operands BY DEF Operands, Mem
<1>4. Reg("RAX") \notin Operands /\ Reg("RDX") \notin Operands
    BY <1>2 DEF Operands, Reg
<1> QED BY <1>1, <1>3, <1>4 DEF Elsewhere, Partitioned, InUse

LEMMA OperandValuesFacts ==
    ASSUME NEW c \in Machines
    PROVE  /\ OperandValues(c) \in Seq(Ints)
           /\ Len(OperandValues(c)) = Len(c.ops)
           /\ DOMAIN OperandValues(c) = 1 .. Len(c.ops)
           /\ \A i \in 1 .. Len(c.ops) :
                 /\ OperandValues(c)[i] = AsInt(Read(c, c.ops[i]))
                 /\ c.ops[i] \in Operands
<1>1. Len(c.ops) \in Nat /\ \A i \in 1 .. Len(c.ops) : c.ops[i] \in Operands BY DEF Machines
<1>2. ASSUME NEW i \in 1 .. Len(c.ops) PROVE AsInt(Read(c, c.ops[i])) \in Ints
    <2>1. Read(c, c.ops[i]) \in Int BY <1>1, ReadType, OperandTypes, WordAssumption DEF Longs
    <2> QED BY <2>1, AsIntType
<1>3. OperandValues(c) \in [1 .. Len(c.ops) -> Ints] BY <1>2 DEF OperandValues
<1>4. OperandValues(c) \in Seq(Ints) /\ Len(OperandValues(c)) = Len(c.ops) BY <1>1, <1>3
<1> QED BY <1>1, <1>4 DEF OperandValues

(* Two machines with the same operands, which they read the same.          *)
LEMMA SameValues ==
    ASSUME NEW c \in Machines, NEW d \in Machines, d.ops = c.ops,
           NEW dst, Elsewhere(c, dst),
           \A op \in Sources : op # dst => Read(d, op) = Read(c, op)
    PROVE  OperandValues(d) = OperandValues(c)
<1>1. \A i \in 1 .. Len(c.ops) : c.ops[i] \in Sources /\ c.ops[i] # dst
    BY OperandTypes DEF Machines, Elsewhere
<1> QED BY <1>1 DEF OperandValues

LEMMA PopValues ==
    ASSUME NEW c \in Machines, NEW n \in Nat, n <= Len(c.ops)
    PROVE  OperandValues(PopOps(c, n)) = Below(OperandValues(c), n)
<1> DEFINE d == PopOps(c, n)
           m == Len(c.ops) - n
<1>1. c.ops \in Seq(Operands) /\ m \in Nat /\ m <= Len(c.ops) BY DEF Machines
<1>2. d \in Machines /\ d.ops = SubSeq(c.ops, 1, m) /\ SameCells(c, d) BY PopOpsFacts
<1>3. Len(d.ops) = m /\ \A i \in 1 .. m : d.ops[i] = c.ops[i] BY <1>1, <1>2
<1>4. Below(OperandValues(c), n) = SubSeq(OperandValues(c), 1, m)
    BY OperandValuesFacts DEF Below
<1>5. OperandValues(c) \in Seq(Ints) /\ Len(OperandValues(c)) = Len(c.ops)
    BY OperandValuesFacts
<1> HIDE DEF d, m
<1>6. \A i \in 1 .. m : Read(d, d.ops[i]) = Read(c, c.ops[i])
    <2>1. \A x : Read(d, x) = Read(c, x) BY <1>2, SameCellsRead
    <2> QED BY <1>3, <2>1
<1>7. OperandValues(d) = [i \in 1 .. m |-> AsInt(Read(c, c.ops[i]))]
    BY <1>3, <1>6 DEF OperandValues
<1>8. SubSeq(OperandValues(c), 1, m) = [i \in 1 .. m |-> OperandValues(c)[i]]
    BY <1>1, <1>5
<1>9. \A i \in 1 .. m : OperandValues(c)[i] = AsInt(Read(c, c.ops[i]))
    BY <1>1, OperandValuesFacts
<1> QED BY <1>4, <1>7, <1>8, <1>9 DEF d

LEMMA PushValues ==
    ASSUME NEW c \in Machines, NEW op \in Operands
    PROVE  OperandValues(PushOp(c, op)) = Append(OperandValues(c), AsInt(Read(c, op)))
<1> DEFINE d == PushOp(c, op)
           n == Len(c.ops)
<1>1. c.ops \in Seq(Operands) /\ n \in Nat BY DEF Machines
<1>2. d \in Machines /\ d.ops = Append(c.ops, op) /\ SameCells(c, d) BY PushOpFacts
<1>3. Len(d.ops) = n + 1 /\ d.ops[n + 1] = op /\ \A i \in 1 .. n : d.ops[i] = c.ops[i]
    BY <1>1, <1>2
<1>4. OperandValues(c) \in Seq(Ints) /\ Len(OperandValues(c)) = n
    BY OperandValuesFacts
<1>5. \A i \in 1 .. n : OperandValues(c)[i] = AsInt(Read(c, c.ops[i]))
    BY OperandValuesFacts
<1>6. OperandValues(d) \in Seq(Ints) /\ Len(OperandValues(d)) = n + 1
    BY <1>2, <1>3, OperandValuesFacts
<1>7. \A i \in 1 .. n + 1 : OperandValues(d)[i] = AsInt(Read(d, d.ops[i]))
    BY <1>2, <1>3, OperandValuesFacts
<1>8. \A x : Read(d, x) = Read(c, x) BY <1>2, SameCellsRead
<1> DEFINE t == Append(OperandValues(c), AsInt(Read(c, op)))
<1>9. AsInt(Read(c, op)) \in Ints
    BY ReadType, OperandTypes, AsIntType, WordAssumption DEF Longs
<1>10. t \in Seq(Ints) /\ Len(t) = n + 1 /\ t[n + 1] = AsInt(Read(c, op))
       /\ \A i \in 1 .. n : t[i] = OperandValues(c)[i]
    BY <1>4, <1>9
<1> HIDE DEF d, n, t
<1>11. ASSUME NEW i \in 1 .. n + 1 PROVE OperandValues(d)[i] = t[i]
    <2>1. CASE i = n + 1 BY <1>3, <1>7, <1>8, <1>10, <2>1
    <2>2. CASE i \in 1 .. n BY <1>1, <1>3, <1>5, <1>7, <1>8, <1>10, <2>2
    <2> QED BY <1>1, <2>1, <2>2
<1>12. OperandValues(d) = t BY <1>6, <1>10, <1>11
<1> QED BY <1>12 DEF d, t

LEMMA VariableValuesFacts ==
    ASSUME NEW c \in Machines
    PROVE  /\ VariableValues(c) = [v \in Vars |-> AsInt(Read(c, Mem(v)))]
           /\ VariableValues(c) \in [Vars -> Ints]
<1>1. \A v \in Vars : Read(c, Mem(v)) = c.mem[v] BY DEF Read, Mem
<1>2. \A v \in Vars : AsInt(c.mem[v]) \in Ints
    BY AsIntType, WordAssumption DEF Machines, Longs
<1> QED BY <1>1, <1>2 DEF VariableValues

-----------------------------------------------------------------------------
(* The generators.  Sound is what holds of the machine between two entries.*)
Sound(c) == c \in Machines /\ Partitioned(c, {})

(* The operands: popped, they are in hand.                                 *)
LEMMA TopFacts ==
    ASSUME NEW c \in Machines, NEW held, Partitioned(c, held), c.ops # <<>>
    PROVE  /\ Top(c.ops) \in Operands
           /\ Top(OperandValues(c)) = AsInt(Read(c, Top(c.ops)))
           /\ Len(c.ops) \in Nat \ {0} /\ 1 <= Len(c.ops)
<1>1. Len(c.ops) \in Nat \ {0} /\ 1 <= Len(c.ops) BY DEF Machines
<1>2. Len(c.ops) \in 1 .. Len(c.ops) BY <1>1
<1> QED BY <1>1, <1>2, OperandValuesFacts DEF Top

LEMMA PopAndFreeFacts ==
    ASSUME NEW c \in Machines, NEW held, Partitioned(c, held), c.ops # <<>>
    PROVE  /\ PopAndFree(c) \in Machines
           /\ Partitioned(PopAndFree(c), held)
           /\ PopAndFree(c).ops = SubSeq(c.ops, 1, Len(c.ops) - 1)
           /\ PopAndFree(c).free = IF IsReg(Top(c.ops)) THEN Append(c.free, Top(c.ops).reg) ELSE c.free
           /\ SameCells(c, PopAndFree(c))
           /\ OperandValues(PopAndFree(c)) = Below(OperandValues(c), 1)
<1> DEFINE op == Top(c.ops)
           c1 == PopOps(c, 1)
           c2 == Free(c1, op)
<1>1. op \in Operands /\ 1 <= Len(c.ops) BY TopFacts
<1>2. c1 \in Machines /\ c1.ops = SubSeq(c.ops, 1, Len(c.ops) - 1)
      /\ c1.free = c.free /\ SameCells(c, c1)
    BY <1>1, PopOpsFacts
<1>3. Partitioned(c1, held \cup RegistersOf(op)) /\ RegistersOf(op) \cap held = {}
    BY PopPartition
<1>4. OperandValues(c1) = Below(OperandValues(c), 1) BY <1>1, PopValues
<1> HIDE DEF c1, op
<1>5. /\ c2 \in Machines /\ c2.ops = c1.ops /\ SameCells(c1, c2)
      /\ c2.free = IF IsReg(op) THEN Append(c1.free, op.reg) ELSE c1.free
    BY <1>1, <1>2, FreeFacts
<1>6. RegistersOf(op) \subseteq held \cup RegistersOf(op) OBVIOUS
<1>7. Partitioned(c2, (held \cup RegistersOf(op)) \ RegistersOf(op))
    BY ONLY <1>1, <1>2, <1>3, <1>6, FreePartition
<1>8. (held \cup RegistersOf(op)) \ RegistersOf(op) = held BY <1>3
<1>9. \A x : Read(c2, x) = Read(c1, x) BY <1>5, SameCellsRead
<1>10. OperandValues(c2) = OperandValues(c1)
    BY <1>5, <1>9 DEF OperandValues
<1>11. SameCells(c, c2) BY <1>2, <1>5 DEF SameCells
<1>12. c2 = PopAndFree(c) BY DEF PopAndFree, c1, op
<1> QED BY <1>2, <1>4, <1>5, <1>7, <1>8, <1>10, <1>11, <1>12 DEF op

(* A register is taken and given the value of a source.                    *)
LEMMA TakeAndMove ==
    ASSUME NEW c \in Machines, NEW held, Partitioned(c, held), c.free # <<>>,
           NEW src \in Sources
    PROVE  LET r == Head(c.free)
               d == Mov(TakeReg(c), FirstAvailableReg(c), src)
           IN  /\ d \in Machines /\ d.ops = c.ops
               /\ r \in Pool /\ r \notin held /\ FirstAvailableReg(c) = Reg(r)
               /\ Elsewhere(c, Reg(r)) /\ Available(c, r)
               /\ Partitioned(d, held \cup {r})
               /\ Read(d, Reg(r)) = Read(c, src)
               /\ \A op \in Sources : op # Reg(r) => Read(d, op) = Read(c, op)
<1> DEFINE r == Head(c.free)
           c1 == TakeReg(c)
           d == Mov(c1, Reg(r), src)
<1>1. c1 \in Machines /\ c1.ops = c.ops /\ SameCells(c, c1) /\ r \in Pool
      /\ FirstAvailableReg(c) = Reg(r)
    BY TakeRegFacts
<1>2. Partitioned(c1, held \cup {r}) /\ r \notin held BY TakePartition
<1>3. \A x : Read(c1, x) = Read(c, x) BY <1>1, SameCellsRead
<1>4. Reg(r) \in Destinations BY <1>1, OperandTypes DEF AllRegisters
<1>5. Elsewhere(c1, Reg(r)) BY <1>1, <1>2, ElsewhereFacts
<1>6. Available(c, r)
    <2>1. 1 \in DOMAIN c.free /\ c.free[1] = r BY DEF Machines
    <2> QED BY <2>1 DEF Available
<1> HIDE DEF r, c1
<1>7. d \in Machines /\ d.ops = c1.ops /\ d.free = c1.free /\ Read(d, Reg(r)) = Read(c1, src)
      /\ \A op \in Sources : op # Reg(r) => Read(d, op) = Read(c1, op)
    BY <1>1, <1>4, MovFacts
<1>8. Partitioned(d, held \cup {r}) BY <1>2, <1>7, SamePartition
<1>9. Elsewhere(c, Reg(r)) BY <1>1, <1>5 DEF Elsewhere
<1> QED BY <1>1, <1>2, <1>3, <1>6, <1>7, <1>8, <1>9 DEF r, c1

(* ILOAD.                                                                  *)
LEMMA VariableLoadFacts ==
    ASSUME NEW c, Sound(c), c.free # <<>>, NEW v \in Vars
    PROVE  /\ Sound(VariableLoad(c, v))
           /\ OperandValues(VariableLoad(c, v)) = Append(OperandValues(c), VariableValues(c)[v])
           /\ VariableValues(VariableLoad(c, v)) = VariableValues(c)
<1> DEFINE r == Head(c.free)
           dst == FirstAvailableReg(c)
           d == Mov(TakeReg(c), dst, Mem(v))
           e == PushOp(d, dst)
<1>1. c \in Machines /\ Partitioned(c, {}) /\ Mem(v) \in Sources
    BY OperandTypes DEF Sound
<1>2. /\ d \in Machines /\ d.ops = c.ops
      /\ r \in Pool /\ dst = Reg(r) /\ Elsewhere(c, Reg(r))
      /\ Partitioned(d, {} \cup {r})
      /\ Read(d, Reg(r)) = Read(c, Mem(v))
      /\ \A op \in Sources : op # Reg(r) => Read(d, op) = Read(c, op)
    BY <1>1, TakeAndMove
<1> HIDE DEF r, dst, d
<1>3. dst \in Operands /\ RegistersOf(dst) = {r}
    BY <1>2, OperandTypes DEF RegistersOf, Reg
<1>4. e \in Machines /\ SameCells(d, e) BY <1>2, <1>3, PushOpFacts
<1>5. Partitioned(e, {})
    <2>1. Partitioned(d, {r}) /\ RegistersOf(dst) \subseteq {r} BY <1>2, <1>3
    <2>2. Partitioned(e, {r} \ RegistersOf(dst)) BY ONLY <1>2, <1>3, <2>1, PushPartition
    <2>3. {r} \ RegistersOf(dst) = {} BY <1>3
    <2> QED BY <2>2, <2>3
<1>6. OperandValues(d) = OperandValues(c) BY <1>1, <1>2, SameValues
<1>7. OperandValues(e) = Append(OperandValues(d), AsInt(Read(d, dst)))
    BY <1>2, <1>3, PushValues
<1>8. AsInt(Read(c, Mem(v))) = VariableValues(c)[v] BY <1>1, VariableValuesFacts
<1>9. VariableValues(d) = VariableValues(c)
    <2>1. \A w \in Vars : Mem(w) \in Sources /\ Mem(w) # Reg(r)
        BY OperandTypes DEF Mem, Reg
    <2>2. \A w \in Vars : Read(d, Mem(w)) = Read(c, Mem(w)) BY <1>2, <2>1
    <2> QED BY <1>1, <1>2, <2>2, VariableValuesFacts
<1>10. VariableValues(e) = VariableValues(d) BY <1>4 DEF VariableValues, SameCells
<1>11. e = VariableLoad(c, v) BY DEF VariableLoad, dst, d
<1> QED BY <1>2, <1>4, <1>5, <1>6, <1>7, <1>8, <1>9, <1>10, <1>11 DEF Sound

(* ISTORE.                                                                 *)
LEMMA VariableStoreFacts ==
    ASSUME NEW c, Sound(c), c.ops # <<>>, NEW v \in Vars
    PROVE  /\ Sound(VariableStore(c, v))
           /\ OperandValues(VariableStore(c, v)) = Below(OperandValues(c), 1)
           /\ VariableValues(VariableStore(c, v)) =
                [VariableValues(c) EXCEPT ![v] = Top(OperandValues(c))]
<1> DEFINE op == Top(c.ops)
           d == PopAndFree(c)
           e == Mov(d, Mem(v), op)
<1>1. c \in Machines /\ Partitioned(c, {}) /\ Mem(v) \in Destinations
    BY OperandTypes DEF Sound
<1>2. op \in Operands /\ op \in Sources /\ Top(OperandValues(c)) = AsInt(Read(c, op))
    BY <1>1, TopFacts, OperandTypes
<1>3. d \in Machines /\ Partitioned(d, {}) /\ SameCells(c, d)
      /\ OperandValues(d) = Below(OperandValues(c), 1)
    BY <1>1, PopAndFreeFacts
<1>4. \A x : Read(d, x) = Read(c, x) BY <1>3, SameCellsRead
<1> HIDE DEF d, op
<1>5. /\ e \in Machines /\ e.ops = d.ops /\ e.free = d.free
      /\ Read(e, Mem(v)) = Read(d, op)
      /\ \A x \in Sources : x # Mem(v) => Read(e, x) = Read(d, x)
    BY <1>1, <1>2, <1>3, MovFacts
<1>6. Partitioned(e, {}) BY <1>3, <1>5, SamePartition
<1>7. Elsewhere(d, Mem(v)) BY <1>3, ElsewhereFacts
<1>8. OperandValues(e) = OperandValues(d) BY <1>3, <1>5, <1>7, SameValues
<1>9. VariableValues(e) = [VariableValues(c) EXCEPT ![v] = AsInt(Read(c, op))]
    <2>1. \A w \in Vars : Mem(w) \in Sources /\ (w # v => Mem(w) # Mem(v))
        BY OperandTypes DEF Mem
    <2>2. \A w \in Vars : w # v => Read(e, Mem(w)) = Read(c, Mem(w)) BY <1>4, <1>5, <2>1
    <2>3. Read(e, Mem(v)) = Read(c, op) BY <1>4, <1>5
    <2> QED BY <1>1, <1>5, <2>2, <2>3, VariableValuesFacts
<1>10. e = VariableStore(c, v) BY DEF VariableStore, d, op
<1> QED BY <1>2, <1>3, <1>5, <1>6, <1>8, <1>9, <1>10 DEF Sound

(* IINC.                                                                   *)
LEMMA IncrementFacts ==
    ASSUME NEW c, Sound(c), NEW v \in Vars, NEW x \in Ints
    PROVE  LET d == Emit("ADD", c, Mem(v), Imm(x))
           IN  /\ Sound(d)
               /\ OperandValues(d) = OperandValues(c)
               /\ VariableValues(d) = [VariableValues(c) EXCEPT ![v] = AsInt(@ + x)]
<1> DEFINE d == Emit("ADD", c, Mem(v), Imm(x))
<1> "ADD" \in Mnemonics BY DEF Mnemonics
<1>1. c \in Machines /\ Partitioned(c, {}) /\ Mem(v) \in Destinations
      /\ Mem(v) \in Sources /\ Imm(x) \in Sources
    BY OperandTypes DEF Sound
<1>2. /\ d \in Machines /\ d.ops = c.ops /\ d.free = c.free
      /\ Read(d, Mem(v)) = X86Result("ADD", Read(c, Mem(v)), Read(c, Imm(x)))
      /\ \A y \in Sources : y # Mem(v) => Read(d, y) = Read(c, y)
    BY <1>1, EmitFacts
<1>3. Partitioned(d, {}) BY <1>1, <1>2, SamePartition
<1>4. OperandValues(d) = OperandValues(c) BY <1>1, <1>2, ElsewhereFacts, SameValues
<1>5. Read(c, Imm(x)) = x /\ AsInt(x) = x BY IntFits DEF Read, Imm
<1>6. Read(c, Mem(v)) \in Int /\ x \in Int
    BY <1>1, ReadType, WordAssumption DEF Longs, Ints
<1>7. AsInt(Read(d, Mem(v))) = AsInt(AsInt(Read(c, Mem(v))) + x)
    <2>1. AsInt(AsLong(Read(c, Mem(v)) + x)) = AsInt(AsInt(Read(c, Mem(v))) + AsInt(x))
        BY ONLY <1>6, NativeArithmetic
    <2> QED BY <1>2, <1>5, <2>1 DEF X86Result
<1> HIDE DEF d
<1>8. VariableValues(d) = [VariableValues(c) EXCEPT ![v] = AsInt(@ + x)]
    <2>1. \A w \in Vars : Mem(w) \in Sources /\ (w # v => Mem(w) # Mem(v))
        BY OperandTypes DEF Mem
    <2>2. \A w \in Vars : w # v => Read(d, Mem(w)) = Read(c, Mem(w)) BY <1>2, <2>1
    <2>3. VariableValues(c)[v] = AsInt(Read(c, Mem(v))) BY <1>1, VariableValuesFacts
    <2> QED BY <1>1, <1>2, <1>7, <2>2, <2>3, VariableValuesFacts
<1> QED BY <1>2, <1>3, <1>4, <1>8 DEF Sound, d

-----------------------------------------------------------------------------
(* Both operands popped: their registers are in hand, and they differ.     *)
LEMMA PopTwoFacts ==
    ASSUME NEW c, Sound(c), Len(c.ops) >= 2
    PROVE  LET op2 == Top(c.ops)
               op1 == Second(c.ops)
               d   == PopOps(c, 2)
           IN  /\ op1 \in Operands /\ op2 \in Operands
               /\ RegistersOf(op1) \cap RegistersOf(op2) = {}
               /\ Top(OperandValues(c)) = AsInt(Read(c, op2))
               /\ Second(OperandValues(c)) = AsInt(Read(c, op1))
               /\ d \in Machines /\ d.free = c.free /\ SameCells(c, d)
               /\ Partitioned(d, RegistersOf(op2) \cup RegistersOf(op1))
               /\ OperandValues(d) = Below(OperandValues(c), 2)
               /\ c.ops # <<>> /\ PopOps(c, 1).ops # <<>> /\ Top(PopOps(c, 1).ops) = op1
<1> DEFINE n == Len(c.ops)
           b == PopOps(c, 1)
           d == PopOps(c, 2)
           op2 == Top(c.ops)
           op1 == Second(c.ops)
<1>1. c \in Machines /\ Partitioned(c, {}) BY DEF Sound
<1>2. c.ops \in Seq(Operands) /\ n \in Nat /\ n >= 2 /\ c.ops # <<>> BY <1>1 DEF Machines
<1>3. b \in Machines /\ b.ops = SubSeq(c.ops, 1, n - 1) /\ b.free = c.free /\ SameCells(c, b)
    BY <1>1, <1>2, PopOpsFacts
<1>4. d \in Machines /\ d.ops = SubSeq(c.ops, 1, n - 2) /\ d.free = c.free /\ SameCells(c, d)
    BY <1>1, <1>2, PopOpsFacts
<1>5. Len(b.ops) = n - 1 /\ b.ops # <<>> /\ Top(b.ops) = op1
    BY <1>2, <1>3 DEF Top, Second
<1>6. PopOps(b, 1).ops = d.ops
    <2>1. PopOps(b, 1).ops = SubSeq(b.ops, 1, n - 2) BY <1>2, <1>3, <1>5, PopOpsFacts
    <2>2. SubSeq(SubSeq(c.ops, 1, n - 1), 1, n - 2) = SubSeq(c.ops, 1, n - 2) BY <1>2
    <2> QED BY <1>3, <1>4, <2>1, <2>2
<1>7. PopOps(b, 1).free = d.free BY <1>2, <1>3, <1>4, <1>5, PopOpsFacts
<1>8. Partitioned(b, {} \cup RegistersOf(op2)) /\ op2 \in Operands
    BY <1>1, <1>2, PopPartition
<1>9. /\ Partitioned(PopOps(b, 1), ({} \cup RegistersOf(op2)) \cup RegistersOf(op1))
      /\ RegistersOf(op1) \cap ({} \cup RegistersOf(op2)) = {}
      /\ op1 \in Operands
    <2> HIDE DEF b, op1, op2
    <2> QED BY ONLY <1>3, <1>5, <1>8, PopPartition
<1>10. Partitioned(d, ({} \cup RegistersOf(op2)) \cup RegistersOf(op1))
    BY <1>6, <1>7, <1>9, SamePartition
<1>11. ({} \cup RegistersOf(op2)) \cup RegistersOf(op1) = RegistersOf(op2) \cup RegistersOf(op1)
    OBVIOUS
<1>12. /\ Top(OperandValues(c)) = AsInt(Read(c, op2))
       /\ Second(OperandValues(c)) = AsInt(Read(c, op1))
    <2>1. n \in 1 .. n /\ n - 1 \in 1 .. n BY <1>2
    <2> QED BY <1>1, <2>1, OperandValuesFacts DEF Top, Second
<1>13. OperandValues(d) = Below(OperandValues(c), 2) BY <1>1, <1>2, PopValues
<1>14. Partitioned(d, RegistersOf(op2) \cup RegistersOf(op1)) BY <1>10, <1>11
<1>15. RegistersOf(op1) \cap RegistersOf(op2) = {} BY <1>9
<1> HIDE DEF b, d, op1, op2
<1>16. /\ op1 \in Operands /\ op2 \in Operands
       /\ d \in Machines /\ d.free = c.free /\ SameCells(c, d)
       /\ c.ops # <<>> /\ b.ops # <<>> /\ Top(b.ops) = op1
    BY <1>2, <1>4, <1>5, <1>8, <1>9
<1> QED BY <1>12, <1>13, <1>14, <1>15, <1>16 DEF b, d, op1, op2

(* IADD, ISUB and IMUL.                                                    *)
LEMMA GenerateArithmeticFacts ==
    ASSUME NEW inst \in Mnemonics, NEW c, Sound(c), Len(c.ops) >= 2,
           IsReg(Second(c.ops)) \/ c.free # <<>>
    PROVE  LET d == GenerateArithmetic(inst, c)
               x == X86Result(inst, Read(c, Second(c.ops)), Read(c, Top(c.ops)))
           IN  /\ Sound(d)
               /\ OperandValues(d) = Append(Below(OperandValues(c), 2), AsInt(x))
               /\ VariableValues(d) = VariableValues(c)
<1> DEFINE op2 == Top(c.ops)
           op1 == Second(c.ops)
           c1  == PopOps(c, 2)
           dst == IF IsReg(op1) THEN op1 ELSE FirstAvailableReg(c1)
           c2  == IF IsReg(op1) THEN c1 ELSE Mov(TakeReg(c1), dst, op1)
           c3  == Free(c2, op2)
           c4  == Emit(inst, c3, dst, op2)
           d   == PushOp(c4, dst)
<1>1. /\ op1 \in Operands /\ op2 \in Operands /\ op1 \in Sources /\ op2 \in Sources
      /\ RegistersOf(op1) \cap RegistersOf(op2) = {}
      /\ c1 \in Machines /\ c1.free = c.free /\ SameCells(c, c1)
      /\ Partitioned(c1, RegistersOf(op2) \cup RegistersOf(op1))
      /\ OperandValues(c1) = Below(OperandValues(c), 2)
    BY PopTwoFacts, OperandTypes
<1>2. \A y : Read(c1, y) = Read(c, y) BY <1>1, SameCellsRead
<1>3. /\ dst \in Operands /\ IsReg(dst) /\ dst.reg \in Pool /\ dst = Reg(dst.reg)
      /\ RegistersOf(dst) \cap RegistersOf(op2) = {}
      /\ c2 \in Machines /\ c2.ops = c1.ops
      /\ Partitioned(c2, RegistersOf(op2) \cup RegistersOf(dst))
      /\ Elsewhere(c1, dst)
      /\ Read(c2, dst) = Read(c1, op1)
      /\ \A y \in Sources : y # dst => Read(c2, y) = Read(c1, y)
    <2> HIDE DEF op1, op2, c1
    <2>1. CASE IsReg(op1)
        <3>1. dst = op1 /\ c2 = c1 BY <2>1
        <3>2. op1.reg \in Pool /\ op1 = Reg(op1.reg) BY <1>1, <2>1 DEF IsReg, Operands, Reg
        <3>3. op1.reg \in RegistersOf(op2) \cup RegistersOf(op1) BY <2>1 DEF RegistersOf
        <3>4. Elsewhere(c1, Reg(op1.reg)) BY <1>1, <3>3, ElsewhereFacts
        <3> HIDE DEF dst, c2
        <3> QED BY <1>1, <2>1, <3>1, <3>2, <3>4
    <2>2. CASE ~IsReg(op1)
        <3> DEFINE r == Head(c1.free)
                   held == RegistersOf(op2) \cup RegistersOf(op1)
        <3>1. dst = FirstAvailableReg(c1) /\ c2 = Mov(TakeReg(c1), FirstAvailableReg(c1), op1)
            BY <2>2
        <3>2. c1.free # <<>> BY <1>1, <2>2 DEF op1
        <3> HIDE DEF dst, c2, held
        <3>3. /\ c2 \in Machines /\ c2.ops = c1.ops
              /\ r \in Pool /\ r \notin held /\ dst = Reg(r) /\ Elsewhere(c1, Reg(r))
              /\ Partitioned(c2, held \cup {r})
              /\ Read(c2, Reg(r)) = Read(c1, op1)
              /\ \A y \in Sources : y # Reg(r) => Read(c2, y) = Read(c1, y)
            <4>1. Partitioned(c1, held) BY <1>1 DEF held
            <4> QED BY ONLY <1>1, <3>1, <3>2, <4>1, TakeAndMove
        <3>4. RegistersOf(op1) = {} BY <2>2 DEF RegistersOf
        <3>5. RegistersOf(dst) = {r} /\ dst \in Operands /\ IsReg(dst) /\ dst.reg = r
            BY <3>3, OperandTypes DEF RegistersOf, Reg
        <3>6. held \cup {r} = RegistersOf(op2) \cup RegistersOf(dst) BY <3>4, <3>5 DEF held
        <3>7. RegistersOf(dst) \cap RegistersOf(op2) = {} BY <3>3, <3>5 DEF held
        <3> QED BY <3>3, <3>5, <3>6, <3>7
    <2> QED BY <2>1, <2>2
<1>4. op2 # dst
    <2> HIDE DEF op2, dst
    <2> QED BY <1>3 DEF RegistersOf
<1>5. Read(c2, op2) = Read(c, op2) /\ Read(c2, dst) = Read(c, op1)
    <2> HIDE DEF op1, op2, dst, c1, c2
    <2> QED BY <1>1, <1>2, <1>3, <1>4
<1> HIDE DEF op1, op2, dst, c1, c2
<1>6. c3 \in Machines /\ c3.ops = c2.ops /\ SameCells(c2, c3) BY <1>1, <1>3, FreeFacts
<1>7. Partitioned(c3, RegistersOf(dst))
    <2>1. RegistersOf(op2) \subseteq RegistersOf(op2) \cup RegistersOf(dst) OBVIOUS
    <2>2. Partitioned(c3, (RegistersOf(op2) \cup RegistersOf(dst)) \ RegistersOf(op2))
        BY ONLY <1>1, <1>3, <2>1, FreePartition
    <2>3. (RegistersOf(op2) \cup RegistersOf(dst)) \ RegistersOf(op2) = RegistersOf(dst) BY <1>3
    <2> QED BY <2>2, <2>3
<1>8. \A y : Read(c3, y) = Read(c2, y) BY <1>6, SameCellsRead
<1>9. dst \in Destinations /\ dst \in Sources BY <1>3, OperandTypes DEF AllRegisters
<1> HIDE DEF c3
<1>10. /\ c4 \in Machines /\ c4.ops = c3.ops /\ c4.free = c3.free
       /\ Read(c4, dst) = X86Result(inst, Read(c3, dst), Read(c3, op2))
       /\ \A y \in Sources : y # dst => Read(c4, y) = Read(c3, y)
    <2>1. inst \in Mnemonics /\ op2 \in Sources BY <1>1
    <2>2. c3 \in Machines BY <1>6
    <2>3. \A y \in Sources :
            y # dst => Read(Emit(inst, c3, dst, op2), y) = Read(c3, y)
        BY ONLY <1>9, <2>1, <2>2, EmitFacts
    <2>4. /\ c4 \in Machines /\ c4.ops = c3.ops /\ c4.free = c3.free
          /\ Read(c4, dst) = X86Result(inst, Read(c3, dst), Read(c3, op2))
        BY ONLY <1>9, <2>1, <2>2, EmitFacts
    <2> QED BY <2>3, <2>4
<1>11. Partitioned(c4, RegistersOf(dst)) BY <1>7, <1>10, SamePartition
<1> HIDE DEF c4
<1>12. d \in Machines /\ SameCells(c4, d) BY <1>3, <1>10, PushOpFacts
<1>13. Partitioned(d, {})
    <2>1. RegistersOf(dst) \subseteq RegistersOf(dst) OBVIOUS
    <2>2. Partitioned(d, RegistersOf(dst) \ RegistersOf(dst))
        BY ONLY <1>3, <1>10, <1>11, <2>1, PushPartition
    <2>3. RegistersOf(dst) \ RegistersOf(dst) = {} OBVIOUS
    <2> QED BY <2>2, <2>3
<1>14. \A y \in Sources : y # dst => Read(c4, y) = Read(c1, y) BY <1>3, <1>8, <1>10
<1>15. OperandValues(c4) = OperandValues(c1)
    <2>1. c4.ops = c1.ops BY <1>3, <1>6, <1>10
    <2> QED BY ONLY <1>1, <1>3, <1>10, <1>14, <2>1, SameValues
<1>16. OperandValues(d) = Append(OperandValues(c4), AsInt(Read(c4, dst)))
    BY <1>3, <1>10, PushValues
<1>17. Read(c4, dst) = X86Result(inst, Read(c, op1), Read(c, op2)) BY <1>5, <1>8, <1>10
<1>18. VariableValues(d) = VariableValues(c)
    <2>1. \A w \in Vars : Mem(w) \in Sources /\ Mem(w) # dst
        <3>1. \A w \in Vars : Mem(w) \in Sources BY OperandTypes
        <3>2. \A w \in Vars : Mem(w) # Reg(dst.reg) BY DEF Mem, Reg
        <3> QED BY <1>3, <3>1, <3>2
    <2>2. \A w \in Vars : Read(c4, Mem(w)) = Read(c, Mem(w)) BY <1>2, <1>14, <2>1
    <2>3. VariableValues(c4) = VariableValues(c)
        BY <1>10, <2>2, VariableValuesFacts DEF Sound
    <2> QED BY <1>12, <2>3 DEF VariableValues, SameCells
<1>19. d = GenerateArithmetic(inst, c)
    BY DEF GenerateArithmetic, c4, c3, c2, c1, dst, op1, op2
<1> QED BY <1>1, <1>12, <1>13, <1>15, <1>16, <1>17, <1>18, <1>19 DEF Sound, op1, op2

-----------------------------------------------------------------------------
(* IDIV and IREM, up to the instruction that divides.                      *)
LEMMA PrepareDivisionFacts ==
    ASSUME NEW c, Sound(c), Len(c.ops) >= 2,
           IsReg(Second(c.ops)) \/ IsReg(Top(c.ops)) \/ c.free # <<>>
    PROVE  LET d == PrepareDivision(c)
               dst == Denominator(c)
           IN  /\ dst \in Operands /\ IsReg(dst) /\ dst.reg \in Pool /\ dst = Reg(dst.reg)
               /\ d \in Machines /\ d.ops = PopOps(c, 2).ops
               /\ Partitioned(d, RegistersOf(dst))
               /\ Read(d, dst) = Read(c, Top(c.ops))
               /\ Read(d, Reg("RAX")) = Read(c, Second(c.ops))
               /\ Read(d, Reg("RDX")) = 0
               /\ OperandValues(d) = Below(OperandValues(c), 2)
               /\ VariableValues(d) = VariableValues(c)
<1> DEFINE den == Top(c.ops)
           nom == Second(c.ops)
           c0  == PopOps(c, 1)
           c1  == PopAndFree(c0)
           c2  == Mov(c1, Reg("RAX"), nom)
           dst == IF IsReg(den) THEN den ELSE FirstAvailableReg(c1)
           c3  == IF IsReg(den) THEN c2 ELSE Mov(TakeReg(c2), dst, den)
           d   == Mov(c3, Reg("RDX"), Imm(0))
<1>1. /\ nom \in Operands /\ den \in Operands /\ nom \in Sources /\ den \in Sources
      /\ Reg("RAX") \in Destinations /\ Reg("RDX") \in Destinations
      /\ Reg("RAX") \in Sources /\ Reg("RDX") \in Sources
      /\ Imm(0) \in Sources
    <2>1. 0 \in Ints BY WordAssumption DEF Ints
    <2> QED BY <2>1, PopTwoFacts, OperandTypes DEF AllRegisters
<1>2. /\ c \in Machines /\ c.ops \in Seq(Operands) /\ Len(c.ops) \in Nat /\ 1 <= Len(c.ops)
    BY DEF Sound, Machines
<1>3. /\ c0 \in Machines /\ c0.ops # <<>> /\ Top(c0.ops) = nom /\ c0.free = c.free
      /\ SameCells(c, c0) /\ c0.ops = SubSeq(c.ops, 1, Len(c.ops) - 1)
    BY <1>2, PopTwoFacts, PopOpsFacts
<1>4. Partitioned(c0, RegistersOf(den))
    <2>1. Partitioned(c0, {} \cup RegistersOf(den))
        <3>1. Partitioned(c, {}) /\ c.ops # <<>> BY PopTwoFacts DEF Sound
        <3> QED BY ONLY <1>2, <3>1, PopPartition
    <2>2. {} \cup RegistersOf(den) = RegistersOf(den) OBVIOUS
    <2> QED BY <2>1, <2>2
<1> HIDE DEF den, nom, c0
<1>5. /\ c1 \in Machines /\ Partitioned(c1, RegistersOf(den)) /\ SameCells(c0, c1)
      /\ c1.ops = SubSeq(c0.ops, 1, Len(c0.ops) - 1)
      /\ c1.free = IF IsReg(nom) THEN Append(c0.free, nom.reg) ELSE c0.free
    BY <1>3, <1>4, PopAndFreeFacts
<1>6. c1.ops = PopOps(c, 2).ops
    <2>1. PopOps(c, 2).ops = SubSeq(c.ops, 1, Len(c.ops) - 2) BY <1>2, PopOpsFacts
    <2>2. Len(c0.ops) = Len(c.ops) - 1 BY <1>2, <1>3
    <2>3. c1.ops = SubSeq(SubSeq(c.ops, 1, Len(c.ops) - 1), 1, Len(c.ops) - 2)
        BY <1>2, <1>3, <1>5, <2>2
    <2> QED BY <1>2, <2>1, <2>3
<1>7. \A y : Read(c1, y) = Read(c, y)
    <2>1. \A y : Read(c0, y) = Read(c, y) BY <1>3, SameCellsRead
    <2>2. \A y : Read(c1, y) = Read(c0, y) BY <1>5, SameCellsRead
    <2> QED BY <2>1, <2>2
<1>8. IsReg(den) \/ c1.free # <<>>
    <2>1. CASE IsReg(nom)
        <3>1. c1.free = Append(c0.free, nom.reg) BY <1>5, <2>1
        <3>2. c0.free \in Seq(Pool) BY <1>3 DEF Machines
        <3>3. nom.reg \in Pool BY <1>1, <2>1 DEF Operands, IsReg
        <3>4. Len(c1.free) = Len(c0.free) + 1 /\ Len(c0.free) \in Nat BY <3>1, <3>2, <3>3
        <3> QED BY <3>4
    <2>2. CASE ~IsReg(nom) BY <1>3, <1>5, <2>2 DEF nom, den
    <2> QED BY <2>1, <2>2
<1> HIDE DEF c1
<1>9. /\ c2 \in Machines /\ c2.ops = c1.ops /\ c2.free = c1.free
      /\ Read(c2, Reg("RAX")) = Read(c1, nom)
      /\ \A y \in Sources : y # Reg("RAX") => Read(c2, y) = Read(c1, y)
    <2>1. \A y \in Sources :
            y # Reg("RAX") => Read(Mov(c1, Reg("RAX"), nom), y) = Read(c1, y)
        BY ONLY <1>1, <1>5, MovFacts
    <2>2. /\ c2 \in Machines /\ c2.ops = c1.ops /\ c2.free = c1.free
          /\ Read(c2, Reg("RAX")) = Read(c1, nom)
        BY ONLY <1>1, <1>5, MovFacts
    <2> QED BY <2>1, <2>2
<1>10. Partitioned(c2, RegistersOf(den)) BY <1>5, <1>9, SamePartition
<1>11. den # Reg("RAX") /\ "RAX" \notin Pool /\ "RDX" \notin Pool
    BY <1>1, RegisterAssumption DEF Operands, Reg
<1>12. FirstAvailableReg(c1) = FirstAvailableReg(c2) BY <1>9 DEF FirstAvailableReg
<1> HIDE DEF c2
<1>13. /\ dst \in Operands /\ IsReg(dst) /\ dst.reg \in Pool /\ dst = Reg(dst.reg)
       /\ c3 \in Machines /\ c3.ops = c1.ops
       /\ Partitioned(c3, RegistersOf(dst))
       /\ Elsewhere(c1, dst)
       /\ Read(c3, dst) = Read(c2, den)
       /\ \A y \in Sources : y # dst => Read(c3, y) = Read(c2, y)
    <2>1. CASE IsReg(den)
        <3>1. dst = den /\ c3 = c2 BY <2>1
        <3>2. den.reg \in Pool /\ den = Reg(den.reg) BY <1>1, <2>1 DEF IsReg, Operands, Reg
        <3>3. den.reg \in RegistersOf(den) BY <2>1 DEF RegistersOf
        <3>4. Elsewhere(c1, Reg(den.reg)) BY <1>5, <3>3, ElsewhereFacts
        <3> HIDE DEF dst, c3
        <3> QED BY <1>1, <1>9, <1>10, <2>1, <3>1, <3>2, <3>4
    <2>2. CASE ~IsReg(den)
        <3> DEFINE r == Head(c2.free)
        <3>1. dst = FirstAvailableReg(c2) /\ c3 = Mov(TakeReg(c2), FirstAvailableReg(c2), den)
            BY <1>12, <2>2
        <3>2. c2.free # <<>> BY <1>8, <1>9, <2>2
        <3> HIDE DEF dst, c3
        <3>3. /\ c3 \in Machines /\ c3.ops = c2.ops
              /\ r \in Pool /\ dst = Reg(r) /\ Elsewhere(c2, Reg(r))
              /\ Partitioned(c3, RegistersOf(den) \cup {r})
              /\ Read(c3, Reg(r)) = Read(c2, den)
              /\ \A y \in Sources : y # Reg(r) => Read(c3, y) = Read(c2, y)
            BY ONLY <1>1, <1>9, <1>10, <3>1, <3>2, TakeAndMove
        <3>4. RegistersOf(den) = {} BY <2>2 DEF RegistersOf
        <3>5. RegistersOf(dst) = {r} /\ dst \in Operands /\ IsReg(dst) /\ dst.reg = r
            BY <3>3, OperandTypes DEF RegistersOf, Reg
        <3>6. RegistersOf(den) \cup {r} = RegistersOf(dst) BY <3>4, <3>5
        <3>7. Elsewhere(c1, dst) BY <1>9, <3>3 DEF Elsewhere
        <3> QED BY <1>9, <3>3, <3>5, <3>6, <3>7
    <2> QED BY <2>1, <2>2
<1>14. dst # Reg("RAX") /\ dst # Reg("RDX") BY <1>11, <1>13 DEF Reg
<1> HIDE DEF dst, c3
<1>15. /\ d \in Machines /\ d.ops = c3.ops /\ d.free = c3.free
       /\ Read(d, Reg("RDX")) = Read(c3, Imm(0))
       /\ \A y \in Sources : y # Reg("RDX") => Read(d, y) = Read(c3, y)
    BY <1>1, <1>13, MovFacts
<1> HIDE DEF d
<1>16. Partitioned(d, RegistersOf(dst)) BY <1>13, <1>15, SamePartition
<1>17. dst \in Sources BY <1>13, OperandTypes
<1>18. Read(d, dst) = Read(c, den) BY <1>1, <1>7, <1>9, <1>11, <1>13, <1>14, <1>15, <1>17
<1>19. Read(d, Reg("RAX")) = Read(c, nom)
    <2>1. Reg("RAX") # Reg("RDX") BY DEF Reg
    <2> QED BY <1>1, <1>7, <1>9, <1>13, <1>14, <1>15, <2>1
<1>20. Read(d, Reg("RDX")) = 0 BY <1>15 DEF Read, Imm
<1>21. OperandValues(d) = Below(OperandValues(c), 2)
    <2>1. Elsewhere(c1, Reg("RAX")) BY <1>5, ElsewhereFacts
    <2>2. OperandValues(c2) = OperandValues(c1) BY ONLY <1>5, <1>9, <2>1, SameValues
    <2>3. c3.ops = c2.ops /\ Elsewhere(c2, dst) BY <1>9, <1>13 DEF Elsewhere
    <2>4. OperandValues(c3) = OperandValues(c2) BY ONLY <1>9, <1>13, <2>3, SameValues
    <2>5. Elsewhere(c3, Reg("RDX")) BY <1>13, ElsewhereFacts
    <2>6. OperandValues(d) = OperandValues(c3) BY ONLY <1>13, <1>15, <2>5, SameValues
    <2>7. OperandValues(PopOps(c, 2)) = Below(OperandValues(c), 2) /\ SameCells(c, PopOps(c, 2))
        BY PopTwoFacts
    <2>8. OperandValues(c1) = OperandValues(PopOps(c, 2))
        <3>1. \A y : Read(PopOps(c, 2), y) = Read(c, y) BY <2>7, SameCellsRead
        <3> QED BY <1>6, <1>7, <3>1 DEF OperandValues
    <2> QED BY <2>2, <2>4, <2>6, <2>7, <2>8
<1>22. VariableValues(d) = VariableValues(c)
    <2>1. ASSUME NEW w \in Vars PROVE Read(d, Mem(w)) = Read(c, Mem(w))
        <3>1. Mem(w) \in Sources BY OperandTypes
        <3>2. Mem(w) # Reg(dst.reg) /\ Mem(w) # Reg("RAX") /\ Mem(w) # Reg("RDX")
            BY DEF Mem, Reg
        <3> QED BY <1>7, <1>9, <1>13, <1>15, <3>1, <3>2
    <2> QED BY <1>2, <1>15, <2>1, VariableValuesFacts
<1>23. dst = Denominator(c) BY DEF Denominator, dst, den, c1, c0
<1>24. d = PrepareDivision(c)
    BY <1>23 DEF PrepareDivision, d, c3, c2, c1, c0, den, nom
<1> QED
    BY <1>6, <1>13, <1>15, <1>16, <1>18, <1>19, <1>20, <1>21, <1>22, <1>23, <1>24 DEF den, nom

(* The instruction itself, when it does not trap.                          *)
LEMMA IdivFacts ==
    ASSUME NEW c \in Machines, NEW op \in Sources, ~IdivTraps(c, op)
    PROVE  /\ Idiv(c, op) \in Machines
           /\ Idiv(c, op).ops = c.ops /\ Idiv(c, op).free = c.free
           /\ Read(Idiv(c, op), Reg("RAX")) = Quotient(Dividend(c), Read(c, op))
           /\ Read(Idiv(c, op), Reg("RDX")) = Remainder(Dividend(c), Read(c, op))
           /\ \A y \in Sources : y # Reg("RAX") /\ y # Reg("RDX")
                                  => Read(Idiv(c, op), y) = Read(c, y)
           /\ Dividend(c) \in Int /\ Read(c, op) \in Longs \ {0}
<1> DEFINE d == Idiv(c, op)
           q == Quotient(Dividend(c), Read(c, op))
           m == Remainder(Dividend(c), Read(c, op))
<1>1. Read(c, op) \in Longs \ {0} /\ q \in Longs BY ReadType DEF IdivTraps
<1>2. c.regs \in [AllRegisters -> Longs] /\ "RAX" \in AllRegisters /\ "RDX" \in AllRegisters
    BY DEF Machines, AllRegisters
<1>3. Dividend(c) \in Int
    <2>1. c.regs["RDX"] \in Int /\ c.regs["RAX"] \in Int /\ LongHalf \in Int
        BY <1>2, WordAssumption DEF Longs
    <2> QED BY <2>1 DEF Dividend
<1>4. m \in Longs BY <1>1, <1>3, RemainderIsLong
<1> DEFINE regs == [c.regs EXCEPT !["RAX"] = q, !["RDX"] = m]
<1>5. d = [ops |-> c.ops, free |-> c.free, regs |-> regs, mem |-> c.mem]
    BY Updates DEF Idiv
<1> HIDE DEF d, q, m
<1>6. regs \in [AllRegisters -> Longs] /\ regs["RAX"] = q /\ regs["RDX"] = m
      /\ \A r \in AllRegisters : r # "RAX" /\ r # "RDX" => regs[r] = c.regs[r]
    BY <1>1, <1>2, <1>4
<1> HIDE DEF regs
<1>7. d \in Machines /\ d.ops = c.ops /\ d.free = c.free /\ d.regs = regs /\ d.mem = c.mem
    BY <1>5, <1>6 DEF Machines
<1>8. Read(d, Reg("RAX")) = q /\ Read(d, Reg("RDX")) = m BY <1>6, <1>7 DEF Read, Reg
<1>9. ASSUME NEW y \in Sources, y # Reg("RAX"), y # Reg("RDX")
      PROVE  Read(d, y) = Read(c, y)
    <2>1. CASE y.kind = "REGISTER"
        <3>1. y.reg \in AllRegisters /\ y.reg # "RAX" /\ y.reg # "RDX"
            BY <1>9, <2>1 DEF Sources, Destinations, Reg
        <3> QED BY <1>6, <1>7, <2>1, <3>1 DEF Read
    <2>2. CASE y.kind # "REGISTER" BY <1>7, <2>2 DEF Read, Sources, Destinations
    <2> QED BY <2>1, <2>2
<1> QED BY <1>1, <1>3, <1>7, <1>8, <1>9 DEF d, q, m

(* Quotient or remainder goes to the register of the denominator.          *)
LEMMA GenerateRemDivFacts ==
    ASSUME NEW isRem \in BOOLEAN, NEW c, Sound(c), Len(c.ops) >= 2,
           IsReg(Second(c.ops)) \/ IsReg(Top(c.ops)) \/ c.free # <<>>,
           ~IdivTraps(PrepareDivision(c), Denominator(c))
    PROVE  LET d == GenerateRemDiv(isRem, c)
               a == Dividend(PrepareDivision(c))
               b == Read(c, Top(c.ops))
           IN  /\ Sound(d)
               /\ OperandValues(d) =
                    Append(Below(OperandValues(c), 2),
                           AsInt(IF isRem THEN Remainder(a, b) ELSE Quotient(a, b)))
               /\ VariableValues(d) = VariableValues(c)
<1> DEFINE p   == PrepareDivision(c)
           dst == Denominator(c)
           c1  == Idiv(p, dst)
           src == Reg(IF isRem THEN "RDX" ELSE "RAX")
           c2  == Mov(c1, dst, src)
           d   == PushOp(c2, dst)
           a   == Dividend(p)
           b   == Read(c, Top(c.ops))
<1>1. /\ dst \in Operands /\ IsReg(dst) /\ dst.reg \in Pool /\ dst = Reg(dst.reg)
      /\ p \in Machines
      /\ Partitioned(p, RegistersOf(dst))
      /\ Read(p, dst) = b
      /\ OperandValues(p) = Below(OperandValues(c), 2)
      /\ VariableValues(p) = VariableValues(c)
    BY PrepareDivisionFacts
<1>2. dst \in Sources /\ dst \in Destinations /\ src \in Sources
      /\ Reg("RAX") \in Sources /\ Reg("RDX") \in Sources
    BY <1>1, OperandTypes DEF AllRegisters
<1> HIDE DEF p, dst, b
<1>3. /\ c1 \in Machines /\ c1.ops = p.ops /\ c1.free = p.free
      /\ Read(c1, Reg("RAX")) = Quotient(a, b)
      /\ Read(c1, Reg("RDX")) = Remainder(a, b)
      /\ \A y \in Sources : y # Reg("RAX") /\ y # Reg("RDX") => Read(c1, y) = Read(p, y)
    <2>1. ~IdivTraps(p, dst) BY DEF p, dst
    <2> QED BY <1>1, <1>2, <2>1, IdivFacts
<1>4. Read(c1, src) = IF isRem THEN Remainder(a, b) ELSE Quotient(a, b) BY <1>3
<1> HIDE DEF c1, a, src
<1>5. /\ c2 \in Machines /\ c2.ops = c1.ops /\ c2.free = c1.free
      /\ Read(c2, dst) = Read(c1, src)
      /\ \A y \in Sources : y # dst => Read(c2, y) = Read(c1, y)
    BY ONLY <1>2, <1>3, MovFacts
<1> HIDE DEF c2
<1>6. Partitioned(c2, RegistersOf(dst)) BY <1>1, <1>3, <1>5, SamePartition
<1>7. d \in Machines /\ SameCells(c2, d) BY <1>1, <1>5, PushOpFacts
<1>8. Partitioned(d, {})
    <2>1. RegistersOf(dst) \subseteq RegistersOf(dst) OBVIOUS
    <2>2. Partitioned(d, RegistersOf(dst) \ RegistersOf(dst))
        BY ONLY <1>1, <1>5, <1>6, <2>1, PushPartition
    <2>3. RegistersOf(dst) \ RegistersOf(dst) = {} OBVIOUS
    <2> QED BY <2>2, <2>3
<1>9. Elsewhere(p, dst)
    <2>1. dst.reg \in RegistersOf(dst) BY <1>1 DEF RegistersOf
    <2>2. Elsewhere(p, Reg(dst.reg)) BY <1>1, <2>1, ElsewhereFacts
    <2> QED BY <1>1, <2>2
<1>10. OperandValues(c1) = OperandValues(p)
    <2>1. \A i \in 1 .. Len(p.ops) : /\ p.ops[i] \in Sources
                                     /\ p.ops[i] # Reg("RAX") /\ p.ops[i] # Reg("RDX")
        <3>1. Elsewhere(p, Reg("RAX")) /\ Elsewhere(p, Reg("RDX")) BY <1>1, ElsewhereFacts
        <3>2. \A i \in 1 .. Len(p.ops) : p.ops[i] \in Sources
            BY <1>1, OperandValuesFacts, OperandTypes
        <3>3. DOMAIN p.ops = 1 .. Len(p.ops) BY <1>1 DEF Machines
        <3> QED BY <3>1, <3>2, <3>3 DEF Elsewhere
    <2>2. \A i \in 1 .. Len(p.ops) : Read(c1, p.ops[i]) = Read(p, p.ops[i]) BY <1>3, <2>1
    <2> QED BY <1>3, <2>2 DEF OperandValues
<1>11. OperandValues(c2) = OperandValues(c1)
    <2>1. Elsewhere(c1, dst) BY <1>3, <1>9 DEF Elsewhere
    <2> QED BY ONLY <1>3, <1>5, <2>1, SameValues
<1>12. OperandValues(d) = Append(OperandValues(c2), AsInt(Read(c2, dst)))
    BY <1>1, <1>5, PushValues
<1>13. VariableValues(d) = VariableValues(c)
    <2>1. ASSUME NEW w \in Vars PROVE Read(c2, Mem(w)) = Read(p, Mem(w))
        <3>1. Mem(w) \in Sources BY OperandTypes
        <3>2. Mem(w) # Reg(dst.reg) /\ Mem(w) # Reg("RAX") /\ Mem(w) # Reg("RDX")
            BY DEF Mem, Reg
        <3> QED BY <1>1, <1>3, <1>5, <3>1, <3>2
    <2>2. VariableValues(c2) = VariableValues(p) BY <1>1, <1>5, <2>1, VariableValuesFacts
    <2> QED BY <1>1, <1>7, <2>2 DEF VariableValues, SameCells
<1>14. d = GenerateRemDiv(isRem, c) BY DEF GenerateRemDiv, d, c2, c1, src, p, dst
<1> QED
    BY <1>1, <1>4, <1>5, <1>7, <1>8, <1>10, <1>11, <1>12, <1>13, <1>14 DEF Sound, a, b, p

(* The dividend is the first operand, if that is not negative.             *)
LEMMA DividendFacts ==
    ASSUME NEW c, Sound(c), Len(c.ops) >= 2,
           IsReg(Second(c.ops)) \/ IsReg(Top(c.ops)) \/ c.free # <<>>,
           Read(c, Second(c.ops)) >= 0
    PROVE  Dividend(PrepareDivision(c)) = Read(c, Second(c.ops))
<1> DEFINE p == PrepareDivision(c)
<1>1. p \in Machines /\ Read(p, Reg("RAX")) = Read(c, Second(c.ops)) /\ Read(p, Reg("RDX")) = 0
    BY PrepareDivisionFacts
<1>2. p.regs["RAX"] = Read(c, Second(c.ops)) /\ p.regs["RDX"] = 0 BY <1>1 DEF Read, Reg
<1>3. p.regs["RAX"] \in Int BY <1>1, WordAssumption DEF Machines, AllRegisters, Longs
<1> HIDE DEF p
<1>4. Dividend(p) = p.regs["RAX"] BY <1>2, <1>3, WordAssumption DEF Dividend
<1> QED BY <1>2, <1>4 DEF p

-----------------------------------------------------------------------------
(* compile(), for an entry that is no jump.                                *)
LEMMA EntryTypes ==
    ASSUME NEW e \in Entries
    PROVE  /\ e.op \in Instructions /\ e.var \in Vars
           /\ e.op # "IINC" => e.val \in Ints
           /\ e.op = "IINC" => e.val \in Bytes
           /\ e.val \in Ints
BY EntryAssumption, WordAssumption DEF Bytes, Ints

LEMMA PopCounts ==
    /\ \A op \in Arithmetic \cup Divisions : Pops(op) = 2 /\ op \notin Tests \cup {"GOTO"}
    /\ Pops("ISTORE") = 1
    /\ \A op : Pops(op) \in 0 .. 2
BY DEF Pops, Arithmetic, Divisions, Tests, TestsOne, RelationOf

LEMMA SoundLength ==
    ASSUME NEW c, Sound(c)
    PROVE  Len(c.ops) \in Nat /\ (Len(c.ops) >= 1 => c.ops # <<>>)
BY DEF Sound, Machines

LEMMA CompileSound ==
    ASSUME NEW c, Sound(c), NEW e \in Entries, e.op \notin Tests \cup {"GOTO"},
           Len(c.ops) >= Pops(e.op), ~CompileThrows(e.op, c),
           e.op \in Divisions => ~IdivTraps(PrepareDivision(c), Denominator(c))
    PROVE  Sound(Compile(e, c))
<1> USE EntryTypes
<1>1. CASE e.op = "ILOAD"
    <2>1. c.free # <<>> BY <1>1 DEF CompileThrows, OutOfRegisters
    <2>2. Compile(e, c) = VariableLoad(c, e.var) BY <1>1 DEF Compile, Arithmetic, Divisions
    <2> QED BY <2>1, <2>2, VariableLoadFacts
<1>2. CASE e.op = "ISTORE"
    <2>1. c.ops # <<>> BY <1>2, PopCounts, SoundLength
    <2>2. Compile(e, c) = VariableStore(c, e.var) BY <1>2 DEF Compile, Arithmetic, Divisions
    <2> QED BY <2>1, <2>2, VariableStoreFacts
<1>3. CASE e.op = "PUSH"
    <2>1. Imm(e.val) \in Operands /\ RegistersOf(Imm(e.val)) = {}
        BY OperandTypes DEF RegistersOf
    <2>2. PushOp(c, Imm(e.val)) \in Machines BY <2>1, PushOpFacts DEF Sound
    <2>3. Partitioned(PushOp(c, Imm(e.val)), {} \ {})
        BY <2>1, PushPartition DEF Sound
    <2>4. {} \ {} = {} OBVIOUS
    <2>5. Compile(e, c) = PushOp(c, Imm(e.val)) BY <1>3 DEF Compile, Arithmetic, Divisions
    <2> QED BY <2>2, <2>3, <2>4, <2>5 DEF Sound
<1>4. CASE e.op = "IINC"
    <2>1. Compile(e, c) = Emit("ADD", c, Mem(e.var), Imm(e.val)) BY <1>4 DEF Compile, Arithmetic, Divisions
    <2> QED BY <2>1, IncrementFacts
<1>5. CASE e.op \in Arithmetic
    <2>1. MnemonicFor[e.op] \in Mnemonics BY <1>5 DEF MnemonicFor, Arithmetic, Mnemonics
    <2>2. IsReg(Second(c.ops)) \/ c.free # <<>> BY <1>5 DEF CompileThrows, OutOfRegisters
    <2>3. Len(c.ops) >= 2 BY <1>5, PopCounts
    <2>4. Compile(e, c) = GenerateArithmetic(MnemonicFor[e.op], c)
        BY <1>5 DEF Compile, Arithmetic, Divisions
    <2> QED BY <2>1, <2>2, <2>3, <2>4, GenerateArithmeticFacts
<1>6. CASE e.op \in Divisions
    <2>1. IsReg(Second(c.ops)) \/ IsReg(Top(c.ops)) \/ c.free # <<>>
        BY <1>6 DEF CompileThrows, OutOfRegisters
    <2>2. Len(c.ops) >= 2 BY <1>6, PopCounts
    <2>3. Compile(e, c) = GenerateRemDiv(e.op = "IREM", c)
        BY <1>6 DEF Compile, Divisions, Arithmetic
    <2>4. (e.op = "IREM") \in BOOLEAN OBVIOUS
    <2> QED BY ZenonT(40), <1>6, <2>1, <2>2, <2>3, <2>4, GenerateRemDivFacts
<1> QED BY <1>1, <1>2, <1>3, <1>4, <1>5, <1>6 DEF Instructions

(* The operands of a branch go, whatever it does.                          *)
LEMMA PopTestedFacts ==
    ASSUME NEW c, Sound(c), NEW op, Len(c.ops) >= Pops(op)
    PROVE  /\ Sound(PopTested(op, c)) /\ SameCells(c, PopTested(op, c))
           /\ OperandValues(PopTested(op, c)) = Below(OperandValues(c), Pops(op))
<1> DEFINE c1 == PopAndFree(c)
           c2 == PopAndFree(c1)
<1>1. Len(c.ops) \in Nat /\ (Len(c.ops) >= 1 => c.ops # <<>>) BY SoundLength
<1>2. ASSUME c.ops # <<>>
      PROVE  /\ Sound(c1) /\ SameCells(c, c1) /\ Len(c1.ops) = Len(c.ops) - 1
             /\ OperandValues(c1) = Below(OperandValues(c), 1)
    <2>1. /\ c1 \in Machines /\ Partitioned(c1, {}) /\ SameCells(c, c1)
          /\ OperandValues(c1) = Below(OperandValues(c), 1)
          /\ c1.ops = SubSeq(c.ops, 1, Len(c.ops) - 1)
        BY <1>2, PopAndFreeFacts DEF Sound
    <2>2. Len(c1.ops) = Len(c.ops) - 1
        <3>1. c.ops \in Seq(Operands) /\ Len(c.ops) \in Nat \ {0}
            BY <1>2 DEF Sound, Machines
        <3> HIDE DEF c1
        <3> QED BY <2>1, <3>1
    <2> QED BY <2>1, <2>2 DEF Sound
<1>3. CASE Pops(op) = 2
    <2> HIDE DEF c1
    <2>1. c.ops # <<>> BY <1>1, <1>3
    <2>2. c1.ops # <<>> BY <1>1, <1>2, <1>3, <2>1
    <2>3. /\ c2 \in Machines /\ Partitioned(c2, {}) /\ SameCells(c1, c2)
          /\ OperandValues(c2) = Below(OperandValues(c1), 1)
        BY <1>2, <2>1, <2>2, PopAndFreeFacts DEF Sound
    <2>4. Below(Below(OperandValues(c), 1), 1) = Below(OperandValues(c), 2)
        <3>1. OperandValues(c) \in Seq(Ints) /\ Len(OperandValues(c)) = Len(c.ops)
            BY OperandValuesFacts DEF Sound
        <3>2. Len(OperandValues(c)) >= 2 BY <1>3, <3>1
        <3> QED BY <3>1, <3>2 DEF Below
    <2>5. SameCells(c, c2) BY <1>2, <2>1, <2>3 DEF SameCells
    <2>6. PopTested(op, c) = c2 BY <1>3 DEF PopTested, c1
    <2> QED BY <1>2, <1>3, <2>1, <2>3, <2>4, <2>5, <2>6 DEF Sound
<1>4. CASE Pops(op) = 1
    <2>1. PopTested(op, c) = c1 BY <1>4 DEF PopTested
    <2> QED BY <1>1, <1>2, <1>4, <2>1
<1>5. CASE Pops(op) = 0
    <2>1. PopTested(op, c) = c BY <1>5 DEF PopTested
    <2>2. Below(OperandValues(c), 0) = OperandValues(c)
        BY OperandValuesFacts DEF Below, Sound
    <2> QED BY <1>5, <2>1, <2>2 DEF SameCells
<1> QED BY <1>3, <1>4, <1>5, PopCounts

LEMMA ResetFacts ==
    ASSUME NEW c \in Machines
    PROVE  /\ Sound(ResetCompilerState(c)) /\ SameCells(c, ResetCompilerState(c))
           /\ OperandValues(ResetCompilerState(c)) = <<>>
<1> DEFINE d == ResetCompilerState(c)
<1>1. d = [ops |-> <<>>, free |-> Registers, regs |-> c.regs, mem |-> c.mem]
    BY DEF ResetCompilerState
<1>2. Registers \in Seq(Pool)
    <2>1. Registers \in Seq(STRING) BY RegisterAssumption
    <2>2. \A i \in 1 .. Len(Registers) : Registers[i] \in Pool BY <2>1 DEF Pool
    <2> QED BY <2>1, <2>2
<1> HIDE DEF d
<1>3. d \in Machines BY <1>1, <1>2 DEF Machines
<1>4. d.ops = <<>> /\ d.free = Registers BY <1>1
<1>5. \A r : ~InUse(d, r) BY <1>4 DEF InUse
<1>6. \A r \in Pool : Available(d, r) BY <1>4 DEF Available, Pool
<1>7. \A i, j \in DOMAIN d.free : d.free[i] = d.free[j] => i = j
    BY <1>4, RegisterAssumption
<1>8. Partitioned(d, {}) BY <1>4, <1>5, <1>6, <1>7 DEF Partitioned
<1>9. OperandValues(d) = <<>> BY <1>4 DEF OperandValues
<1> QED BY <1>1, <1>3, <1>8, <1>9 DEF Sound, SameCells, d

-----------------------------------------------------------------------------
(* The interpreter's values.                                               *)
LEMMA ResultType ==
    ASSUME NEW op \in Arithmetic \cup Divisions, NEW a \in Ints, NEW b \in Ints,
           op \in Divisions => b # 0
    PROVE  ResultOf(op, a, b) \in Ints
<1>1. a \in Int /\ b \in Int BY WordAssumption DEF Ints
<1>2. a + b \in Int /\ a - b \in Int /\ a * b \in Int BY <1>1
<1>3. AsInt(a + b) \in Ints /\ AsInt(a - b) \in Ints /\ AsInt(a * b) \in Ints
    BY ONLY <1>2, AsIntType
<1>4. CASE op \in Arithmetic BY <1>3, <1>4 DEF ResultOf, Arithmetic
<1>5. CASE op \in Divisions
    <2>1. Quotient(a, b) \in Int /\ Remainder(a, b) \in Int BY <1>1, <1>5, QuotientFacts
    <2>2. AsInt(Quotient(a, b)) \in Ints /\ AsInt(Remainder(a, b)) \in Ints
        BY ONLY <2>1, AsIntType
    <2> QED BY <1>5, <2>2 DEF ResultOf, Divisions
<1> QED BY <1>4, <1>5

LEMMA EvalTypes ==
    ASSUME NEW e \in Entries, stack \in Seq(Ints), locals \in [Vars -> Ints],
           EvalInstruction(e)
    PROVE  stack' \in Seq(Ints) /\ locals' \in [Vars -> Ints]
<1> USE EntryTypes
<1>1. Len(stack) \in Nat /\ Len(stack) >= Pops(e.op) BY DEF EvalInstruction
<1>2. \A n \in 0 .. 2 : n <= Len(stack) => Below(stack, n) \in Seq(Ints)
    BY <1>1 DEF Below
<1>3. CASE Operate(e)
    <2>1. e.op \in Arithmetic \cup Divisions /\ Pops(e.op) = 2 BY <1>3, PopCounts DEF Operate
    <2>2. Top(stack) \in Ints /\ Second(stack) \in Ints BY <1>1, <2>1 DEF Top, Second
    <2>3. e.op \in Divisions => Top(stack) # 0 BY <1>3 DEF Operate, DivisionTraps
    <2>4. ResultOf(e.op, Second(stack), Top(stack)) \in Ints BY <2>1, <2>2, <2>3, ResultType
    <2>5. Below(stack, 2) \in Seq(Ints) BY <1>1, <1>2, <2>1
    <2> QED BY <1>3, <2>4, <2>5 DEF Operate
<1>4. CASE Push(e)
    <2>1. e.val \in Ints BY EntryTypes
    <2> QED BY <1>4, <2>1 DEF Push
<1>5. CASE Load(e)
    <2>1. locals[e.var] \in Ints BY EntryTypes
    <2> QED BY <1>5, <2>1 DEF Load
<1>6. CASE Store(e)
    <2>1. Len(stack) >= 1 BY <1>1, <1>6, PopCounts DEF Store
    <2>2. Top(stack) \in Ints /\ Below(stack, 1) \in Seq(Ints) BY <1>1, <1>2, <2>1 DEF Top
    <2> QED BY <1>6, <2>2 DEF Store
<1>7. CASE Increment(e)
    <2>1. locals[e.var] \in Int BY WordAssumption DEF Ints
    <2>2. AsSignedByte(e.val) \in Int BY <1>7, WordAssumption DEF Increment, AsSignedByte, Bytes
    <2>3. locals[e.var] + AsSignedByte(e.val) \in Int BY <2>1, <2>2
    <2>4. AsInt(locals[e.var] + AsSignedByte(e.val)) \in Ints BY ONLY <2>3, AsIntType
    <2> QED BY <1>7, <2>4 DEF Increment
<1>8. CASE Branch(e)
    <2>1. Pops(e.op) \in 0 .. 2 BY PopCounts
    <2>2. Below(stack, Pops(e.op)) \in Seq(Ints) BY <1>1, <1>2, <2>1
    <2> QED BY <1>8, <2>2 DEF Branch
<1> QED BY <1>3, <1>4, <1>5, <1>6, <1>7, <1>8 DEF EvalInstruction

-----------------------------------------------------------------------------
(* The inductive invariant.  Traces start with no operands, and no key     *)
(* goes away.                                                              *)
ValuesInv ==
    /\ ValuesTypeOK
    /\ RegistersPartitioned
    /\ mode \in NativeModes => stack = <<>>
    /\ InitialKeys \subseteq keys

LEMMA InvSound ==
    ASSUME ValuesInv
    PROVE  Sound(trace)
BY DEF ValuesInv, ValuesTypeOK, RegistersPartitioned, Sound

LEMMA SoundInv ==
    ASSUME Sound(trace)'
    PROVE  RegistersPartitioned' /\ (trace \in Machines)'
BY DEF RegistersPartitioned, Sound

LEMMA StepsBound ==
    ASSUME ValuesTypeOK, Step
    PROVE  steps' \in 0 .. MaxSteps
BY FrameAssumption DEF ValuesTypeOK, Step

LEMMA InitInv == Init => ValuesInv
<1> SUFFICES ASSUME Init PROVE ValuesInv OBVIOUS
<1> DEFINE zero == [ops |-> <<>>, free |-> <<>>,
                    regs |-> [r \in AllRegisters |-> Garbage], mem |-> [v \in Vars |-> 0]]
<1>1. 0 \in Longs /\ Garbage \in Longs BY WordAssumption, FrameAssumption DEF Longs
<1>2. zero \in Machines BY <1>1 DEF Machines
<1>3. trace = ResetCompilerState(zero)
    BY DEF Init, ResetCompilerState, AllRegisters
<1> HIDE DEF zero
<1>4. Sound(trace) BY <1>2, <1>3, ResetFacts
<1>5. locals \in [Vars -> Ints] BY FrameAssumption DEF Init
<1>6. InitialKeys \subseteq Vars /\ MaxSteps \in Nat BY FrameAssumption
<1>7. ValuesTypeOK BY <1>4, <1>5, <1>6 DEF ValuesTypeOK, Init, Modes, Sound
<1> QED BY <1>4, <1>7 DEF ValuesInv, Init, Sound, RegistersPartitioned, NativeModes

LEMMA NextInv == ValuesInv /\ [Next]_vars => ValuesInv'
<1> SUFFICES ASSUME ValuesInv, [Next]_vars PROVE ValuesInv' OBVIOUS
<1> USE DEF Modes, NativeModes
<1>1. /\ ValuesTypeOK /\ Sound(trace) /\ InitialKeys \subseteq keys
      /\ mode \in NativeModes => stack = <<>>
    BY InvSound DEF ValuesInv
<1>2. /\ stack \in Seq(Ints) /\ locals \in [Vars -> Ints] /\ trace \in Machines
      /\ keys \subseteq Vars /\ assigned \subseteq Vars
    BY <1>1 DEF ValuesTypeOK
<1>3. ASSUME NEW e \in Entries
      PROVE  Touching(e) \subseteq Vars /\ Assigning(e) \subseteq Vars
    BY EntryTypes DEF Touching, Assigning
<1>4. ASSUME Step, Sound(trace)', mode' \in Modes,
             stack' \in Seq(Ints), locals' \in [Vars -> Ints],
             keys' \subseteq Vars, keys \subseteq keys', assigned' \subseteq Vars,
             mode' \in NativeModes => stack' = <<>>
      PROVE  ValuesInv'
    <2>1. steps' \in 0 .. MaxSteps BY <1>1, <1>4, StepsBound
    <2>2. RegistersPartitioned' /\ (trace \in Machines)' BY <1>4, SoundInv
    <2> QED BY <1>1, <1>4, <2>1, <2>2 DEF ValuesInv, ValuesTypeOK
<1>5. CASE EnterTrace
    <2> DEFINE cells == [v \in Vars |-> IF v \in keys THEN locals[v] ELSE 0]
               c == [trace EXCEPT !.mem = cells]
    <2>1. c = [ops |-> trace.ops, free |-> trace.free, regs |-> trace.regs, mem |-> cells]
        BY <1>2, Updates
    <2>2. cells \in [Vars -> Longs]
        <3>1. 0 \in Longs BY WordAssumption DEF Longs
        <3>2. \A v \in Vars : locals[v] \in Longs BY <1>2, LongsAreWider
        <3> QED BY <3>1, <3>2
    <2> HIDE DEF cells, c
    <2>3. c \in Machines BY <1>2, <2>1, <2>2 DEF Machines
    <2>4. trace' = ResetCompilerState(c) BY <1>5 DEF EnterTrace, c, cells
    <2>5. Sound(trace)' BY <2>3, <2>4, ResetFacts
    <2> QED BY <1>2, <1>4, <1>5, <2>5 DEF EnterTrace
<1>6. ASSUME NEW e \in Entries, Interpret(e) PROVE ValuesInv'
    <2>1. stack' \in Seq(Ints) /\ locals' \in [Vars -> Ints] BY <1>2, <1>6, EvalTypes DEF Interpret
    <2>2. Sound(trace)' BY <1>1, <1>6 DEF Interpret
    <2> QED BY <1>2, <1>3, <1>4, <1>6, <2>1, <2>2 DEF Interpret
<1>7. ASSUME NEW e \in Entries, InterpretTraps(e) PROVE ValuesInv'
    <2>1. Sound(trace)' BY <1>1, <1>7 DEF InterpretTraps
    <2> QED BY <1>2, <1>4, <1>7, <2>1 DEF InterpretTraps
<1>8. ASSUME NEW e \in Entries, InTrace(e)
      PROVE  Step /\ Len(trace.ops) >= Pops(e.op) /\ stack = <<>> /\ mode = "native"
    BY <1>1, <1>8 DEF InTrace, Verified
<1>9. ASSUME NEW e \in Entries, RunEntry(e) PROVE ValuesInv'
    <2>1. Sound(Compile(e, trace)) BY <1>1, <1>8, <1>9, CompileSound DEF RunEntry
    <2>2. Sound(trace)' BY <1>9, <2>1 DEF RunEntry
    <2> QED BY <1>2, <1>3, <1>4, <1>8, <1>9, <2>2 DEF RunEntry
<1>10. ASSUME NEW e \in Entries, FallThrough(e) PROVE ValuesInv'
    <2>1. Sound(PopTested(e.op, trace)) BY <1>1, <1>8, <1>10, PopTestedFacts DEF FallThrough
    <2>2. Sound(trace)' BY <1>10, <2>1 DEF FallThrough
    <2> QED BY <1>2, <1>4, <1>8, <1>10, <2>2 DEF FallThrough
<1>11. ASSUME NEW e \in Entries, GoOnInTrace(e) PROVE ValuesInv'
    <2>1. Sound(trace)' BY <1>2, <1>11, ResetFacts DEF GoOnInTrace
    <2> QED BY <1>2, <1>4, <1>8, <1>11, <2>1 DEF GoOnInTrace, JumpOut
<1>12. ASSUME NEW e \in Entries, LeaveTrace(e) PROVE ValuesInv'
    <2>1. Sound(PopTested(e.op, trace))
        BY <1>1, <1>8, <1>12, PopTestedFacts DEF LeaveTrace, JumpOut
    <2>2. Sound(trace)' BY <1>12, <2>1 DEF LeaveTrace
    <2>3. WrittenBack \in [Vars -> Ints]
        <3>1. \A v \in Vars : AsInt(trace.mem[v]) \in Ints
            BY <1>2, AsIntType, WordAssumption DEF Machines, Longs
        <3> QED BY <1>2, <3>1 DEF WrittenBack
    <2> QED BY <1>2, <1>4, <1>8, <1>12, <2>2, <2>3 DEF LeaveTrace, JumpOut
<1>13. ASSUME NEW e \in Entries, CompileFails(e) PROVE ValuesInv'
    <2>1. Sound(trace)' BY <1>1, <1>13 DEF CompileFails
    <2> QED BY <1>2, <1>4, <1>8, <1>13, <2>1 DEF CompileFails
<1>14. ASSUME NEW e \in Entries, NativeTraps(e) PROVE ValuesInv'
    <2>1. Sound(trace)' BY <1>1, <1>14 DEF NativeTraps
    <2> QED BY <1>2, <1>4, <1>8, <1>14, <2>1 DEF NativeTraps
<1>15. CASE UNCHANGED vars
    BY <1>15
       DEF ValuesInv, ValuesTypeOK, RegistersPartitioned, Partitioned, InUse, Available, vars
<1>16. CASE Stop BY <1>15, <1>16 DEF Stop
<1> QED
    BY <1>5, <1>6, <1>7, <1>9, <1>10, <1>11, <1>12, <1>13, <1>14, <1>15, <1>16 DEF Next

THEOREM ValuesInvariant == Spec => []ValuesInv
<1> QED BY InitInv, NextInv, PTL DEF Spec

(* Native code never leaves the 64 bits of a register, the operand stack   *)
(* of the compiler holds registers of the pool and immediates only.        *)
THEOREM ValuesTypeCorrect == Spec => []ValuesTypeOK
<1>1. ValuesInv => ValuesTypeOK BY DEF ValuesInv
<1> QED BY <1>1, ValuesInvariant, PTL

(* No register is lost and none is handed out twice, for every pool and    *)
(* every sequence of entries.                                              *)
THEOREM RegistersArePartitioned == Spec => []RegistersPartitioned
<1>1. ValuesInv => RegistersPartitioned BY DEF ValuesInv
<1> QED BY <1>1, ValuesInvariant, PTL

-----------------------------------------------------------------------------
(* Traces implement the byte code: of entries that are tame and a frame    *)
(* whose locals all have keys.                                             *)

(* What compile() emits for an entry computes what the entry means.        *)
LEMMA CompiledArithmetic ==
    ASSUME NEW c, Sound(c), NEW e \in Entries, e.op \in Arithmetic,
           Len(c.ops) >= 2, ~CompileThrows(e.op, c)
    PROVE  /\ OperandValues(Compile(e, c)) =
                Append(Below(OperandValues(c), 2),
                       ResultOf(e.op, Second(OperandValues(c)), Top(OperandValues(c))))
           /\ VariableValues(Compile(e, c)) = VariableValues(c)
<1> DEFINE a == Read(c, Second(c.ops))
           b == Read(c, Top(c.ops))
           x == X86Result(MnemonicFor[e.op], a, b)
           d == GenerateArithmetic(MnemonicFor[e.op], c)
<1>1. MnemonicFor[e.op] \in Mnemonics BY DEF MnemonicFor, Arithmetic, Mnemonics
<1>2. IsReg(Second(c.ops)) \/ c.free # <<>> BY DEF CompileThrows, OutOfRegisters
<1>3. Compile(e, c) = d BY DEF Compile, Arithmetic, Divisions
<1>4. /\ OperandValues(d) = Append(Below(OperandValues(c), 2), AsInt(x))
      /\ VariableValues(d) = VariableValues(c)
    BY <1>1, <1>2, GenerateArithmeticFacts
<1>5. /\ Second(c.ops) \in Sources /\ Top(c.ops) \in Sources
      /\ Top(OperandValues(c)) = AsInt(b) /\ Second(OperandValues(c)) = AsInt(a)
    BY PopTwoFacts, OperandTypes
<1>6. a \in Int /\ b \in Int
    BY <1>5, ReadType, WordAssumption DEF Longs, Sound
<1> HIDE DEF a, b, d
<1>7. AsInt(x) = ResultOf(e.op, AsInt(a), AsInt(b))
    <2>1. /\ AsInt(AsLong(a + b)) = AsInt(AsInt(a) + AsInt(b))
          /\ AsInt(AsLong(a - b)) = AsInt(AsInt(a) - AsInt(b))
          /\ AsInt(AsLong(a * b)) = AsInt(AsInt(a) * AsInt(b))
        BY ONLY <1>6, NativeArithmetic
    <2>2. CASE e.op = "IADD" BY <2>1, <2>2 DEF X86Result, ResultOf, MnemonicFor
    <2>3. CASE e.op = "ISUB" BY <2>1, <2>3 DEF X86Result, ResultOf, MnemonicFor
    <2>4. CASE e.op = "IMUL" BY <2>1, <2>4 DEF X86Result, ResultOf, MnemonicFor
    <2> QED BY <2>2, <2>3, <2>4 DEF Arithmetic
<1> QED BY <1>3, <1>4, <1>5, <1>7

LEMMA CompiledDivision ==
    ASSUME NEW c, Sound(c), NEW e \in Entries, e.op \in Divisions,
           Len(c.ops) >= 2, ~CompileThrows(e.op, c),
           ~IdivTraps(PrepareDivision(c), Denominator(c)),
           Read(c, Second(c.ops)) \in Ints, Read(c, Top(c.ops)) \in Ints,
           Read(c, Second(c.ops)) >= 0
    PROVE  /\ OperandValues(Compile(e, c)) =
                Append(Below(OperandValues(c), 2),
                       ResultOf(e.op, Second(OperandValues(c)), Top(OperandValues(c))))
           /\ VariableValues(Compile(e, c)) = VariableValues(c)
           /\ ~DivisionTraps(Second(OperandValues(c)), Top(OperandValues(c)))
<1> DEFINE a == Read(c, Second(c.ops))
           b == Read(c, Top(c.ops))
           d == GenerateRemDiv(e.op = "IREM", c)
<1>1. IsReg(Second(c.ops)) \/ IsReg(Top(c.ops)) \/ c.free # <<>>
    BY DEF CompileThrows, OutOfRegisters
<1>2. Compile(e, c) = d BY DEF Compile, Divisions, Arithmetic
<1>3. (e.op = "IREM") \in BOOLEAN OBVIOUS
<1>4. Dividend(PrepareDivision(c)) = a BY <1>1, DividendFacts
<1>5. /\ OperandValues(d) =
            Append(Below(OperandValues(c), 2),
                   AsInt(IF e.op = "IREM" THEN Remainder(a, b) ELSE Quotient(a, b)))
      /\ VariableValues(d) = VariableValues(c)
    BY <1>1, <1>3, <1>4, GenerateRemDivFacts
<1>6. Top(OperandValues(c)) = b /\ Second(OperandValues(c)) = a
    BY PopTwoFacts, IntFits
<1>7. b # 0
    <2>1. Read(PrepareDivision(c), Denominator(c)) = b BY <1>1, PrepareDivisionFacts
    <2> QED BY <2>1 DEF IdivTraps
<1> HIDE DEF d
<1>8. Quotient(a, b) \in Ints BY <1>7, NatDivision
<1>9. ~DivisionTraps(a, b) BY <1>7, <1>8 DEF DivisionTraps
<1>10. ResultOf(e.op, a, b) =
        AsInt(IF e.op = "IREM" THEN Remainder(a, b) ELSE Quotient(a, b))
    BY DEF ResultOf, Divisions
<1> QED BY <1>2, <1>5, <1>6, <1>9, <1>10

(* The instance's operators are this module's.                             *)
LEMMA SameOperators ==
    /\ \A op : ByteCode!Pops(op) = Pops(op)
    /\ \A s : ByteCode!Top(s) = Top(s) /\ ByteCode!Second(s) = Second(s)
    /\ \A s, n : ByteCode!Below(s, n) = Below(s, n)
    /\ \A x : ByteCode!AsInt(x) = AsInt(x)
    /\ \A op, a, b : ByteCode!ResultOf(op, a, b) = ResultOf(op, a, b)
    /\ \A a, b : ByteCode!DivisionTraps(a, b) <=> DivisionTraps(a, b)
    /\ \A b : ByteCode!AsSignedByte(b) = AsSignedByte(b)
    /\ ByteCode!Arithmetic = Arithmetic /\ ByteCode!Divisions = Divisions
    /\ ByteCode!Tests = Tests /\ ByteCode!Ints = Ints
<1>1. \A x, h : ByteCode!Wrap(x, h) = Wrap(x, h) BY DEF ByteCode!Wrap, Wrap
<1>2. \A x : ByteCode!AsInt(x) = AsInt(x) BY <1>1 DEF ByteCode!AsInt, AsInt
<1>3. \A x : ByteCode!Magnitude(x) = Magnitude(x) BY DEF ByteCode!Magnitude, Magnitude
<1>4. \A a, b : ByteCode!Quotient(a, b) = Quotient(a, b)
    BY <1>3 DEF ByteCode!Quotient, Quotient
<1>5. \A a, b : ByteCode!Remainder(a, b) = Remainder(a, b)
    BY <1>4 DEF ByteCode!Remainder, Remainder
<1>6. /\ ByteCode!Arithmetic = Arithmetic /\ ByteCode!Divisions = Divisions
      /\ ByteCode!TestsOne = TestsOne
    BY DEF ByteCode!Arithmetic, Arithmetic, ByteCode!Divisions, Divisions,
           ByteCode!TestsOne, TestsOne
<1>7. ByteCode!Tests = Tests
    BY DEF ByteCode!Tests, Tests, ByteCode!RelationOf, RelationOf
<1>8. ByteCode!Ints = Ints BY DEF ByteCode!Ints, Ints
<1>9. \A op : ByteCode!Pops(op) = Pops(op) BY <1>6, <1>7 DEF ByteCode!Pops, Pops
<1>10. \A s : ByteCode!Top(s) = Top(s) /\ ByteCode!Second(s) = Second(s)
    BY DEF ByteCode!Top, Top, ByteCode!Second, Second
<1>11. \A s, n : ByteCode!Below(s, n) = Below(s, n) BY DEF ByteCode!Below, Below
<1>12. \A op, a, b : ByteCode!ResultOf(op, a, b) = ResultOf(op, a, b)
    BY <1>2, <1>4, <1>5 DEF ByteCode!ResultOf, ResultOf
<1>13. \A a, b : ByteCode!DivisionTraps(a, b) <=> DivisionTraps(a, b)
    BY <1>4, <1>8 DEF ByteCode!DivisionTraps, DivisionTraps
<1>14. \A b : ByteCode!AsSignedByte(b) = AsSignedByte(b)
    BY DEF ByteCode!AsSignedByte, AsSignedByte
<1> QED BY <1>2, <1>6, <1>7, <1>8, <1>9, <1>10, <1>11, <1>12, <1>13, <1>14

LEMMA NativeView ==
    ASSUME mode \in NativeModes
    PROVE  VisibleStack = OperandValues(trace) /\ VisibleLocals = VariableValues(trace)
BY DEF VisibleStack, VisibleLocals

LEMMA NativeViewPrime ==
    ASSUME mode' \in NativeModes
    PROVE  /\ VisibleStack' = OperandValues(trace')
           /\ VisibleLocals' = VariableValues(trace')
BY DEF VisibleStack, VisibleLocals, OperandValues, VariableValues

LEMMA InterpretedView ==
    ASSUME mode \notin NativeModes
    PROVE  VisibleStack = stack /\ VisibleLocals = locals
BY DEF VisibleStack, VisibleLocals

LEMMA InterpretedViewPrime ==
    ASSUME mode' \notin NativeModes
    PROVE  VisibleStack' = stack' /\ VisibleLocals' = locals'
BY DEF VisibleStack, VisibleLocals

LEMMA RunEntryRefines ==
    ASSUME ValuesInv, ~Wild, NEW e \in Entries, RunEntry(e)
    PROVE  ByteCode!EvalInstruction(e)
<1> DEFINE d == Compile(e, trace)
<1>1. Sound(trace) BY InvSound
<1>2. /\ mode = "native" /\ mode' = "native" /\ trace' = d
      /\ Len(trace.ops) >= Pops(e.op) /\ Tame(e)
      /\ e.op \notin Tests \cup {"GOTO"} /\ ~CompileThrows(e.op, trace)
      /\ e.op \in Divisions => ~IdivTraps(PrepareDivision(trace), Denominator(trace))
    BY DEF RunEntry, InTrace, Verified
<1>3. /\ VisibleStack = OperandValues(trace) /\ VisibleLocals = VariableValues(trace)
      /\ VisibleStack' = OperandValues(d) /\ VisibleLocals' = VariableValues(d)
    BY <1>2, NativeView, NativeViewPrime DEF NativeModes
<1>4. Len(VisibleStack) >= ByteCode!Pops(e.op)
    BY <1>1, <1>2, <1>3, OperandValuesFacts, SameOperators DEF Sound
<1>5. e.var \in Vars /\ e.val \in Ints BY EntryTypes
<1>6. CASE e.op = "ILOAD"
    <2>1. trace.free # <<>> BY <1>2, <1>6 DEF CompileThrows, OutOfRegisters
    <2>2. d = VariableLoad(trace, e.var) BY <1>6 DEF Compile, Arithmetic, Divisions
    <2>3. ByteCode!Load(e)
        BY <1>1, <1>3, <1>5, <1>6, <2>1, <2>2, VariableLoadFacts DEF ByteCode!Load
    <2> QED BY <1>4, <2>3 DEF ByteCode!EvalInstruction
<1>7. CASE e.op = "ISTORE"
    <2>1. trace.ops # <<>> BY <1>1, <1>2, <1>7, PopCounts, SoundLength
    <2>2. d = VariableStore(trace, e.var) BY <1>7 DEF Compile, Arithmetic, Divisions
    <2>3. ByteCode!Store(e)
        BY <1>1, <1>3, <1>5, <1>7, <2>1, <2>2, VariableStoreFacts, SameOperators
           DEF ByteCode!Store
    <2> QED BY <1>4, <2>3 DEF ByteCode!EvalInstruction
<1>8. CASE e.op = "PUSH"
    <2>1. d = PushOp(trace, Imm(e.val)) BY <1>8 DEF Compile, Arithmetic, Divisions
    <2>2. Imm(e.val) \in Operands BY <1>5, OperandTypes
    <2>3. AsInt(Read(trace, Imm(e.val))) = e.val BY <1>5, IntFits DEF Read, Imm
    <2>4. OperandValues(d) = Append(OperandValues(trace), e.val)
        BY <1>1, <2>1, <2>2, <2>3, PushValues DEF Sound
    <2>5. VariableValues(d) = VariableValues(trace)
        BY <1>1, <2>1, <2>2, PushOpFacts DEF Sound, SameCells, VariableValues
    <2>6. ByteCode!Push(e) BY <1>3, <1>8, <2>4, <2>5 DEF ByteCode!Push
    <2> QED BY <1>4, <2>6 DEF ByteCode!EvalInstruction
<1>9. CASE e.op = "IINC"
    <2>1. d = Emit("ADD", trace, Mem(e.var), Imm(e.val))
        BY <1>9 DEF Compile, Arithmetic, Divisions
    <2>2. e.val < ByteHalf
        BY <1>2, <1>9 DEF Tame, Arithmetic, Divisions, Tests, TestsOne, RelationOf
    <2>3. AsSignedByte(e.val) = e.val BY <2>2 DEF AsSignedByte
    <2>4. /\ OperandValues(d) = OperandValues(trace)
          /\ VariableValues(d) = [VariableValues(trace) EXCEPT ![e.var] = AsInt(@ + e.val)]
        BY <1>1, <1>5, <2>1, IncrementFacts
    <2>5. ByteCode!Increment(e)
        BY <1>3, <1>9, <2>3, <2>4, SameOperators DEF ByteCode!Increment
    <2> QED BY <1>4, <2>5 DEF ByteCode!EvalInstruction
<1>10. CASE e.op \in Arithmetic
    <2>1. Len(trace.ops) >= 2 BY <1>2, <1>10, PopCounts
    <2>2. /\ OperandValues(d) =
                Append(Below(OperandValues(trace), 2),
                       ResultOf(e.op, Second(OperandValues(trace)), Top(OperandValues(trace))))
          /\ VariableValues(d) = VariableValues(trace)
        BY <1>1, <1>2, <1>10, <2>1, CompiledArithmetic
    <2>3. e.op \notin Divisions BY <1>10 DEF Arithmetic, Divisions
    <2> HIDE DEF d
    <2>4. ByteCode!Operate(e)
        BY <1>3, <1>10, <2>2, <2>3, SameOperators DEF ByteCode!Operate
    <2> QED BY <1>4, <2>4 DEF ByteCode!EvalInstruction
<1>11. CASE e.op \in Divisions
    <2>1. Len(trace.ops) >= 2 BY <1>2, <1>11, PopCounts
    <2>2. e.op \notin TestsOne /\ e.op # "IINC" /\ e.op # "IFNE" /\ e.op \notin Tests
        BY <1>11 DEF Divisions, TestsOne, Tests, RelationOf
    <2>3. FitInts(e) /\ Read(trace, Second(trace.ops)) >= 0
        BY <1>2, <1>11, <2>2 DEF Tame
    <2>4. Read(trace, Second(trace.ops)) \in Ints /\ Read(trace, Top(trace.ops)) \in Ints
        BY <2>2, <2>3 DEF FitInts, FirstOperand, SecondOperand
    <2>5. /\ OperandValues(d) =
                Append(Below(OperandValues(trace), 2),
                       ResultOf(e.op, Second(OperandValues(trace)), Top(OperandValues(trace))))
          /\ VariableValues(d) = VariableValues(trace)
          /\ ~DivisionTraps(Second(OperandValues(trace)), Top(OperandValues(trace)))
        BY <1>1, <1>2, <1>11, <2>1, <2>3, <2>4, CompiledDivision
    <2> HIDE DEF d
    <2>6. ByteCode!Operate(e)
        BY <1>3, <1>11, <2>5, SameOperators DEF ByteCode!Operate
    <2> QED BY <1>4, <2>6 DEF ByteCode!EvalInstruction
<1> QED
    BY <1>2, <1>6, <1>7, <1>8, <1>9, <1>10, <1>11, EntryTypes DEF Instructions

(* A jump is a branch of the byte code: falling through, going on in the   *)
(* trace and leaving it consume the same operands.                         *)
LEMMA JumpRefines ==
    ASSUME ValuesInv, InitialKeys = Vars, NEW e \in Entries,
           FallThrough(e) \/ GoOnInTrace(e) \/ LeaveTrace(e)
    PROVE  ByteCode!EvalInstruction(e)
<1> DEFINE d == PopTested(e.op, trace)
<1>1. Sound(trace) /\ stack \in Seq(Ints) /\ Vars \subseteq keys
    BY InvSound DEF ValuesInv, ValuesTypeOK
<1>2. InTrace(e) /\ e.op \in Tests \cup {"GOTO"} /\ ~CompileThrows(e.op, trace)
    BY DEF FallThrough, GoOnInTrace, LeaveTrace, JumpOut
<1>3. mode = "native" /\ Len(trace.ops) >= Pops(e.op) /\ stack = <<>>
    BY <1>2 DEF InTrace, Verified, ValuesInv, NativeModes
<1>4. VisibleStack = OperandValues(trace) /\ VisibleLocals = VariableValues(trace)
    BY <1>3, NativeView DEF NativeModes
<1>5. Len(VisibleStack) >= ByteCode!Pops(e.op)
    BY <1>1, <1>3, <1>4, OperandValuesFacts, SameOperators DEF Sound
<1>6. /\ Sound(d) /\ SameCells(trace, d)
      /\ OperandValues(d) = Below(OperandValues(trace), Pops(e.op))
    BY <1>1, <1>3, PopTestedFacts
<1>7. VariableValues(d) = VariableValues(trace) BY <1>6 DEF SameCells, VariableValues
<1>8. d.ops = <<>> BY <1>2 DEF CompileThrows
<1>9. OperandValues(d) = <<>> BY <1>8 DEF OperandValues
<1>10. /\ VisibleStack' = Below(VisibleStack, Pops(e.op))
       /\ VisibleLocals' = VisibleLocals
    <2>1. CASE FallThrough(e)
        <3>1. mode' = "native" /\ trace' = d BY <1>3, <2>1 DEF FallThrough
        <3> QED BY <1>4, <1>6, <1>7, <3>1, NativeViewPrime DEF NativeModes
    <2>2. CASE GoOnInTrace(e)
        <3>1. mode' = "native" /\ trace' = ResetCompilerState(trace)
            BY <1>3, <2>2 DEF GoOnInTrace
        <3>2. /\ SameCells(trace, ResetCompilerState(trace))
              /\ OperandValues(ResetCompilerState(trace)) = <<>>
            BY <1>1, ResetFacts DEF Sound
        <3>3. VariableValues(ResetCompilerState(trace)) = VariableValues(trace)
            BY <3>2 DEF SameCells, VariableValues
        <3> QED BY <1>4, <1>6, <1>9, <3>1, <3>2, <3>3, NativeViewPrime DEF NativeModes
    <2>3. CASE LeaveTrace(e)
        <3>1. mode' = "interpreting" /\ locals' = WrittenBack /\ stack' = <<>>
            BY <1>3, <2>3 DEF LeaveTrace
        <3>2. WrittenBack = VariableValues(trace) BY <1>1 DEF WrittenBack, VariableValues
        <3> QED BY <1>4, <1>6, <1>9, <3>1, <3>2, InterpretedViewPrime DEF NativeModes
    <2> QED BY <2>1, <2>2, <2>3
<1>11. ByteCode!Branch(e) BY <1>2, <1>10, SameOperators DEF ByteCode!Branch
<1> QED BY <1>5, <1>11 DEF ByteCode!EvalInstruction

LEMMA InterpretRefines ==
    ASSUME NEW e \in Entries, Interpret(e)
    PROVE  ByteCode!EvalInstruction(e)
<1>1. mode = "interpreting" /\ mode' = "interpreting" /\ EvalInstruction(e)
    BY DEF Interpret
<1>2. VisibleStack = stack /\ VisibleLocals = locals
      /\ VisibleStack' = stack' /\ VisibleLocals' = locals'
    BY <1>1, InterpretedView, InterpretedViewPrime DEF NativeModes
<1> QED
    BY <1>1, <1>2, SameOperators
       DEF EvalInstruction, Operate, Push, Load, Store, Increment, Branch,
           ByteCode!EvalInstruction, ByteCode!Operate, ByteCode!Push, ByteCode!Load,
           ByteCode!Store, ByteCode!Increment, ByteCode!Branch

(* Entering a trace and dying in it are no steps of the byte code.         *)
LEMMA OtherStepsStutter ==
    ASSUME ValuesInv, InitialKeys = Vars,
           \/ EnterTrace \/ UNCHANGED vars
           \/ \E e \in Entries : InterpretTraps(e) \/ CompileFails(e) \/ NativeTraps(e)
    PROVE  VisibleStack' = VisibleStack /\ VisibleLocals' = VisibleLocals
<1> USE DEF NativeModes
<1>1. Sound(trace) /\ locals \in [Vars -> Ints] /\ Vars \subseteq keys
    BY InvSound DEF ValuesInv, ValuesTypeOK
<1>2. CASE EnterTrace
    <2> DEFINE cells == [v \in Vars |-> IF v \in keys THEN locals[v] ELSE 0]
               c == [trace EXCEPT !.mem = cells]
    <2>1. c = [ops |-> trace.ops, free |-> trace.free, regs |-> trace.regs, mem |-> cells]
        BY <1>1, Updates DEF Sound
    <2>2. cells = locals BY <1>1
    <2>3. locals \in [Vars -> Longs] BY <1>1, LongsAreWider
    <2>4. mode = "interpreting" /\ mode' = "native" /\ stack = <<>>
          /\ trace' = ResetCompilerState(c)
        BY <1>2 DEF EnterTrace
    <2> HIDE DEF c, cells
    <2>5. c \in Machines BY <1>1, <2>1, <2>2, <2>3 DEF Machines, Sound
    <2>6. trace'.mem = locals /\ OperandValues(trace') = <<>>
        BY <2>1, <2>2, <2>4, <2>5, ResetFacts DEF SameCells
    <2>7. VariableValues(trace') = locals
        <3>1. \A v \in Vars : AsInt(locals[v]) = locals[v] BY <1>1, IntFits
        <3> QED BY <1>1, <2>6, <3>1 DEF VariableValues
    <2> QED BY <2>4, <2>6, <2>7, InterpretedView, NativeViewPrime
<1>3. ASSUME NEW e \in Entries, InterpretTraps(e)
      PROVE  VisibleStack' = VisibleStack /\ VisibleLocals' = VisibleLocals
    BY <1>3, InterpretedView, InterpretedViewPrime DEF InterpretTraps
<1>4. ASSUME NEW e \in Entries, CompileFails(e) \/ NativeTraps(e)
      PROVE  VisibleStack' = VisibleStack /\ VisibleLocals' = VisibleLocals
    <2>1. mode = "native" /\ mode' \in NativeModes /\ trace' = trace
        BY <1>4 DEF CompileFails, NativeTraps, InTrace
    <2> QED BY <2>1, NativeView, NativeViewPrime
<1>5. CASE UNCHANGED vars
    BY <1>5 DEF vars, VisibleStack, VisibleLocals, OperandValues, VariableValues
<1> QED BY <1>2, <1>3, <1>4, <1>5

(* However interpreter and traces take turns, the operand stack and the    *)
(* local variables are the byte code's, for words of every width: what     *)
(* native code computes in long words is right in the end, given that the  *)
(* entries are tame and every local has a key.                             *)
THEOREM TracesImplementByteCode ==
    ASSUME ~Wild, InitialKeys = Vars
    PROVE  Spec => RefinesByteCode
<1>1. Init => ByteCode!ValuesInit
    <2> SUFFICES ASSUME Init PROVE ByteCode!ValuesInit OBVIOUS
    <2>1. VisibleStack = stack /\ VisibleLocals = locals
        BY InterpretedView DEF Init, NativeModes
    <2> QED BY <2>1, FrameAssumption, SameOperators DEF Init, ByteCode!ValuesInit
<1>2. ValuesInv /\ [Next]_vars => [ByteCode!ValuesNext]_<<VisibleStack, VisibleLocals>>
    <2> SUFFICES ASSUME ValuesInv, [Next]_vars
                 PROVE  ByteCode!ValuesNext \/ UNCHANGED <<VisibleStack, VisibleLocals>>
        OBVIOUS
    <2>1. ASSUME NEW e \in Entries,
                 Interpret(e) \/ RunEntry(e) \/ FallThrough(e) \/ GoOnInTrace(e) \/ LeaveTrace(e)
          PROVE  ByteCode!ValuesNext
        BY <2>1, InterpretRefines, RunEntryRefines, JumpRefines DEF ByteCode!ValuesNext
    <2>2. ASSUME \/ EnterTrace \/ UNCHANGED vars
                 \/ \E e \in Entries : InterpretTraps(e) \/ CompileFails(e) \/ NativeTraps(e)
          PROVE  UNCHANGED <<VisibleStack, VisibleLocals>>
        BY <2>2, OtherStepsStutter
    <2> QED BY <2>1, <2>2 DEF Next, Stop
<1> QED BY <1>1, <1>2, ValuesInvariant, PTL DEF Spec, RefinesByteCode, ByteCode!ValuesSpec

-----------------------------------------------------------------------------
(* The jump of a tame branch finds in long words what the branch finds in  *)
(* ints.                                                                   *)
LEMMA JumpsAlike ==
    ASSUME ValuesInv, ~Wild, mode = "native", NEW e \in Entries, InTrace(e), e.op \in Tests
    PROVE  JumpTaken(e.op, trace) <=> Holds(e.op, VisibleStack)
<1>1. Sound(trace) BY InvSound
<1>2. VisibleStack = OperandValues(trace) BY NativeView DEF NativeModes
<1>3. Len(trace.ops) >= Pops(e.op) /\ Tame(e) BY DEF InTrace, Verified
<1>4. e.op \in Tests \ {"IFNE"} /\ e.op # "IINC"
    <2>1. e.op # "IINC" BY DEF Tests, RelationOf
    <2>2. CASE e.op = "IFNE" BY <1>3, <2>2 DEF Tame, Divisions
    <2> QED BY <2>1, <2>2
<1>5. FitInts(e) BY <1>3, <1>4 DEF Tame
<1>6. JumpsOn[e.op] = RelationOf[e.op] BY <1>4 DEF JumpsOn, RelationOf, Tests
<1>7. JumpTaken(e.op, trace) <=>
        Related(RelationOf[e.op], Read(trace, FirstOperand(e.op, trace)),
                                  Read(trace, SecondOperand(e.op, trace)))
    BY <1>4, <1>6 DEF JumpTaken, Tests, RelationOf
<1>8. CASE e.op \in TestsOne
    <2>1. Pops(e.op) = 1
        BY <1>8 DEF Pops, TestsOne, Tests, RelationOf, Arithmetic, Divisions
    <2>2. trace.ops # <<>> BY <1>1, <1>3, <2>1, SoundLength
    <2>3. Top(OperandValues(trace)) = AsInt(Read(trace, Top(trace.ops)))
        BY <1>1, <2>2, TopFacts DEF Sound
    <2>4. Read(trace, Top(trace.ops)) \in Ints BY <1>5, <1>8 DEF FitInts, FirstOperand
    <2>5. Top(OperandValues(trace)) = Read(trace, Top(trace.ops)) BY <2>3, <2>4, IntFits
    <2>6. Read(trace, Imm(0)) = 0 BY DEF Read, Imm
    <2> QED
        BY <1>2, <1>7, <1>8, <2>5, <2>6 DEF Holds, FirstOperand, SecondOperand
<1>9. CASE e.op \notin TestsOne
    <2>1. e.op \in {"IF_ICMPEQ", "IF_ICMPGE", "IF_ICMPGT", "IF_ICMPLE"}
        BY <1>9 DEF Tests, RelationOf, TestsOne
    <2>2. Pops(e.op) = 2
        BY <2>1 DEF Pops, Tests, RelationOf, TestsOne, Arithmetic, Divisions
    <2>3. Len(trace.ops) >= 2 BY <1>3, <2>2
    <2>4. /\ Top(OperandValues(trace)) = AsInt(Read(trace, Top(trace.ops)))
          /\ Second(OperandValues(trace)) = AsInt(Read(trace, Second(trace.ops)))
        BY <1>1, <2>3, PopTwoFacts
    <2>5. Read(trace, Second(trace.ops)) \in Ints /\ Read(trace, Top(trace.ops)) \in Ints
        BY <1>5, <1>9 DEF FitInts, FirstOperand, SecondOperand
    <2>6. /\ Top(OperandValues(trace)) = Read(trace, Top(trace.ops))
          /\ Second(OperandValues(trace)) = Read(trace, Second(trace.ops))
        BY <2>4, <2>5, IntFits
    <2> QED BY <1>2, <1>7, <1>9, <2>6 DEF Holds, FirstOperand, SecondOperand
<1> QED BY <1>8, <1>9

(* A tame division traps in native code only when it traps in byte code:   *)
(* its quotient fits, so that the denominator is 0.                        *)
LEMMA TrapsAlike ==
    ASSUME ValuesInv, ~Wild, mode = "native", NEW e \in Entries, NativeTraps(e)
    PROVE  DivisionTraps(Second(VisibleStack), Top(VisibleStack))
<1> DEFINE a == Read(trace, Second(trace.ops))
           b == Read(trace, Top(trace.ops))
<1>1. Sound(trace) BY InvSound
<1>2. VisibleStack = OperandValues(trace) BY NativeView DEF NativeModes
<1>3. /\ InTrace(e) /\ ~CompileThrows(e.op, trace) /\ e.op \in Divisions
      /\ IdivTraps(PrepareDivision(trace), Denominator(trace))
    BY DEF NativeTraps
<1>4. Len(trace.ops) >= 2 /\ Tame(e)
    BY <1>3, PopCounts DEF InTrace, Verified
<1>5. IsReg(Second(trace.ops)) \/ IsReg(Top(trace.ops)) \/ trace.free # <<>>
    BY <1>3 DEF CompileThrows, OutOfRegisters
<1>6. e.op \notin TestsOne /\ e.op # "IINC" /\ e.op # "IFNE" /\ e.op \notin Tests
    BY <1>3 DEF Divisions, TestsOne, Tests, RelationOf
<1>7. a \in Ints /\ b \in Ints /\ a >= 0
    BY <1>3, <1>4, <1>6 DEF Tame, FitInts, FirstOperand, SecondOperand
<1>8. Second(OperandValues(trace)) = a /\ Top(OperandValues(trace)) = b
    BY <1>1, <1>4, <1>7, PopTwoFacts, IntFits
<1>9. Read(PrepareDivision(trace), Denominator(trace)) = b
    BY <1>1, <1>4, <1>5, PrepareDivisionFacts
<1>10. Dividend(PrepareDivision(trace)) = a BY <1>1, <1>4, <1>5, <1>7, DividendFacts
<1> HIDE DEF a, b
<1>11. b = 0
    <2>1. b # 0 => Quotient(a, b) \notin Longs BY <1>3, <1>9, <1>10 DEF IdivTraps
    <2>2. b # 0 => Quotient(a, b) \in Longs BY <1>7, NatDivision, LongsAreWider
    <2> QED BY <2>1, <2>2
<1> QED BY <1>2, <1>8, <1>11 DEF DivisionTraps

(* Tame branches go where the byte code goes and tame divisions die when   *)
(* it dies, for words of every width.                                      *)
THEOREM TracesDecideAsByteCode ==
    ASSUME ~Wild
    PROVE  Spec => DecidesAsByteCode
<1> DEFINE Alike ==
        mode = "native" =>
            \A e \in Entries :
             /\ FallThrough(e) => ~Holds(e.op, VisibleStack)
             /\ JumpOut(e) /\ e.op \in Tests => Holds(e.op, VisibleStack)
             /\ NativeTraps(e) => DivisionTraps(Second(VisibleStack), Top(VisibleStack))
<1>1. ValuesInv => Alike
    <2> SUFFICES ASSUME ValuesInv, mode = "native", NEW e \in Entries
                 PROVE  /\ FallThrough(e) => ~Holds(e.op, VisibleStack)
                        /\ JumpOut(e) /\ e.op \in Tests => Holds(e.op, VisibleStack)
                        /\ NativeTraps(e) =>
                                DivisionTraps(Second(VisibleStack), Top(VisibleStack))
        OBVIOUS
    <2>1. FallThrough(e) => ~Holds(e.op, VisibleStack) BY JumpsAlike DEF FallThrough
    <2>2. JumpOut(e) /\ e.op \in Tests => Holds(e.op, VisibleStack)
        BY JumpsAlike DEF JumpOut
    <2>3. NativeTraps(e) => DivisionTraps(Second(VisibleStack), Top(VisibleStack))
        BY TrapsAlike
    <2> QED BY <2>1, <2>2, <2>3
<1>2. Spec => [][Alike]_vars BY <1>1, ValuesInvariant, PTL
<1> QED BY <1>2 DEF DecidesAsByteCode

==============================================================================
