--------------------------- MODULE ParsingProofs ----------------------------
(***************************************************************************)
(* Proofs about the parser on readable class files: what it reads of every *)
(* structure is what was written, each attribute is read to the end of the *)
(* length it states, and in the end the class file is what should be kept  *)
(* of the one that was written.  The lemmas go from bytes to structures,   *)
(* from structures to the loops over them, and from loops to the stages of *)
(* a class file; the invariant ParsedSoFar puts the stages together.       *)
(***************************************************************************)
EXTENDS ClassLoadingProperties, SequenceTheorems, WellFoundedInduction, TLAPS

-----------------------------------------------------------------------------
(* Induction and sequences.                                                *)

(* Every set of natural numbers that is not empty has a least one.         *)
Less == {ss \in Nat \X Nat : ss[1] < ss[2]}

LEMMA LessIsWellFounded == IsWellFoundedOn(Less, Nat)
BY NatLessThanWellFounded DEF OpToRel, Less

LEMMA LeastElement ==
    ASSUME NEW T \in SUBSET Nat, T # {}
    PROVE  \E x \in T : \A y \in T : x <= y
<1>1. PICK x \in T : \A y \in T : <<y, x>> \notin Less
  BY LessIsWellFounded, WFMin
<1>2. ASSUME NEW y \in T PROVE x <= y
  <2>1. <<y, x>> \in Less <=> y < x
    BY DEF Less
  <2> QED BY <1>1, <2>1
<1> QED BY <1>2

(* Induction, on the set of the numbers that a formula holds of.           *)
LEMMA Induction ==
    ASSUME NEW S, 0 \in S, \A n \in Nat : n \in S => n + 1 \in S
    PROVE  \A n \in Nat : n \in S
<1> SUFFICES ASSUME {n \in Nat : n \notin S} # {}
             PROVE  FALSE
  OBVIOUS
<1>1. PICK x \in {n \in Nat : n \notin S} : \A y \in {n \in Nat : n \notin S} : x <= y
  BY LeastElement
<1>2. x # 0 /\ x \in Nat /\ x \notin S
  BY <1>1
<1>3. x - 1 \in S
  BY <1>1, <1>2
<1>4. x - 1 \in Nat /\ (x - 1) + 1 = x
  BY <1>2
<1> QED BY <1>2, <1>3, <1>4

-----------------------------------------------------------------------------
(* Sequences whose elements are of no set in particular.                   *)
IsStack(s) == Len(s) \in Nat /\ s = [k \in 1 .. Len(s) |-> s[k]]

LEMMA StackIsSeq ==
    ASSUME NEW s, IsStack(s)
    PROVE  s \in Seq({s[k] : k \in 1 .. Len(s)})
<1> DEFINE S == {s[k] : k \in 1 .. Len(s)}
<1>1. [k \in 1 .. Len(s) |-> s[k]] \in [1 .. Len(s) -> S]
  OBVIOUS
<1>2. s \in [1 .. Len(s) -> S]
  BY <1>1 DEF IsStack
<1> QED BY <1>2, SeqDef DEF IsStack

LEMMA SeqIsStack ==
    ASSUME NEW S, NEW s \in Seq(S)
    PROVE  IsStack(s)
<1>1. Len(s) \in Nat /\ s \in [1 .. Len(s) -> S]
  BY LenProperties
<1>2. s = [k \in 1 .. Len(s) |-> s[k]]
  BY <1>1
<1> QED BY <1>1, <1>2 DEF IsStack

LEMMA SeqOfStack ==
    ASSUME NEW s, IsStack(s), NEW S, \A k \in 1 .. Len(s) : s[k] \in S
    PROVE  s \in Seq(S)
<1>1. s \in [1 .. Len(s) -> S]
  BY DEF IsStack
<1> QED BY <1>1, SeqDef DEF IsStack

LEMMA StackDomain ==
    ASSUME NEW s, IsStack(s)
    PROVE  DOMAIN s = 1 .. Len(s)
BY DEF IsStack

LEMMA EmptyStack ==
    ASSUME NEW s, IsStack(s)
    PROVE  (s = <<>>) <=> (Len(s) = 0)
BY StackIsSeq, EmptySeq

LEMMA ComputedStack ==
    ASSUME NEW n \in Nat, NEW f, f = [k \in 1 .. n |-> f[k]]
    PROVE  IsStack(f) /\ Len(f) = n
<1>1. f \in [1 .. n -> {f[k] : k \in 1 .. n}]
  OBVIOUS
<1> QED BY <1>1, SeqDef, LenProperties DEF IsStack

LEMMA AppendStack ==
    ASSUME NEW s, IsStack(s), NEW x
    PROVE  /\ IsStack(Append(s, x)) /\ Len(Append(s, x)) = Len(s) + 1
           /\ \A k \in 1 .. Len(s) : Append(s, x)[k] = s[k]
           /\ Append(s, x)[Len(s) + 1] = x
<1> DEFINE S == {s[k] : k \in 1 .. Len(s)} \cup {x}
<1>1. s \in Seq(S)
  <2>1. \A k \in 1 .. Len(s) : s[k] \in S
    OBVIOUS
  <2> QED BY <2>1, SeqOfStack
<1>2. x \in S
  OBVIOUS
<1> HIDE DEF S
<1>3. /\ Append(s, x) \in Seq(S)
      /\ Len(Append(s, x)) = Len(s) + 1
      /\ \A i \in 1 .. Len(s) : Append(s, x)[i] = s[i]
      /\ Append(s, x)[Len(s) + 1] = x
  BY <1>1, <1>2, AppendProperties
<1>4. IsStack(Append(s, x))
  BY <1>3, SeqIsStack
<1> QED BY <1>3, <1>4

LEMMA FrontStack ==
    ASSUME NEW s, IsStack(s), Len(s) > 0
    PROVE  /\ IsStack(Front(s)) /\ Len(Front(s)) = Len(s) - 1
           /\ \A k \in 1 .. Len(s) - 1 : Front(s)[k] = s[k]
<1> DEFINE S == {s[k] : k \in 1 .. Len(s)}
<1>1. Len(s) \in Nat
  BY DEF IsStack
<1>2. \A k \in 1 .. Len(s) - 1 : s[k] \in S
  BY <1>1
<1>3. /\ SubSeq(s, 1, Len(s) - 1) \in Seq(S)
      /\ Len(SubSeq(s, 1, Len(s) - 1)) = Len(s) - 1
      /\ \A k \in 1 .. Len(s) - 1 : SubSeq(s, 1, Len(s) - 1)[k] = s[1 + k - 1]
  <2>1. Len(s) - 1 \in Int /\ 1 \in Int /\ (1 <= Len(s) - 1 \/ Len(s) - 1 = 0)
    <3>1. \A n \in Nat : n > 0 => n - 1 \in Int /\ 1 \in Int /\ (1 <= n - 1 \/ n - 1 = 0)
      OBVIOUS
    <3> QED BY <1>1, <3>1
  <2>2. SubSeq(s, 1, Len(s) - 1) \in Seq(S)
    BY <1>2, <2>1, SubSeqProperties
  <2>3. Len(SubSeq(s, 1, Len(s) - 1)) = Len(s) - 1
    BY <1>2, <2>1, SubSeqProperties
  <2>4. \A k \in 1 .. (Len(s) - 1) - 1 + 1 : SubSeq(s, 1, Len(s) - 1)[k] = s[1 + k - 1]
    BY <1>2, <2>1, SubSeqProperties
  <2> QED BY <1>1, <2>2, <2>3, <2>4
<1>4. \A k \in 1 .. Len(s) - 1 : 1 + k - 1 = k
  OBVIOUS
<1> QED BY <1>3, <1>4, SeqIsStack DEF Front

LEMMA ExceptStack ==
    ASSUME NEW s, IsStack(s), NEW j \in 1 .. Len(s), NEW x
    PROVE  /\ IsStack([s EXCEPT ![j] = x]) /\ Len([s EXCEPT ![j] = x]) = Len(s)
           /\ \A k \in 1 .. Len(s) : k # j => [s EXCEPT ![j] = x][k] = s[k]
           /\ [s EXCEPT ![j] = x][j] = x
<1> DEFINE t == [s EXCEPT ![j] = x]
<1>1. DOMAIN s = 1 .. Len(s) /\ Len(s) \in Nat
  BY DEF IsStack
<1>2. t = [k \in 1 .. Len(s) |-> t[k]]
  BY <1>1
<1>3. IsStack(t) /\ Len(t) = Len(s)
  <2> HIDE DEF t
  <2> QED BY <1>1, <1>2, ComputedStack
<1> QED BY <1>1, <1>3

LEMMA StackEqual ==
    ASSUME NEW s, NEW t, IsStack(s), IsStack(t), Len(s) = Len(t),
           \A k \in 1 .. Len(s) : s[k] = t[k]
    PROVE  s = t
BY DEF IsStack

-----------------------------------------------------------------------------
(* Sequences of bytes, or of any other set.                                *)
LEMMA FlattenIsRecursive ==
    ASSUME NEW S, NEW seqs \in Seq(Seq(S)), seqs # <<>>
    PROVE  \E f : /\ f[1] = seqs[1]
                  /\ \A i \in 2 .. Len(seqs) : f[i] = f[i - 1] \o seqs[i]
                  /\ \A i \in 1 .. Len(seqs) : f[i] \in Seq(S)
                  /\ FlattenSeq(seqs) = f[Len(seqs)]
<1> DEFINE Is(f, n) == f = [i \in 1 .. n |-> IF i = 1 THEN seqs[i] ELSE f[i - 1] \o seqs[i]]
           N == {n \in Nat : n <= Len(seqs) => \E f : Is(f, n)}
<1>0. Len(seqs) \in Nat \ {0} /\ \A i \in 1 .. Len(seqs) : seqs[i] \in Seq(S)
  BY EmptySeq
<1>1. 0 \in N
  <2>1. Is([i \in 1 .. 0 |-> seqs[i]], 0)
    OBVIOUS
  <2> QED BY <2>1
<1>2. ASSUME NEW n \in Nat, n \in N PROVE n + 1 \in N
  <2> SUFFICES ASSUME n + 1 <= Len(seqs) PROVE \E f : Is(f, n + 1)
    <3> HIDE DEF Is
    <3> QED OBVIOUS
  <2>1. PICK f : Is(f, n)
    <3>1. n <= Len(seqs)
      BY <1>0
    <3> HIDE DEF Is
    <3> QED BY <1>2, <3>1
  <2> DEFINE g == [i \in 1 .. n + 1 |->
                    IF i = n + 1 THEN (IF n = 0 THEN seqs[1] ELSE f[n] \o seqs[n + 1])
                                 ELSE f[i]]
  <2>2. ASSUME NEW i \in 1 .. n + 1
        PROVE  g[i] = IF i = 1 THEN seqs[i] ELSE g[i - 1] \o seqs[i]
    <3>1. CASE i = n + 1
      BY <3>1
    <3>2. CASE i # n + 1
      <4>1. i \in 1 .. n /\ g[i] = f[i] /\ (i # 1 => i - 1 \in 1 .. n /\ g[i - 1] = f[i - 1])
        BY <3>2
      <4> QED BY <2>1, <4>1
    <3> QED BY <3>1, <3>2
  <2>3. Is(g, n + 1)
    BY <2>2
  <2> QED BY <2>3
<1>3. \A n \in Nat : n \in N
  <2> HIDE DEF N
  <2> QED BY <1>1, <1>2, Induction
<1>4. \E f : Is(f, Len(seqs))
  <2>1. Len(seqs) \in Nat /\ Len(seqs) <= Len(seqs)
    BY <1>0
  <2> HIDE DEF Is
  <2> QED BY <1>3, <2>1
<1> DEFINE f == CHOOSE f : Is(f, Len(seqs))
<1>5. Is(f, Len(seqs))
  BY <1>4
<1>6. FlattenSeq(seqs) = f[Len(seqs)]
  BY <1>0 DEF FlattenSeq
<1>7. \A i \in 1 .. Len(seqs) : f[i] \in Seq(S)
  <2> HIDE DEF f
  <2> DEFINE M == {n \in Nat : n + 1 <= Len(seqs) => f[n + 1] \in Seq(S)}
  <2>1. 0 \in M
    BY <1>0, <1>5
  <2>2. ASSUME NEW n \in Nat, n \in M PROVE n + 1 \in M
    <3> SUFFICES ASSUME n + 2 <= Len(seqs) PROVE f[n + 2] \in Seq(S)
      OBVIOUS
    <3>1. f[n + 2] = f[n + 1] \o seqs[n + 2]
      <4>1. n + 2 \in 1 .. Len(seqs) /\ n + 2 # 1 /\ (n + 2) - 1 = n + 1
        BY <1>0
      <4> QED BY <1>5, <4>1
    <3>2. f[n + 1] \in Seq(S) /\ seqs[n + 2] \in Seq(S)
      BY <1>0, <2>2
    <3> QED BY <3>1, <3>2
  <2>3. \A n \in Nat : n \in M
    <3> HIDE DEF M
    <3> QED BY <2>1, <2>2, Induction
  <2> SUFFICES ASSUME NEW i \in 1 .. Len(seqs) PROVE f[i] \in Seq(S)
    OBVIOUS
  <2>4. i - 1 \in Nat /\ (i - 1) + 1 = i /\ i <= Len(seqs)
    BY <1>0
  <2> QED BY <2>3, <2>4
<1>8. f[1] = seqs[1] /\ \A i \in 2 .. Len(seqs) : f[i] = f[i - 1] \o seqs[i]
  <2> HIDE DEF f
  <2>1. 1 \in 1 .. Len(seqs) /\ \A i \in 2 .. Len(seqs) : i \in 1 .. Len(seqs) /\ i # 1
    BY <1>0
  <2> QED BY <1>5, <2>1
<1> HIDE DEF f
<1> QED BY <1>6, <1>7, <1>8

-----------------------------------------------------------------------------
(* The items of a sequence from a place on, joined.                        *)

LEMMA FlattenType ==
    ASSUME NEW S, NEW seqs \in Seq(Seq(S))
    PROVE  FlattenSeq(seqs) \in Seq(S)
<1>1. CASE seqs = <<>>
  <2>1. FlattenSeq(seqs) = <<>>
    BY <1>1 DEF FlattenSeq
  <2> QED BY <2>1
<1>2. CASE seqs # <<>>
  <2>1. Len(seqs) \in Nat \ {0}
    BY <1>2, EmptySeq
  <2>2. Len(seqs) \in 1 .. Len(seqs)
    BY <2>1
  <2>3. PICK f : /\ \A i \in 1 .. Len(seqs) : f[i] \in Seq(S)
                 /\ FlattenSeq(seqs) = f[Len(seqs)]
    BY <1>2, FlattenIsRecursive
  <2> QED BY <2>2, <2>3
<1> QED BY <1>1, <1>2

LEMMA TailOfSeq ==
    ASSUME NEW S, NEW s \in Seq(S), s # <<>>
    PROVE  /\ Len(s) \in Nat \ {0} /\ \A i \in 1 .. Len(s) : s[i] \in S
           /\ Tail(s) \in Seq(S) /\ Len(Tail(s)) \in Nat /\ Len(s) = Len(Tail(s)) + 1
           /\ \A i \in 1 .. Len(Tail(s)) : Tail(s)[i] = s[i + 1]
<1>1. Len(s) \in Nat \ {0} /\ \A i \in 1 .. Len(s) : s[i] \in S
  BY EmptySeq
<1>2. Tail(s) \in Seq(S) /\ Len(Tail(s)) = Len(s) - 1
  BY HeadTailProperties
<1>3. \A i \in 1 .. Len(Tail(s)) : Tail(s)[i] = s[i + 1]
  BY HeadTailProperties
<1>4. Len(s) = (Len(s) - 1) + 1 /\ Len(s) - 1 \in Nat
  BY <1>1
<1> QED BY <1>1, <1>2, <1>3, <1>4

(* What is written is the first item and then the others.                  *)
LEMMA FlattenFirst ==
    ASSUME NEW S, NEW seqs \in Seq(Seq(S)), seqs # <<>>
    PROVE  FlattenSeq(seqs) = seqs[1] \o FlattenSeq(Tail(seqs))
<1>0. PICK t : t = Tail(seqs)
  OBVIOUS
<1>1. /\ Len(seqs) \in Nat \ {0} /\ \A i \in 1 .. Len(seqs) : seqs[i] \in Seq(S)
      /\ t \in Seq(Seq(S)) /\ Len(t) \in Nat /\ Len(seqs) = Len(t) + 1
      /\ \A i \in 1 .. Len(t) : t[i] = seqs[i + 1]
  BY <1>0, TailOfSeq
<1>2. PICK f : /\ f[1] = seqs[1]
               /\ \A i \in 2 .. Len(seqs) : f[i] = f[i - 1] \o seqs[i]
               /\ \A i \in 1 .. Len(seqs) : f[i] \in Seq(S)
               /\ FlattenSeq(seqs) = f[Len(seqs)]
  BY FlattenIsRecursive
<1>3. CASE t = <<>>
  <2>1. Len(t) = 0
    BY <1>3
  <2>2. FlattenSeq(t) = <<>>
    BY <1>3 DEF FlattenSeq
  <2>3. seqs[1] \o <<>> = seqs[1] /\ Len(seqs) = 1
    BY <1>1, <2>1
  <2> QED BY <1>0, <1>2, <2>2, <2>3
<1>4. CASE t # <<>>
  <2>1. PICK g : /\ g[1] = t[1]
                 /\ \A i \in 2 .. Len(t) : g[i] = g[i - 1] \o t[i]
                 /\ \A i \in 1 .. Len(t) : g[i] \in Seq(S)
                 /\ FlattenSeq(t) = g[Len(t)]
    BY <1>1, <1>4, FlattenIsRecursive
  <2>g. Len(t) \in Nat \ {0}
    BY <1>1, <1>4, EmptySeq
  <2> DEFINE Shifted(n) == n + 1 <= Len(t) => f[n + 2] = seqs[1] \o g[n + 1]
             N == {n \in Nat : Shifted(n)}
  <2>2. 0 \in N
    <3>1. 2 \in 2 .. Len(seqs) /\ t[1] = seqs[1 + 1]
      BY <1>1, <2>g
    <3>2. f[2] = f[2 - 1] \o seqs[2]
      BY <1>2, <3>1
    <3>3. f[0 + 2] = seqs[1] \o g[0 + 1]
      <4>1. 2 - 1 = 1 /\ 1 + 1 = 2 /\ 0 + 2 = 2 /\ 0 + 1 = 1
        OBVIOUS
      <4> QED BY <1>2, <2>1, <3>1, <3>2, <4>1
    <3> QED BY <3>3
  <2>3. ASSUME NEW n \in Nat, n \in N PROVE n + 1 \in N
    <3> SUFFICES Shifted(n + 1)
      <4> HIDE DEF Shifted
      <4> QED OBVIOUS
    <3> SUFFICES ASSUME (n + 1) + 1 <= Len(t) PROVE f[(n + 1) + 2] = seqs[1] \o g[(n + 1) + 1]
      OBVIOUS
    <3>1. /\ n + 3 \in 2 .. Len(seqs) /\ (n + 3) - 1 = n + 2 /\ n + 3 \in 1 .. Len(seqs)
          /\ n + 2 \in 2 .. Len(t) /\ (n + 2) - 1 = n + 1 /\ n + 1 \in 1 .. Len(t)
          /\ (n + 2) + 1 = n + 3 /\ n + 1 <= Len(t) /\ n + 2 \in 1 .. Len(t)
          /\ (n + 1) + 2 = n + 3 /\ (n + 1) + 1 = n + 2 /\ 1 \in 1 .. Len(seqs)
      BY <1>1
    <3>2. f[n + 3] = f[n + 2] \o seqs[n + 3]
      BY <1>2, <3>1
    <3>3. f[n + 2] = seqs[1] \o g[n + 1]
      BY <2>3, <3>1
    <3>4. g[n + 2] = g[n + 1] \o t[n + 2]
      BY <2>1, <3>1
    <3>7. t[n + 2] = seqs[n + 3]
      BY <1>1, <3>1
    <3>5. seqs[1] \in Seq(S) /\ seqs[n + 3] \in Seq(S) /\ g[n + 1] \in Seq(S)
      BY <1>1, <2>1, <3>1
    <3>6. (seqs[1] \o g[n + 1]) \o seqs[n + 3] = seqs[1] \o (g[n + 1] \o seqs[n + 3])
      <4>1. \A a, b, c \in Seq(S) : (a \o b) \o c = a \o (b \o c)
        <5> TAKE a, b, c \in Seq(S)
        <5> QED BY SMTT(20)
      <4> QED BY <3>5, <4>1, Zenon
    <3> QED BY <3>1, <3>2, <3>3, <3>4, <3>6, <3>7
  <2>4. \A n \in Nat : n \in N
    <3> HIDE DEF N
    <3> QED BY <2>2, <2>3, Induction
  <2>5. /\ Len(t) - 1 \in Nat /\ (Len(t) - 1) + 1 = Len(t) /\ Len(t) <= Len(t)
        /\ (Len(t) - 1) + 2 = Len(seqs)
    BY <1>1, <2>g
  <2>6. f[(Len(t) - 1) + 2] = seqs[1] \o g[(Len(t) - 1) + 1]
    BY <2>4, <2>5
  <2> QED BY <1>0, <1>2, <2>1, <2>5, <2>6
<1> QED BY <1>3, <1>4

(* What is left to write after the first i of them.                        *)
Rest(seqs, i) == FlattenSeq(SubSeq(seqs, i + 1, Len(seqs)))

LEMMA RestOfSeqs ==
    ASSUME NEW S, NEW seqs \in Seq(Seq(S))
    PROVE  /\ Rest(seqs, 0) = FlattenSeq(seqs)
           /\ Rest(seqs, Len(seqs)) = <<>>
           /\ \A i \in 0 .. Len(seqs) : Rest(seqs, i) \in Seq(S)
           /\ \A i \in 0 .. Len(seqs) - 1 :
                /\ seqs[i + 1] \in Seq(S)
                /\ Rest(seqs, i) = seqs[i + 1] \o Rest(seqs, i + 1)
<1>0. Len(seqs) \in Nat
  OBVIOUS
<1>1. Rest(seqs, 0) = FlattenSeq(seqs)
  <2>1. 0 + 1 = 1
    OBVIOUS
  <2> QED BY <2>1, SubSeqFull DEF Rest
<1>2. Rest(seqs, Len(seqs)) = <<>>
  <2>1. SubSeq(seqs, Len(seqs) + 1, Len(seqs)) = <<>>
    BY <1>0, SubSeqEmpty
  <2>2. FlattenSeq(<<>>) = <<>>
    BY DEF FlattenSeq
  <2> QED BY <2>1, <2>2 DEF Rest
<1>3. ASSUME NEW i \in 0 .. Len(seqs) PROVE Rest(seqs, i) \in Seq(S)
  <2>1. i + 1 \in Int /\ Len(seqs) \in Int /\ \A j \in i + 1 .. Len(seqs) : j \in 1 .. Len(seqs)
    BY <1>0
  <2>2. \A j \in i + 1 .. Len(seqs) : seqs[j] \in Seq(S)
    BY <2>1
  <2>3. SubSeq(seqs, i + 1, Len(seqs)) \in Seq(Seq(S))
    BY <2>1, <2>2, SubSeqProperties
  <2> QED BY <2>3, FlattenType DEF Rest
<1>4. ASSUME NEW i \in 0 .. Len(seqs) - 1
      PROVE  seqs[i + 1] \in Seq(S) /\ Rest(seqs, i) = seqs[i + 1] \o Rest(seqs, i + 1)
  <2> DEFINE s == SubSeq(seqs, i + 1, Len(seqs))
  <2>1. i + 1 \in 1 .. Len(seqs) /\ Len(seqs) \in i + 1 .. Len(seqs)
    BY <1>0
  <2>2. Head(s) = seqs[i + 1] /\ Tail(s) = SubSeq(seqs, (i + 1) + 1, Len(seqs))
    BY <2>1, HeadTailOfSubSeq
  <2>3. s \in Seq(Seq(S)) /\ Len(s) = Len(seqs) - (i + 1) + 1 /\ s[1] = seqs[i + 1]
    <3>1. i + 1 \in Int /\ Len(seqs) \in Int /\ i + 1 <= Len(seqs)
      BY <1>0
    <3>2. \A j \in i + 1 .. Len(seqs) : seqs[j] \in Seq(S)
      BY <1>0
    <3>3. s \in Seq(Seq(S))
      BY <3>1, <3>2, SubSeqProperties
    <3>4. Len(s) = Len(seqs) - (i + 1) + 1
      BY <3>1, <3>2, SubSeqProperties
    <3>5. s[1] = seqs[(i + 1) + 1 - 1]
      BY <3>1, <3>2, <1>0, SubSeqProperties
    <3> QED BY <3>1, <3>3, <3>4, <3>5
  <2>4. s # <<>>
    <3>1. Len(seqs) - (i + 1) + 1 # 0
      BY <1>0
    <3> HIDE DEF s
    <3> QED BY <2>3, <3>1
  <2>5. FlattenSeq(s) = s[1] \o FlattenSeq(Tail(s))
    <3> HIDE DEF s
    <3> QED BY <2>3, <2>4, FlattenFirst
  <2>6. seqs[i + 1] \in Seq(S)
    BY <2>1
  <2> QED BY <2>2, <2>3, <2>5, <2>6 DEF Rest
<1> QED BY <1>1, <1>2, <1>3, <1>4

-----------------------------------------------------------------------------
(* Bytes in the file, and what the parser reads where they are.            *)

(* The bytes s are in the file from a place on.                            *)
Holds(at, s) == at + Len(s) <= Len(file) /\ \A k \in 1 .. Len(s) : file[at + k] = s[k]

LEMMA ConcatBytes ==
    ASSUME NEW s \in Seq(Byte), NEW t \in Seq(Byte)
    PROVE  s \o t \in Seq(Byte) /\ Len(s \o t) = Len(s) + Len(t)
BY ConcatProperties

LEMMA HoldsConcat ==
    ASSUME file \in Seq(Byte), NEW s \in Seq(Byte), NEW t \in Seq(Byte), NEW at \in Nat
    PROVE  Holds(at, s \o t) <=> Holds(at, s) /\ Holds(at + Len(s), t)
<1>1. /\ Len(s) \in Nat /\ Len(t) \in Nat /\ Len(file) \in Nat /\ Len(s \o t) = Len(s) + Len(t)
      /\ \A k \in 1 .. Len(s) + Len(t) : (s \o t)[k] = IF k <= Len(s) THEN s[k] ELSE t[k - Len(s)]
  BY ConcatProperties
<1>2. ASSUME Holds(at, s \o t) PROVE Holds(at, s) /\ Holds(at + Len(s), t)
  <2>1. /\ at + Len(s) <= Len(file) /\ (at + Len(s)) + Len(t) <= Len(file)
    BY <1>1, <1>2 DEF Holds
  <2>2. ASSUME NEW k \in 1 .. Len(s) PROVE file[at + k] = s[k]
    <3>1. k \in 1 .. Len(s) + Len(t) /\ k <= Len(s)
      BY <1>1
    <3> QED BY <1>1, <1>2, <3>1 DEF Holds
  <2>3. ASSUME NEW k \in 1 .. Len(t) PROVE file[(at + Len(s)) + k] = t[k]
    <3>1. /\ Len(s) + k \in 1 .. Len(s) + Len(t) /\ ~(Len(s) + k <= Len(s))
          /\ (Len(s) + k) - Len(s) = k /\ at + (Len(s) + k) = (at + Len(s)) + k
      BY <1>1
    <3> QED BY <1>1, <1>2, <3>1 DEF Holds
  <2> QED BY <2>1, <2>2, <2>3 DEF Holds
<1>3. ASSUME Holds(at, s), Holds(at + Len(s), t) PROVE Holds(at, s \o t)
  <2>1. at + Len(s \o t) <= Len(file)
    BY <1>1, <1>3 DEF Holds
  <2>2. ASSUME NEW k \in 1 .. Len(s \o t) PROVE file[at + k] = (s \o t)[k]
    <3>1. CASE k <= Len(s)
      <4>1. k \in 1 .. Len(s) /\ k \in 1 .. Len(s) + Len(t)
        BY <1>1, <3>1
      <4> QED BY <1>1, <1>3, <3>1, <4>1 DEF Holds
    <3>2. CASE ~(k <= Len(s))
      <4>1. /\ k - Len(s) \in 1 .. Len(t) /\ k \in 1 .. Len(s) + Len(t)
            /\ (at + Len(s)) + (k - Len(s)) = at + k
        BY <1>1, <3>2
      <4> QED BY <1>1, <1>3, <3>2, <4>1 DEF Holds
    <3> QED BY <3>1, <3>2
  <2> QED BY <2>1, <2>2 DEF Holds
<1> QED BY <1>2, <1>3

LEMMA Division ==
    ASSUME NEW n \in Nat, NEW m \in Nat \ {0}
    PROVE  n = m * (n \div m) + (n % m) /\ n % m \in 0 .. m - 1 /\ n \div m \in Int
OBVIOUS

LEMMA HalvesAndBytes ==
    /\ \A n \in Half : n \div 256 \in Byte /\ n % 256 \in Byte /\ 256 * (n \div 256) + (n % 256) = n
    /\ \A n \in Nat : FitsU4(n) => /\ n \div 65536 \in Half /\ n % 65536 \in Half
                                   /\ 65536 * (n \div 65536) + (n % 65536) = n
<1>1. ASSUME NEW n \in Nat, NEW m \in Nat \ {0}
      PROVE  n % m \in Nat /\ n % m < m /\ m * (n \div m) + (n % m) = n /\ n \div m \in Int
  BY Division
<1>2. ASSUME NEW n \in Half
      PROVE  n \div 256 \in Byte /\ n % 256 \in Byte /\ 256 * (n \div 256) + (n % 256) = n
  <2>1. n \in Nat /\ n < 65536 /\ 256 \in Nat \ {0}
    BY DEF Half
  <2>2. n % 256 \in Nat /\ n % 256 < 256 /\ 256 * (n \div 256) + (n % 256) = n /\ n \div 256 \in Int
    BY <1>1, <2>1
  <2>3. n \div 256 \in Nat /\ n \div 256 < 256
    BY <2>1, <2>2
  <2> QED BY <2>2, <2>3 DEF Byte
<1>3. ASSUME NEW n \in Nat, FitsU4(n)
      PROVE  /\ n \div 65536 \in Half /\ n % 65536 \in Half
             /\ 65536 * (n \div 65536) + (n % 65536) = n
  <2>1. 65536 \in Nat \ {0}
    OBVIOUS
  <2>2. n % 65536 \in Nat /\ n % 65536 < 65536 /\ 65536 * (n \div 65536) + (n % 65536) = n
    BY <1>1, <2>1
  <2> QED BY <1>3, <2>2 DEF FitsU4, Half
<1> QED BY <1>2, <1>3

LEMMA NumbersAreBytes ==
    /\ \A n \in Byte : U1(n) \in Seq(Byte) /\ Len(U1(n)) = 1
    /\ \A n \in Half : U2(n) \in Seq(Byte) /\ Len(U2(n)) = 2
    /\ \A n \in Nat : FitsU4(n) => U4(n) \in Seq(Byte) /\ Len(U4(n)) = 4
<1>1. ASSUME NEW n \in Byte PROVE U1(n) \in Seq(Byte) /\ Len(U1(n)) = 1
  BY DEF U1
<1>2. ASSUME NEW n \in Half PROVE U2(n) \in Seq(Byte) /\ Len(U2(n)) = 2
  <2>1. n \div 256 \in Byte /\ n % 256 \in Byte
    BY HalvesAndBytes
  <2> QED BY <2>1 DEF U2
<1>3. ASSUME NEW n \in Nat, FitsU4(n) PROVE U4(n) \in Seq(Byte) /\ Len(U4(n)) = 4
  <2>1. n \div 65536 \in Half /\ n % 65536 \in Half
    BY <1>3, HalvesAndBytes
  <2>2. /\ U2(n \div 65536) \in Seq(Byte) /\ Len(U2(n \div 65536)) = 2
        /\ U2(n % 65536) \in Seq(Byte) /\ Len(U2(n % 65536)) = 2
    BY <1>2, <2>1
  <2>3. PICK s, t : s = U2(n \div 65536) /\ t = U2(n % 65536)
    OBVIOUS
  <2>4. s \in Seq(Byte) /\ t \in Seq(Byte) /\ Len(s) = 2 /\ Len(t) = 2
    BY <2>2, <2>3
  <2>5. s \o t \in Seq(Byte) /\ Len(s \o t) = 2 + 2
    BY <2>4, ConcatBytes
  <2> QED BY <2>3, <2>5 DEF U4
<1> QED BY <1>1, <1>2, <1>3

(* Numbers are read as they are written.                                   *)
LEMMA ReadU1 ==
    ASSUME file \in Seq(Byte), NEW at \in Nat, NEW n \in Byte, Holds(at, U1(n))
    PROVE  ByteAt(at) = n
<1>1. Len(U1(n)) = 1 /\ U1(n)[1] = n
  BY DEF U1
<1>2. at + 1 <= Len(file) /\ file[at + 1] = n
  BY <1>1 DEF Holds
<1> QED BY <1>2 DEF ByteAt

LEMMA ReadU2 ==
    ASSUME file \in Seq(Byte), NEW at \in Nat, NEW n \in Half, Holds(at, U2(n))
    PROVE  U2At(at) = n
<1>1. Len(U2(n)) = 2 /\ U2(n)[1] = n \div 256 /\ U2(n)[2] = n % 256
  BY DEF U2
<1>2. at + 2 <= Len(file) /\ file[at + 1] = n \div 256 /\ file[(at + 1) + 1] = n % 256
  <2>1. (at + 1) + 1 = at + 2 /\ 1 \in 1 .. 2 /\ 2 \in 1 .. 2
    OBVIOUS
  <2> QED BY <1>1, <2>1 DEF Holds
<1>3. ByteAt(at) = n \div 256 /\ ByteAt(at + 1) = n % 256
  BY <1>2 DEF ByteAt
<1>4. 256 * (n \div 256) + (n % 256) = n
  BY HalvesAndBytes
<1> QED BY <1>3, <1>4 DEF U2At

LEMMA ReadU4 ==
    ASSUME file \in Seq(Byte), NEW at \in Nat, NEW n \in Nat, FitsU4(n), Holds(at, U4(n))
    PROVE  U4At(at) = n
<1> DEFINE high == n \div 65536
           low == n % 65536
<1>1. high \in Half /\ low \in Half /\ 65536 * high + low = n
  BY HalvesAndBytes
<1>2. U2(high) \in Seq(Byte) /\ U2(low) \in Seq(Byte) /\ Len(U2(high)) = 2
  BY <1>1, NumbersAreBytes
<1>3. Holds(at, U2(high)) /\ Holds(at + 2, U2(low))
  <2>1. Holds(at, U2(high) \o U2(low))
    BY DEF U4
  <2> HIDE DEF high, low
  <2> QED BY <1>2, <2>1, HoldsConcat
<1>4. U2At(at) = high /\ U2At(at + 2) = low
  BY <1>1, <1>3, ReadU2
<1> QED BY <1>1, <1>4 DEF U4At

LEMMA HoldsAtMost ==
    ASSUME file \in Seq(Byte), NEW at \in Nat, NEW s \in Seq(Byte), Holds(at, s),
           NEW n \in Nat, n <= Len(s)
    PROVE  Bounded(n) = n
BY DEF Holds, Bounded

LEMMA ReadBytes ==
    ASSUME file \in Seq(Byte), NEW at \in Nat, NEW s \in Seq(Byte), Holds(at, s)
    PROVE  BytesAt(at, Len(s)) = s
<1>1. Bounded(Len(s)) = Len(s)
  BY HoldsAtMost
<1>2. ASSUME NEW k \in 1 .. Len(s) PROVE ByteAt(at + k - 1) = s[k]
  <2>1. at + k <= Len(file) /\ file[at + k] = s[k] /\ (at + k - 1) + 1 = at + k
    BY DEF Holds
  <2> QED BY <2>1 DEF ByteAt
<1>3. s = [k \in 1 .. Len(s) |-> s[k]]
  OBVIOUS
<1> QED BY <1>1, <1>2, <1>3 DEF BytesAt

-----------------------------------------------------------------------------
(* Items one after the other in the file.                                  *)

LEMMA RestIsBytes ==
    ASSUME NEW seqs \in Seq(Seq(Byte))
    PROVE  /\ Len(seqs) \in Nat /\ Rest(seqs, 0) = FlattenSeq(seqs) /\ FlattenSeq(seqs) \in Seq(Byte)
           /\ Rest(seqs, Len(seqs)) = <<>> /\ Len(Rest(seqs, Len(seqs))) = 0
           /\ \A i \in 0 .. Len(seqs) : Rest(seqs, i) \in Seq(Byte) /\ Len(Rest(seqs, i)) \in Nat
           /\ \A i \in 0 .. Len(seqs) - 1 :
                /\ seqs[i + 1] \in Seq(Byte) /\ Len(seqs[i + 1]) \in Nat
                /\ Len(Rest(seqs, i)) = Len(seqs[i + 1]) + Len(Rest(seqs, i + 1))
<1>1. Len(seqs) \in Nat /\ FlattenSeq(seqs) \in Seq(Byte) /\ Len(<<>>) = 0
  BY FlattenType
<1>2. /\ Rest(seqs, 0) = FlattenSeq(seqs) /\ Rest(seqs, Len(seqs)) = <<>>
      /\ \A i \in 0 .. Len(seqs) : Rest(seqs, i) \in Seq(Byte)
      /\ \A i \in 0 .. Len(seqs) - 1 :
            seqs[i + 1] \in Seq(Byte) /\ Rest(seqs, i) = seqs[i + 1] \o Rest(seqs, i + 1)
  BY RestOfSeqs
<1>3. \A s \in Seq(Byte) : Len(s) \in Nat
  OBVIOUS
<1>4. ASSUME NEW i \in 0 .. Len(seqs) - 1
      PROVE  Len(Rest(seqs, i)) = Len(seqs[i + 1]) + Len(Rest(seqs, i + 1))
  <2>1. i + 1 \in 0 .. Len(seqs)
    BY <1>1
  <2>2. PICK s \in Seq(Byte) : s = seqs[i + 1]
    BY <1>2
  <2>3. PICK t \in Seq(Byte) : t = Rest(seqs, i + 1)
    BY <1>2, <2>1
  <2>4. Len(s \o t) = Len(s) + Len(t)
    OBVIOUS
  <2> QED BY <1>2, <2>2, <2>3, <2>4
<1> QED BY <1>1, <1>2, <1>3, <1>4

LEMMA HoldsRest ==
    ASSUME file \in Seq(Byte), NEW seqs \in Seq(Seq(Byte)), NEW i \in 0 .. Len(seqs) - 1,
           NEW at \in Nat
    PROVE  Holds(at, Rest(seqs, i)) <=>
                Holds(at, seqs[i + 1]) /\ Holds(at + Len(seqs[i + 1]), Rest(seqs, i + 1))
<1>1. i + 1 \in 0 .. Len(seqs)
  BY RestIsBytes
<1>2. PICK s \in Seq(Byte) : s = seqs[i + 1]
  BY RestIsBytes
<1>3. PICK t \in Seq(Byte) : t = Rest(seqs, i + 1)
  BY <1>1, RestIsBytes
<1>4. Rest(seqs, i) = s \o t
  BY <1>2, <1>3, RestOfSeqs
<1> QED BY <1>2, <1>3, <1>4, HoldsConcat

(* The places p of items one after the other.                              *)
LEMMA HoldsEach ==
    ASSUME file \in Seq(Byte), NEW seqs \in Seq(Seq(Byte)), NEW at \in Nat,
           Holds(at, FlattenSeq(seqs)),
           NEW p, p[0] = at,
           \A i \in 0 .. Len(seqs) - 1 :
                p[i] \in Nat /\ Holds(p[i], seqs[i + 1]) => p[i + 1] = p[i] + Len(seqs[i + 1])
    PROVE  /\ \A i \in 0 .. Len(seqs) - 1 : p[i] \in Nat /\ Holds(p[i], seqs[i + 1])
           /\ p[Len(seqs)] = at + Len(FlattenSeq(seqs))
<1>0. Len(seqs) \in Nat
  BY RestIsBytes
<1> DEFINE Reached(i) == i <= Len(seqs) =>
                /\ p[i] \in Nat /\ Holds(p[i], Rest(seqs, i))
                /\ p[i] + Len(Rest(seqs, i)) = at + Len(FlattenSeq(seqs))
           N == {i \in Nat : Reached(i)}
<1>1. 0 \in N
  BY RestIsBytes
<1>2. ASSUME NEW i \in Nat, i \in N PROVE i + 1 \in N
  <2> SUFFICES ASSUME i + 1 <= Len(seqs) PROVE Reached(i + 1)
    OBVIOUS
  <2>1. i \in 0 .. Len(seqs) - 1 /\ i + 1 \in 0 .. Len(seqs) /\ i <= Len(seqs)
    BY <1>0
  <2>2. /\ p[i] \in Nat /\ Holds(p[i], Rest(seqs, i))
        /\ p[i] + Len(Rest(seqs, i)) = at + Len(FlattenSeq(seqs))
    BY <1>2, <2>1
  <2>3. Holds(p[i], seqs[i + 1]) /\ Holds(p[i] + Len(seqs[i + 1]), Rest(seqs, i + 1))
    BY <2>1, <2>2, HoldsRest
  <2>4. p[i + 1] = p[i] + Len(seqs[i + 1])
    BY <2>1, <2>2, <2>3
  <2>5. /\ Len(Rest(seqs, i)) = Len(seqs[i + 1]) + Len(Rest(seqs, i + 1))
        /\ Len(seqs[i + 1]) \in Nat /\ Len(Rest(seqs, i + 1)) \in Nat
    BY <2>1, RestIsBytes
  <2>6. /\ p[i + 1] \in Nat /\ Holds(p[i + 1], Rest(seqs, i + 1))
        /\ p[i + 1] + Len(Rest(seqs, i + 1)) = at + Len(FlattenSeq(seqs))
    <3>1. PICK x, y, z : /\ x \in Nat /\ y \in Nat /\ x = Len(seqs[i + 1])
                         /\ y = Len(Rest(seqs, i + 1)) /\ z = Len(Rest(seqs, i))
      BY <2>5
    <3>2. z = x + y /\ p[i + 1] = p[i] + x /\ p[i] + z = at + Len(FlattenSeq(seqs))
      BY <2>2, <2>4, <2>5, <3>1
    <3>3. p[i + 1] \in Nat /\ p[i + 1] + y = at + Len(FlattenSeq(seqs))
      <4>1. x \in Nat /\ y \in Nat /\ p[i] \in Nat
        BY <2>2, <3>1
      <4> QED BY SMTT(20), <3>2, <4>1
    <3> QED BY <2>3, <2>4, <3>1, <3>3
  <2> QED BY <2>6
<1>3. \A i \in Nat : i \in N
  <2> HIDE DEF N
  <2> QED BY <1>1, <1>2, Induction
<1>4. ASSUME NEW i \in 0 .. Len(seqs) - 1 PROVE p[i] \in Nat /\ Holds(p[i], seqs[i + 1])
  <2>1. i \in Nat /\ i <= Len(seqs)
    BY <1>0
  <2>2. p[i] \in Nat /\ Holds(p[i], Rest(seqs, i))
    BY <1>3, <2>1
  <2> QED BY <2>2, HoldsRest
<1>5. p[Len(seqs)] = at + Len(FlattenSeq(seqs))
  <2>1. p[Len(seqs)] \in Nat /\ p[Len(seqs)] + Len(Rest(seqs, Len(seqs))) = at + Len(FlattenSeq(seqs))
    BY <1>0, <1>3
  <2>2. Len(Rest(seqs, Len(seqs))) = 0
    BY RestIsBytes
  <2> QED BY <2>1, <2>2
<1> QED BY <1>4, <1>5

(* As many items as are in the file are at most its bytes.                 *)
LEMMA FlattenLength ==
    ASSUME NEW seqs \in Seq(Seq(Byte)), \A i \in 1 .. Len(seqs) : Len(seqs[i]) >= 1
    PROVE  Len(seqs) <= Len(FlattenSeq(seqs))
<1>0. Len(seqs) \in Nat
  BY RestIsBytes
<1>n. PICK n \in Nat : n = Len(seqs)
  BY <1>0
<1> DEFINE Long(i) == i <= n => i <= Len(Rest(seqs, n - i))
           N == {i \in Nat : Long(i)}
<1>1. 0 \in N
  <2>1. Len(Rest(seqs, Len(seqs))) = 0
    BY RestIsBytes
  <2>2. n - 0 = n
    OBVIOUS
  <2>3. 0 <= Len(Rest(seqs, n - 0))
    BY <1>n, <2>1, <2>2
  <2> QED BY <2>3
<1>2. ASSUME NEW i \in Nat, i \in N PROVE i + 1 \in N
  <2> SUFFICES ASSUME i + 1 <= n PROVE i + 1 <= Len(Rest(seqs, n - (i + 1)))
    OBVIOUS
  <2>1. PICK j : j = n - (i + 1)
    OBVIOUS
  <2>2. j \in 0 .. n - 1 /\ j + 1 = n - i /\ j + 1 \in 1 .. n /\ i <= n /\ j + 1 \in 0 .. n
    BY <2>1
  <2>3. i <= Len(Rest(seqs, j + 1))
    BY <1>2, <2>2
  <2>4. /\ Len(Rest(seqs, j)) = Len(seqs[j + 1]) + Len(Rest(seqs, j + 1))
        /\ Len(seqs[j + 1]) \in Nat /\ Len(Rest(seqs, j + 1)) \in Nat
    BY <1>n, <2>2, RestIsBytes
  <2>5. Len(seqs[j + 1]) >= 1
    BY <1>n, <2>2
  <2>6. i + 1 <= Len(Rest(seqs, j))
    <3>1. PICK x, y, z : /\ x \in Nat /\ y \in Nat /\ x = Len(seqs[j + 1])
                         /\ y = Len(Rest(seqs, j + 1)) /\ z = Len(Rest(seqs, j))
      BY <2>4
    <3>2. z = x + y /\ x >= 1 /\ i <= y
      BY <2>3, <2>4, <2>5, <3>1
    <3>3. i + 1 <= z
      <4>1. x \in Nat /\ y \in Nat
        BY <3>1
      <4> QED BY <3>2, <4>1
    <3> QED BY <3>1, <3>3
  <2> QED BY <2>1, <2>6
<1>3. \A i \in Nat : i \in N
  <2> HIDE DEF N
  <2> QED BY <1>1, <1>2, Induction
<1>4. n <= Len(Rest(seqs, n - n)) /\ n - n = 0
  BY <1>3
<1> QED BY <1>n, <1>4, RestIsBytes

-----------------------------------------------------------------------------
(* Structures in the file.                                                 *)

(* What follows speaks of bytes by these names alone.                      *)
IsBytes(s) == s \in Seq(Byte)
Size(s) == Len(s)
AreBytes(seqs) == seqs \in Seq(Seq(Byte))
FileOK == file \in Seq(Byte)
Flat(seqs) == FlattenSeq(seqs)

LEMMA Sizes ==
    /\ \A s : IsBytes(s) => Size(s) \in Nat
    /\ IsBytes(<<>>) /\ Size(<<>>) = 0
    /\ \A n \in Byte : IsBytes(U1(n)) /\ Size(U1(n)) = 1
    /\ \A n \in Half : IsBytes(U2(n)) /\ Size(U2(n)) = 2
    /\ \A n \in Nat : FitsU4(n) => IsBytes(U4(n)) /\ Size(U4(n)) = 4
<1>1. \A s : IsBytes(s) => Size(s) \in Nat
  BY DEF IsBytes, Size
<1>2. IsBytes(<<>>) /\ Size(<<>>) = 0
  BY DEF IsBytes, Size
<1> QED BY <1>1, <1>2, NumbersAreBytes DEF IsBytes, Size

LEMMA HoldsInFile ==
    ASSUME FileOK, NEW at \in Nat, NEW s, IsBytes(s), Holds(at, s)
    PROVE  at + Size(s) <= Len(file)
BY DEF Holds, Size

(* Structures of two members and more.                                     *)
LEMMA Parts2 ==
    ASSUME NEW a, NEW b, IsBytes(a), IsBytes(b)
    PROVE  /\ IsBytes(a \o b) /\ Size(a \o b) = Size(a) + Size(b)
           /\ FileOK => \A at \in Nat : Holds(at, a \o b) <=> Holds(at, a) /\ Holds(at + Size(a), b)
<1>1. a \in Seq(Byte) /\ b \in Seq(Byte)
  BY DEF IsBytes
<1>2. IsBytes(a \o b) /\ Size(a \o b) = Size(a) + Size(b)
  BY <1>1, ConcatBytes DEF IsBytes, Size
<1>3. ASSUME FileOK, NEW at \in Nat
      PROVE  Holds(at, a \o b) <=> Holds(at, a) /\ Holds(at + Size(a), b)
  BY <1>1, <1>3, HoldsConcat DEF FileOK, Size
<1> QED BY <1>2, <1>3

LEMMA Parts3 ==
    ASSUME NEW a, NEW b, NEW c, IsBytes(a), IsBytes(b), IsBytes(c)
    PROVE  /\ IsBytes(a \o b \o c) /\ Size(a \o b \o c) = Size(a) + Size(b) + Size(c)
           /\ FileOK => \A at \in Nat : Holds(at, a \o b \o c) <=>
                Holds(at, a) /\ Holds(at + Size(a), b) /\ Holds(at + Size(a) + Size(b), c)
<1>1. PICK d : d = a \o b
  OBVIOUS
<1>2. /\ IsBytes(d) /\ Size(d) = Size(a) + Size(b)
      /\ FileOK => \A at \in Nat : Holds(at, d) <=> Holds(at, a) /\ Holds(at + Size(a), b)
  BY <1>1, Parts2
<1>3. /\ IsBytes(d \o c) /\ Size(d \o c) = Size(d) + Size(c)
      /\ FileOK => \A at \in Nat : Holds(at, d \o c) <=> Holds(at, d) /\ Holds(at + Size(d), c)
  BY <1>2, Parts2
<1>4. \A at \in Nat : at + (Size(a) + Size(b)) = at + Size(a) + Size(b)
  BY Sizes
<1> QED BY <1>1, <1>2, <1>3, <1>4

LEMMA Parts4 ==
    ASSUME NEW a, NEW b, NEW c, NEW d, IsBytes(a), IsBytes(b), IsBytes(c), IsBytes(d)
    PROVE  /\ IsBytes(a \o b \o c \o d)
           /\ Size(a \o b \o c \o d) = Size(a) + Size(b) + Size(c) + Size(d)
           /\ FileOK => \A at \in Nat : Holds(at, a \o b \o c \o d) <=>
                /\ Holds(at, a) /\ Holds(at + Size(a), b) /\ Holds(at + Size(a) + Size(b), c)
                /\ Holds(at + Size(a) + Size(b) + Size(c), d)
<1>1. PICK e : e = a \o b \o c
  OBVIOUS
<1>2. /\ IsBytes(e) /\ Size(e) = Size(a) + Size(b) + Size(c)
      /\ FileOK => \A at \in Nat : Holds(at, e) <=>
            Holds(at, a) /\ Holds(at + Size(a), b) /\ Holds(at + Size(a) + Size(b), c)
  BY <1>1, Parts3
<1>3. /\ IsBytes(e \o d) /\ Size(e \o d) = Size(e) + Size(d)
      /\ FileOK => \A at \in Nat : Holds(at, e \o d) <=> Holds(at, e) /\ Holds(at + Size(e), d)
  BY <1>2, Parts2
<1>4. \A at \in Nat : at + (Size(a) + Size(b) + Size(c)) = at + Size(a) + Size(b) + Size(c)
  BY Sizes
<1> QED BY <1>1, <1>2, <1>3, <1>4

LEMMA RestFacts ==
    ASSUME NEW seqs, AreBytes(seqs)
    PROVE  /\ Len(seqs) \in Nat /\ IsStack(seqs) /\ IsBytes(Flat(seqs))
           /\ Rest(seqs, 0) = Flat(seqs) /\ Rest(seqs, Len(seqs)) = <<>>
           /\ \A i \in 0 .. Len(seqs) : IsBytes(Rest(seqs, i))
           /\ \A i \in 0 .. Len(seqs) - 1 :
                /\ IsBytes(seqs[i + 1])
                /\ Size(Rest(seqs, i)) = Size(seqs[i + 1]) + Size(Rest(seqs, i + 1))
                /\ FileOK => \A at \in Nat :
                    Holds(at, Rest(seqs, i)) <=>
                        Holds(at, seqs[i + 1]) /\ Holds(at + Size(seqs[i + 1]), Rest(seqs, i + 1))
<1>1. seqs \in Seq(Seq(Byte)) /\ IsStack(seqs)
  BY SeqIsStack DEF AreBytes
<1>2. ASSUME NEW i \in 0 .. Len(seqs) - 1, FileOK, NEW at \in Nat
      PROVE  Holds(at, Rest(seqs, i)) <=>
                Holds(at, seqs[i + 1]) /\ Holds(at + Size(seqs[i + 1]), Rest(seqs, i + 1))
  BY <1>1, <1>2, HoldsRest DEF FileOK, Size
<1> QED BY <1>1, <1>2, RestIsBytes DEF IsBytes, Size, Flat

LEMMA EachFacts ==
    ASSUME FileOK, NEW seqs, AreBytes(seqs), NEW at \in Nat, Holds(at, Flat(seqs)),
           NEW p, p[0] = at,
           \A i \in 0 .. Len(seqs) - 1 :
                p[i] \in Nat /\ Holds(p[i], seqs[i + 1]) => p[i + 1] = p[i] + Size(seqs[i + 1])
    PROVE  /\ \A i \in 0 .. Len(seqs) - 1 : p[i] \in Nat /\ Holds(p[i], seqs[i + 1])
           /\ p[Len(seqs)] = at + Size(Flat(seqs))
BY HoldsEach DEF FileOK, AreBytes, Size, Flat

(* As many items as are in the file are at most its bytes.                 *)
LEMMA BoundedCount ==
    ASSUME FileOK, NEW seqs, AreBytes(seqs), NEW at \in Nat, Holds(at, Flat(seqs)),
           \A i \in 1 .. Len(seqs) : Size(seqs[i]) >= 1
    PROVE  Bounded(Len(seqs)) = Len(seqs)
<1>1. Len(seqs) <= Size(Flat(seqs))
  BY FlattenLength DEF AreBytes, Size, Flat
<1>2. at + Size(Flat(seqs)) <= Len(file) /\ Size(Flat(seqs)) \in Nat /\ Len(seqs) \in Nat
  BY HoldsInFile, RestFacts, Sizes
<1>3. Len(file) \in Nat
  BY DEF FileOK
<1>4. Len(seqs) <= Len(file)
  BY <1>1, <1>2, <1>3
<1> QED BY <1>4 DEF Bounded

-----------------------------------------------------------------------------
(* Sequences of numbers, and exception tables.                             *)

(* The bytes of each item of a sequence.                                   *)
LEMMA WrittenItems ==
    ASSUME NEW items, IsStack(items), NEW seqs, seqs = [k \in DOMAIN items |-> seqs[k]],
           \A k \in DOMAIN items : IsBytes(seqs[k])
    PROVE  AreBytes(seqs) /\ Len(seqs) = Len(items)
<1>1. DOMAIN items = 1 .. Len(items) /\ Len(items) \in Nat
  BY DEF IsStack
<1>2. seqs = [k \in 1 .. Len(items) |-> seqs[k]]
  BY <1>1
<1>3. IsStack(seqs) /\ Len(seqs) = Len(items)
  BY <1>1, <1>2, ComputedStack
<1>4. \A k \in 1 .. Len(seqs) : seqs[k] \in Seq(Byte)
  BY <1>1, <1>3 DEF IsBytes
<1> QED BY <1>3, <1>4, SeqOfStack DEF AreBytes

HalfBytes(hs) == [k \in DOMAIN hs |-> U2(hs[k])]

LEMMA HalvesWritten ==
    ASSUME NEW hs, IsStack(hs), \A k \in 1 .. Len(hs) : hs[k] \in Half
    PROVE  /\ WriteAll(U2, hs) = Flat(HalfBytes(hs))
           /\ AreBytes(HalfBytes(hs)) /\ Len(HalfBytes(hs)) = Len(hs) /\ IsBytes(Flat(HalfBytes(hs)))
           /\ \A k \in 1 .. Len(hs) : HalfBytes(hs)[k] = U2(hs[k]) /\ Size(HalfBytes(hs)[k]) = 2
<1>1. WriteAll(U2, hs) = Flat(HalfBytes(hs))
  BY DEF WriteAll, Flat, HalfBytes
<1>2. DOMAIN hs = 1 .. Len(hs)
  BY DEF IsStack
<1>3. \A k \in 1 .. Len(hs) : HalfBytes(hs)[k] = U2(hs[k]) /\ IsBytes(U2(hs[k])) /\ Size(U2(hs[k])) = 2
  BY <1>2, Sizes DEF HalfBytes
<1>4. HalfBytes(hs) = [k \in DOMAIN hs |-> HalfBytes(hs)[k]]
  BY DEF HalfBytes
<1>5. AreBytes(HalfBytes(hs)) /\ Len(HalfBytes(hs)) = Len(hs)
  BY <1>2, <1>3, <1>4, WrittenItems
<1> QED BY <1>1, <1>3, <1>5, RestFacts

(* Halves one after the other are read as they are written.                *)
LEMMA ReadHalves ==
    ASSUME FileOK, NEW hs, IsStack(hs), \A k \in 1 .. Len(hs) : hs[k] \in Half,
           NEW at \in Nat, Holds(at, WriteAll(U2, hs))
    PROVE  HalvesAt(at, Len(hs)) = hs /\ Size(WriteAll(U2, hs)) = 2 * Len(hs)
<1> DEFINE seqs == HalfBytes(hs)
           p == [i \in 0 .. Len(hs) |-> at + 2 * i]
<1>0. Len(hs) \in Nat
  BY DEF IsStack
<1>1. /\ WriteAll(U2, hs) = Flat(seqs) /\ AreBytes(seqs) /\ Len(seqs) = Len(hs)
      /\ \A k \in 1 .. Len(hs) : seqs[k] = U2(hs[k]) /\ Size(seqs[k]) = 2
  BY HalvesWritten
<1>2. /\ \A i \in 0 .. Len(hs) - 1 : p[i] = at + 2 * i /\ p[i + 1] = p[i] + 2 /\ i + 1 \in 1 .. Len(hs)
      /\ p[0] = at /\ p[Len(hs)] = at + 2 * Len(hs)
  BY <1>0
<1>3. /\ \A i \in 0 .. Len(hs) - 1 : p[i] \in Nat /\ Holds(p[i], seqs[i + 1])
      /\ p[Len(hs)] = at + Size(Flat(seqs))
  <2> HIDE DEF seqs, p
  <2>1. \A i \in 0 .. Len(seqs) - 1 : p[i + 1] = p[i] + Size(seqs[i + 1])
    BY <1>1, <1>2
  <2>2. Holds(at, Flat(seqs))
    BY <1>1
  <2>3. /\ \A i \in 0 .. Len(seqs) - 1 : p[i] \in Nat /\ Holds(p[i], seqs[i + 1])
        /\ p[Len(seqs)] = at + Size(Flat(seqs))
    BY <1>1, <1>2, <2>1, <2>2, EachFacts
  <2> QED BY <1>1, <2>3
<1>4. ASSUME NEW k \in 1 .. Len(hs) PROVE U2At(at + 2 * (k - 1)) = hs[k]
  <2>1. k - 1 \in 0 .. Len(hs) - 1 /\ (k - 1) + 1 = k
    BY <1>0
  <2>2. p[k - 1] = at + 2 * (k - 1) /\ p[k - 1] \in Nat /\ Holds(p[k - 1], U2(hs[k]))
    <3> HIDE DEF seqs, p
    <3> QED BY <1>1, <1>2, <1>3, <2>1
  <2> QED BY <2>2, ReadU2 DEF FileOK
<1>5. Bounded(Len(hs)) = Len(hs)
  <2> HIDE DEF seqs, p
  <2>1. ASSUME NEW i \in 1 .. Len(seqs) PROVE Size(seqs[i]) >= 1
    <3>1. Size(seqs[i]) = 2
      BY <1>1
    <3> QED BY <3>1
  <2> QED BY <1>1, <2>1, BoundedCount
<1>6. HalvesAt(at, Len(hs)) = [k \in 1 .. Len(hs) |-> hs[k]]
  BY <1>4, <1>5 DEF HalvesAt
<1>7. Size(Flat(seqs)) = 2 * Len(hs)
  <2> HIDE DEF seqs, p
  <2>1. PICK x, l, e : x = Size(Flat(seqs)) /\ l = Len(hs) /\ e = p[Len(hs)]
    OBVIOUS
  <2>2. x \in Nat /\ l \in Nat
    BY <1>0, <1>1, <2>1, RestFacts, Sizes
  <2>3. e = at + 2 * l /\ e = at + x
    BY <1>2, <1>3, <2>1
  <2>4. x = 2 * l
    BY <2>2, <2>3
  <2> QED BY <2>1, <2>4
<1> QED BY <1>1, <1>6, <1>7 DEF IsStack

(* Counts.                                                                 *)
LEMMA ReadCount ==
    ASSUME FileOK, NEW n \in Half, NEW s, IsBytes(s), NEW at \in Nat, Holds(at, U2(n) \o s)
    PROVE  U2At(at) = n /\ Holds(at + 2, s) /\ Size(U2(n) \o s) = 2 + Size(s)
<1>1. IsBytes(U2(n)) /\ Size(U2(n)) = 2
  BY Sizes
<1>2. Holds(at, U2(n)) /\ Holds(at + 2, s) /\ Size(U2(n) \o s) = 2 + Size(s)
  BY <1>1, Parts2
<1> QED BY <1>2, ReadU2 DEF FileOK

-----------------------------------------------------------------------------
(* Exception tables.                                                       *)
ExceptionBytes(es) == [k \in DOMAIN es |-> WriteException(es[k])]

LEMMA ExceptionWritten ==
    ASSUME NEW e, IsException(e)
    PROVE  /\ IsBytes(WriteException(e)) /\ Size(WriteException(e)) = 8
           /\ FileOK => \A at \in Nat : Holds(at, WriteException(e)) =>
                e = [startPC |-> U2At(at), endPC |-> U2At(at + 2),
                     handlerPC |-> U2At(at + 4), catchType |-> U2At(at + 6)]
<1>0. /\ e.startPC \in Half /\ e.endPC \in Half /\ e.handlerPC \in Half /\ e.catchType \in Half
      /\ e = [startPC |-> e.startPC, endPC |-> e.endPC,
              handlerPC |-> e.handlerPC, catchType |-> e.catchType]
  BY DEF IsException
<1>1. PICK a, b, c, d : a = U2(e.startPC) /\ b = U2(e.endPC) /\ c = U2(e.handlerPC) /\ d = U2(e.catchType)
  OBVIOUS
<1>2. /\ IsBytes(a) /\ IsBytes(b) /\ IsBytes(c) /\ IsBytes(d)
      /\ Size(a) = 2 /\ Size(b) = 2 /\ Size(c) = 2 /\ Size(d) = 2
  BY <1>0, <1>1, Sizes
<1>3. WriteException(e) = a \o b \o c \o d
  BY <1>1 DEF WriteException
<1>4. IsBytes(WriteException(e)) /\ Size(WriteException(e)) = 8
  BY <1>2, <1>3, Parts4
<1>5. ASSUME FileOK, NEW at \in Nat, Holds(at, WriteException(e))
      PROVE  /\ U2At(at) = e.startPC /\ U2At(at + 2) = e.endPC
             /\ U2At(at + 4) = e.handlerPC /\ U2At(at + 6) = e.catchType
  <2>1. Holds(at, a) /\ Holds(at + 2, b) /\ Holds(at + 2 + 2, c) /\ Holds(at + 2 + 2 + 2, d)
    BY <1>2, <1>3, <1>5, Parts4
  <2>2. at + 2 + 2 = at + 4 /\ at + 2 + 2 + 2 = at + 6
    OBVIOUS
  <2> QED BY <1>0, <1>1, <1>5, <2>1, <2>2, ReadU2 DEF FileOK
<1> QED BY <1>0, <1>4, <1>5

LEMMA ExceptionsWritten ==
    ASSUME NEW es, IsStack(es), \A k \in DOMAIN es : IsException(es[k])
    PROVE  /\ WriteAll(WriteException, es) = Flat(ExceptionBytes(es))
           /\ AreBytes(ExceptionBytes(es)) /\ Len(ExceptionBytes(es)) = Len(es)
           /\ IsBytes(Flat(ExceptionBytes(es)))
           /\ \A k \in 1 .. Len(es) : ExceptionBytes(es)[k] = WriteException(es[k])
<1>1. WriteAll(WriteException, es) = Flat(ExceptionBytes(es))
  BY DEF WriteAll, Flat, ExceptionBytes
<1>2. DOMAIN es = 1 .. Len(es)
  BY DEF IsStack
<1>3. \A k \in DOMAIN es : ExceptionBytes(es)[k] = WriteException(es[k]) /\ IsBytes(ExceptionBytes(es)[k])
  BY ExceptionWritten DEF ExceptionBytes
<1>4. ExceptionBytes(es) = [k \in DOMAIN es |-> ExceptionBytes(es)[k]]
  BY DEF ExceptionBytes
<1>5. AreBytes(ExceptionBytes(es)) /\ Len(ExceptionBytes(es)) = Len(es)
  BY <1>3, <1>4, WrittenItems
<1> QED BY <1>1, <1>2, <1>3, <1>5, RestFacts

LEMMA ReadExceptions ==
    ASSUME FileOK, NEW es, IsStack(es), \A k \in DOMAIN es : IsException(es[k]),
           NEW at \in Nat, Holds(at, WriteAll(WriteException, es))
    PROVE  ExceptionsAt(at, Len(es)) = es /\ Size(WriteAll(WriteException, es)) = 8 * Len(es)
<1> DEFINE seqs == ExceptionBytes(es)
           p == [i \in 0 .. Len(es) |-> at + 8 * i]
<1>0. Len(es) \in Nat /\ DOMAIN es = 1 .. Len(es)
  BY DEF IsStack
<1>1. /\ WriteAll(WriteException, es) = Flat(seqs) /\ AreBytes(seqs) /\ Len(seqs) = Len(es)
      /\ \A k \in 1 .. Len(es) : seqs[k] = WriteException(es[k]) /\ Size(seqs[k]) = 8
  <2>1. /\ WriteAll(WriteException, es) = Flat(seqs) /\ AreBytes(seqs) /\ Len(seqs) = Len(es)
        /\ \A k \in 1 .. Len(es) : seqs[k] = WriteException(es[k])
    BY ExceptionsWritten
  <2>2. ASSUME NEW k \in 1 .. Len(es) PROVE Size(seqs[k]) = 8
    <3>1. IsException(es[k]) /\ seqs[k] = WriteException(es[k])
      BY <1>0, <2>1
    <3> HIDE DEF seqs
    <3> QED BY <3>1, ExceptionWritten
  <2> HIDE DEF seqs
  <2> QED BY <2>1, <2>2
<1>2. /\ \A i \in 0 .. Len(es) - 1 : p[i] = at + 8 * i /\ p[i + 1] = p[i] + 8 /\ i + 1 \in 1 .. Len(es)
      /\ p[0] = at /\ p[Len(es)] = at + 8 * Len(es)
  BY <1>0
<1>3. /\ \A i \in 0 .. Len(es) - 1 : p[i] \in Nat /\ Holds(p[i], seqs[i + 1])
      /\ p[Len(es)] = at + Size(Flat(seqs))
  <2> HIDE DEF seqs, p
  <2>1. \A i \in 0 .. Len(seqs) - 1 : p[i + 1] = p[i] + Size(seqs[i + 1])
    BY <1>1, <1>2
  <2>2. Holds(at, Flat(seqs))
    BY <1>1
  <2>3. /\ \A i \in 0 .. Len(seqs) - 1 : p[i] \in Nat /\ Holds(p[i], seqs[i + 1])
        /\ p[Len(seqs)] = at + Size(Flat(seqs))
    BY <1>1, <1>2, <2>1, <2>2, EachFacts
  <2> QED BY <1>1, <2>3
<1>4. Bounded(Len(es)) = Len(es) /\ (Bounded(4) = 4 \/ Len(es) = 0)
  <2> HIDE DEF seqs, p
  <2>1. ASSUME NEW i \in 1 .. Len(seqs) PROVE Size(seqs[i]) >= 1
    <3>1. Size(seqs[i]) = 8
      BY <1>1
    <3> QED BY <3>1
  <2>2. Bounded(Len(es)) = Len(es)
    BY <1>1, <2>1, BoundedCount
  <2>3. Len(es) # 0 => Bounded(4) = 4
    <3> SUFFICES ASSUME Len(es) # 0 PROVE Bounded(4) = 4
      OBVIOUS
    <3>1. 0 \in 0 .. Len(es) - 1 /\ 0 + 1 = 1
      BY <1>0
    <3>2. Holds(at, seqs[1]) /\ Size(seqs[1]) = 8 /\ IsBytes(seqs[1])
      BY <1>0, <1>1, <1>2, <1>3, <3>1, ExceptionWritten
    <3>3. at + 8 <= Len(file) /\ Len(file) \in Nat
      BY <3>2, HoldsInFile DEF FileOK
    <3> QED BY <3>3 DEF Bounded
  <2> QED BY <2>2, <2>3
<1>5. ASSUME NEW k \in 1 .. Len(es)
      PROVE  LET entry == HalvesAt(at + 8 * (k - 1), 4)
             IN  [startPC |-> entry[1], endPC |-> entry[2],
                  handlerPC |-> entry[3], catchType |-> entry[4]] = es[k]
  <2>1. k - 1 \in 0 .. Len(es) - 1 /\ (k - 1) + 1 = k
    BY <1>0
  <2>2. p[k - 1] = at + 8 * (k - 1) /\ p[k - 1] \in Nat /\ Holds(p[k - 1], WriteException(es[k]))
    <3> HIDE DEF seqs, p
    <3> QED BY <1>1, <1>2, <1>3, <2>1
  <2>3. PICK here \in Nat : here = at + 8 * (k - 1)
    BY <2>2
  <2>4. es[k] = [startPC |-> U2At(here), endPC |-> U2At(here + 2),
                 handlerPC |-> U2At(here + 4), catchType |-> U2At(here + 6)]
    <3>1. Holds(here, WriteException(es[k])) /\ IsException(es[k])
      BY <1>0, <2>2, <2>3
    <3> QED BY <3>1, ExceptionWritten
  <2>5. Bounded(4) = 4
    BY <1>0, <1>4
  <2>6. /\ HalvesAt(here, 4)[1] = U2At(here + 2 * (1 - 1))
        /\ HalvesAt(here, 4)[2] = U2At(here + 2 * (2 - 1))
        /\ HalvesAt(here, 4)[3] = U2At(here + 2 * (3 - 1))
        /\ HalvesAt(here, 4)[4] = U2At(here + 2 * (4 - 1))
    BY <2>5 DEF HalvesAt
  <2>7. /\ here + 2 * (1 - 1) = here /\ here + 2 * (2 - 1) = here + 2
        /\ here + 2 * (3 - 1) = here + 4 /\ here + 2 * (4 - 1) = here + 6
    OBVIOUS
  <2> QED BY <2>3, <2>4, <2>6, <2>7
<1>6. ExceptionsAt(at, Len(es)) = [k \in 1 .. Len(es) |-> es[k]]
  <2>1. Bounded(Len(es)) = Len(es)
    BY <1>0, <1>4 DEF Bounded
  <2> QED BY <1>5, <2>1 DEF ExceptionsAt
<1>7. Size(Flat(seqs)) = 8 * Len(es)
  <2> HIDE DEF seqs, p
  <2>1. Size(Flat(seqs)) \in Nat
    BY <1>1, RestFacts, Sizes
  <2>2. at + 8 * Len(es) = at + Size(Flat(seqs))
    BY <1>2, <1>3
  <2>3. PICK x \in Nat, y \in Nat : x = Size(Flat(seqs)) /\ y = Len(es)
    BY <1>0, <2>1
  <2>4. at + 8 * y = at + x /\ x \in Nat /\ y \in Nat
    BY <2>2, <2>3
  <2>5. x = 8 * y
    BY <2>4
  <2> QED BY <2>3, <2>5
<1> QED BY <1>1, <1>6, <1>7 DEF IsStack

-----------------------------------------------------------------------------
(* Verification types.                                                     *)

(* Places one after the other, each some width after the one before.       *)
ArePlaces(p, at, W, n) == p = [k \in 0 .. n |-> IF k = 0 THEN at ELSE p[k - 1] + W[p[k - 1]]]

LEMMA PlacesExist ==
    ASSUME NEW at, NEW n \in Nat, NEW W
    PROVE  \E p : ArePlaces(p, at, W, n)
<1> DEFINE Is(p, m) == p = [k \in 0 .. m |-> IF k = 0 THEN at ELSE p[k - 1] + W[p[k - 1]]]
           N == {m \in Nat : \E p : Is(p, m)}
<1>1. 0 \in N
  <2>1. Is([k \in 0 .. 0 |-> at], 0)
    OBVIOUS
  <2> QED BY <2>1
<1>2. ASSUME NEW m \in Nat, m \in N PROVE m + 1 \in N
  <2>1. PICK p : Is(p, m)
    BY <1>2
  <2> DEFINE g == [k \in 0 .. m + 1 |-> IF k = m + 1 THEN p[m] + W[p[m]] ELSE p[k]]
  <2>2. ASSUME NEW k \in 0 .. m + 1
        PROVE  g[k] = IF k = 0 THEN at ELSE g[k - 1] + W[g[k - 1]]
    <3>1. CASE k = m + 1
      <4>1. k # 0 /\ k - 1 = m /\ m \in 0 .. m + 1 /\ m # m + 1
        BY <3>1
      <4>2. g[k] = p[m] + W[p[m]] /\ g[m] = p[m]
        BY <3>1, <4>1
      <4> QED BY <4>1, <4>2
    <3>2. CASE k # m + 1
      <4>1. k \in 0 .. m /\ (k # 0 => k - 1 \in 0 .. m /\ k - 1 # m + 1 /\ k - 1 \in 0 .. m + 1)
        BY <3>2
      <4>2. g[k] = p[k] /\ (k # 0 => g[k - 1] = p[k - 1])
        BY <3>2, <4>1
      <4>3. p[k] = IF k = 0 THEN at ELSE p[k - 1] + W[p[k - 1]]
        BY <2>1, <4>1
      <4> QED BY <4>2, <4>3
    <3> QED BY <3>1, <3>2
  <2>3. Is(g, m + 1)
    BY <2>2
  <2>4. m + 1 \in Nat /\ \E q : Is(q, m + 1)
    <3> HIDE DEF Is, g
    <3> QED BY <2>3
  <2> HIDE DEF Is
  <2> QED BY <2>4
<1>3. n \in N
  <2> HIDE DEF N
  <2> QED BY <1>1, <1>2, Induction
<1> QED BY <1>3 DEF ArePlaces

LEMMA Places ==
    ASSUME NEW at \in Nat, NEW n \in Nat
    PROVE  /\ VerificationsFrom(at, n)[0] = at
           /\ \A k \in 0 .. n - 1 : VerificationsFrom(at, n)[k + 1] =
                VerificationsFrom(at, n)[k] + VerificationWidth(VerificationsFrom(at, n)[k])
           /\ \A k \in 0 .. n : VerificationsFrom(at, n)[k] \in Nat /\ VerificationsFrom(at, n)[k] >= at
<1>W. PICK W : W = [x \in Nat |-> VerificationWidth(x)]
  OBVIOUS
<1> DEFINE Is(p) == p = [k \in 0 .. n |-> IF k = 0 THEN at
                                          ELSE p[k - 1] + VerificationWidth(p[k - 1])]
           place == VerificationsFrom(at, n)
<1>w. \A x : VerificationWidth(x) \in {1, 3}
  BY DEF VerificationWidth
<1>0. PICK p : ArePlaces(p, at, W, n)
  BY PlacesExist
<1>1. p = [k \in 0 .. n |-> IF k = 0 THEN at ELSE p[k - 1] + W[p[k - 1]]]
  BY <1>0 DEF ArePlaces
<1>2. \A k \in 0 .. n : p[k] \in Nat
  <2> DEFINE N == {k \in Nat : k <= n => p[k] \in Nat}
  <2>1. 0 \in N
    BY <1>1
  <2>2. ASSUME NEW k \in Nat, k \in N PROVE k + 1 \in N
    <3> SUFFICES ASSUME k + 1 <= n PROVE p[k + 1] \in Nat
      OBVIOUS
    <3>1. k + 1 \in 0 .. n /\ k + 1 # 0 /\ (k + 1) - 1 = k /\ p[k] \in Nat
      BY <2>2
    <3>2. p[k + 1] = p[k] + W[p[k]]
      BY <1>1, <3>1
    <3>3. W[p[k]] \in {1, 3}
      BY <1>W, <1>w, <3>1
    <3> QED BY <3>1, <3>2, <3>3
  <2>3. \A k \in Nat : k \in N
    <3> HIDE DEF N
    <3> QED BY <2>1, <2>2, Induction
  <2> QED BY <2>3
<1>3. Is(p)
  <2>1. \A k \in 0 .. n : k # 0 => k - 1 \in 0 .. n
    OBVIOUS
  <2>2. \A k \in 0 .. n : k # 0 => W[p[k - 1]] = VerificationWidth(p[k - 1])
    BY <1>2, <1>W, <2>1
  <2> QED BY <1>1, <2>2
<1>4. Is(place)
  <2>1. place = CHOOSE f : Is(f)
    BY DEF VerificationsFrom
  <2> HIDE DEF Is, place
  <2> QED BY <1>3, <2>1
<1>5. place[0] = at
  BY <1>4
<1>6. ASSUME NEW k \in 0 .. n - 1 PROVE place[k + 1] = place[k] + VerificationWidth(place[k])
  <2>1. k + 1 \in 0 .. n /\ k + 1 # 0 /\ (k + 1) - 1 = k
    OBVIOUS
  <2> HIDE DEF place
  <2> QED BY <1>4, <2>1
<1>7. \A k \in 0 .. n : place[k] \in Nat /\ place[k] >= at
  <2> DEFINE N == {k \in Nat : k <= n => place[k] \in Nat /\ place[k] >= at}
  <2> HIDE DEF place
  <2>1. 0 \in N
    BY <1>5
  <2>2. ASSUME NEW k \in Nat, k \in N PROVE k + 1 \in N
    <3> SUFFICES ASSUME k + 1 <= n PROVE place[k + 1] \in Nat /\ place[k + 1] >= at
      OBVIOUS
    <3>1. k \in 0 .. n - 1 /\ place[k] \in Nat /\ place[k] >= at
      BY <2>2
    <3>2. place[k + 1] = place[k] + VerificationWidth(place[k])
      BY <1>6, <3>1
    <3>3. VerificationWidth(place[k]) \in {1, 3}
      BY <1>w
    <3> QED BY <3>1, <3>2, <3>3
  <2>3. \A k \in Nat : k \in N
    <3> HIDE DEF N
    <3> QED BY <2>1, <2>2, Induction
  <2> QED BY <2>3
<1> QED BY <1>5, <1>6, <1>7

LEMMA VerificationsEnd ==
    ASSUME FileOK, NEW at \in Nat, NEW n \in Nat
    PROVE  VerificationsAt(at, n)[1] \in Nat /\ VerificationsAt(at, n)[1] >= at
<1>1. Bounded(n) \in Nat
  BY DEF Bounded, FileOK
<1> QED BY <1>1, Places DEF VerificationsAt

-----------------------------------------------------------------------------
VerificationBytes(vs) == [k \in DOMAIN vs |-> WriteVerification(vs[k])]

LEMMA VerificationWritten ==
    ASSUME NEW v, IsVerification(v)
    PROVE  /\ IsBytes(WriteVerification(v)) /\ Size(WriteVerification(v)) >= 1
           /\ FileOK => \A at \in Nat : Holds(at, WriteVerification(v)) =>
                VerificationAt(at) = v /\ VerificationWidth(at) = Size(WriteVerification(v))
<1>1. CASE v = <<v[1]>> /\ v[1] \in Byte \ {7, 8}
  <2>0. PICK w \in Byte : w = v[1] /\ w \notin {7, 8} /\ v = <<w>>
    BY <1>1
  <2>1. IsBytes(U1(w)) /\ Size(U1(w)) = 1 /\ IsBytes(<<>>) /\ Size(<<>>) = 0
    BY Sizes
  <2>2. WriteVerification(v) = U1(w) \o <<>>
    BY <2>0 DEF WriteVerification
  <2>3. IsBytes(U1(w) \o <<>>) /\ Size(U1(w) \o <<>>) = 1
    BY <2>1, Parts2
  <2>4. ASSUME FileOK, NEW at \in Nat, Holds(at, U1(w) \o <<>>)
        PROVE  VerificationAt(at) = v /\ VerificationWidth(at) = 1
    <3>1. Holds(at, U1(w))
      BY <2>1, <2>4, Parts2
    <3>2. ByteAt(at) = w
      BY <2>4, <3>1, ReadU1 DEF FileOK
    <3> QED BY <2>0, <3>2 DEF VerificationAt, VerificationWidth
  <2> QED BY <2>2, <2>3, <2>4
<1>2. CASE v = <<v[1], v[2]>> /\ v[1] \in {7, 8} /\ v[2] \in Half
  <2>0. PICK w, x : w = v[1] /\ w \in {7, 8} /\ v = <<w, x>> /\ x = v[2] /\ x \in Half
    BY <1>2
  <2>a. w \in Byte
    BY <2>0 DEF Byte
  <2>1. IsBytes(U1(w)) /\ Size(U1(w)) = 1 /\ IsBytes(U2(x)) /\ Size(U2(x)) = 2
    BY <2>0, <2>a, Sizes
  <2>2. WriteVerification(v) = U1(w) \o U2(x)
    BY <2>0 DEF WriteVerification
  <2>3. IsBytes(U1(w) \o U2(x)) /\ Size(U1(w) \o U2(x)) = 3
    BY <2>1, Parts2
  <2>4. ASSUME FileOK, NEW at \in Nat, Holds(at, U1(w) \o U2(x))
        PROVE  VerificationAt(at) = v /\ VerificationWidth(at) = 3
    <3>1. Holds(at, U1(w)) /\ Holds(at + 1, U2(x))
      BY <2>1, <2>4, Parts2
    <3>2. ByteAt(at) = w /\ U2At(at + 1) = x
      BY <2>0, <2>4, <2>a, <3>1, ReadU1, ReadU2 DEF FileOK
    <3> QED BY <2>0, <3>2 DEF VerificationAt, VerificationWidth
  <2> QED BY <2>2, <2>3, <2>4
<1> QED BY <1>1, <1>2 DEF IsVerification

LEMMA VerificationsWritten ==
    ASSUME NEW vs, AreVerifications(vs)
    PROVE  /\ WriteAll(WriteVerification, vs) = Flat(VerificationBytes(vs))
           /\ AreBytes(VerificationBytes(vs)) /\ Len(VerificationBytes(vs)) = Len(vs)
           /\ IsBytes(WriteAll(WriteVerification, vs))
           /\ \A k \in 1 .. Len(vs) : /\ VerificationBytes(vs)[k] = WriteVerification(vs[k])
                                      /\ IsVerification(vs[k])
           /\ IsStack(vs) /\ Len(vs) \in Half
<1>0. IsStack(vs) /\ Len(vs) \in Half
  BY DEF AreVerifications, IsTable, IsStack, Half
<1>1. WriteAll(WriteVerification, vs) = Flat(VerificationBytes(vs))
  BY DEF WriteAll, Flat, VerificationBytes
<1>2. DOMAIN vs = 1 .. Len(vs)
  BY <1>0 DEF IsStack
<1>3. \A k \in DOMAIN vs : /\ VerificationBytes(vs)[k] = WriteVerification(vs[k])
                           /\ IsBytes(VerificationBytes(vs)[k]) /\ IsVerification(vs[k])
  BY VerificationWritten DEF VerificationBytes, AreVerifications
<1>4. VerificationBytes(vs) = [k \in DOMAIN vs |-> VerificationBytes(vs)[k]]
  BY DEF VerificationBytes
<1>5. AreBytes(VerificationBytes(vs)) /\ Len(VerificationBytes(vs)) = Len(vs)
  BY <1>0, <1>3, <1>4, WrittenItems
<1> QED BY <1>0, <1>1, <1>2, <1>3, <1>5, RestFacts

LEMMA ReadVerifications ==
    ASSUME FileOK, NEW vs, AreVerifications(vs),
           NEW at \in Nat, Holds(at, WriteAll(WriteVerification, vs))
    PROVE  VerificationsAt(at, Len(vs)) = <<at + Size(WriteAll(WriteVerification, vs)), vs>>
<1> DEFINE seqs == VerificationBytes(vs)
<1>0. Len(vs) \in Nat /\ vs = [k \in 1 .. Len(vs) |-> vs[k]]
  BY VerificationsWritten DEF IsStack
<1>n. PICK n \in Nat : n = Len(vs)
  BY <1>0
<1>1. /\ WriteAll(WriteVerification, vs) = Flat(seqs) /\ AreBytes(seqs) /\ Len(seqs) = n
      /\ \A k \in 1 .. n : seqs[k] = WriteVerification(vs[k]) /\ IsVerification(vs[k])
  BY <1>n, VerificationsWritten
<1>p. PICK p : p = VerificationsFrom(at, n)
  OBVIOUS
<1>2. /\ p[0] = at /\ \A k \in 0 .. n : p[k] \in Nat
      /\ \A k \in 0 .. n - 1 : p[k + 1] = p[k] + VerificationWidth(p[k])
  BY <1>p, Places
<1> HIDE DEF seqs
<1>3. /\ \A i \in 0 .. n - 1 : p[i] \in Nat /\ Holds(p[i], seqs[i + 1])
      /\ p[n] = at + Size(Flat(seqs))
  <2>1. ASSUME NEW i \in 0 .. n - 1, p[i] \in Nat, Holds(p[i], seqs[i + 1])
        PROVE  p[i + 1] = p[i] + Size(seqs[i + 1])
    <3>1. i + 1 \in 1 .. n
      OBVIOUS
    <3>2. IsVerification(vs[i + 1]) /\ seqs[i + 1] = WriteVerification(vs[i + 1])
      BY <1>1, <3>1
    <3>3. VerificationWidth(p[i]) = Size(seqs[i + 1])
      BY <2>1, <3>2, VerificationWritten
    <3> QED BY <1>2, <3>3
  <2>2. Holds(at, Flat(seqs))
    BY <1>1
  <2> QED BY <1>1, <1>2, <2>1, <2>2, EachFacts
<1>4. Bounded(n) = n
  <2>1. ASSUME NEW i \in 1 .. Len(seqs) PROVE Size(seqs[i]) >= 1
    BY <1>1, VerificationWritten
  <2>2. Holds(at, Flat(seqs))
    BY <1>1
  <2> QED BY <1>1, <2>1, <2>2, BoundedCount
<1>5. ASSUME NEW k \in 1 .. n PROVE VerificationAt(p[k - 1]) = vs[k]
  <2>1. k - 1 \in 0 .. n - 1 /\ (k - 1) + 1 = k
    OBVIOUS
  <2>2. p[k - 1] \in Nat /\ Holds(p[k - 1], WriteVerification(vs[k])) /\ IsVerification(vs[k])
    BY <1>1, <1>3, <2>1
  <2> QED BY <2>2, VerificationWritten
<1>6. [k \in 1 .. n |-> VerificationAt(p[k - 1])] = vs
  BY <1>0, <1>n, <1>5
<1>7. VerificationsAt(at, n) = <<p[n], [k \in 1 .. n |-> VerificationAt(p[k - 1])]>>
  BY <1>p, <1>4 DEF VerificationsAt
<1> QED BY <1>1, <1>3, <1>6, <1>7, <1>n

-----------------------------------------------------------------------------
(* Stack map frames.                                                       *)

LEMMA Parts6 ==
    ASSUME NEW a, NEW b, NEW c, NEW d, NEW e, NEW f,
           IsBytes(a), IsBytes(b), IsBytes(c), IsBytes(d), IsBytes(e), IsBytes(f)
    PROVE  /\ IsBytes(a \o b \o c \o d \o e \o f)
           /\ Size(a \o b \o c \o d \o e \o f) =
                Size(a) + Size(b) + Size(c) + Size(d) + Size(e) + Size(f)
           /\ FileOK => \A at \in Nat : Holds(at, a \o b \o c \o d \o e \o f) <=>
                /\ Holds(at, a) /\ Holds(at + Size(a), b) /\ Holds(at + Size(a) + Size(b), c)
                /\ Holds(at + Size(a) + Size(b) + Size(c), d)
                /\ Holds(at + Size(a) + Size(b) + Size(c) + Size(d), e)
                /\ Holds(at + Size(a) + Size(b) + Size(c) + Size(d) + Size(e), f)
<1>1. PICK g : g = a \o b \o c \o d
  OBVIOUS
<1>2. /\ IsBytes(g) /\ Size(g) = Size(a) + Size(b) + Size(c) + Size(d)
      /\ FileOK => \A at \in Nat : Holds(at, g) <=>
                /\ Holds(at, a) /\ Holds(at + Size(a), b) /\ Holds(at + Size(a) + Size(b), c)
                /\ Holds(at + Size(a) + Size(b) + Size(c), d)
  BY <1>1, Parts4
<1>3. /\ IsBytes(g \o e \o f) /\ Size(g \o e \o f) = Size(g) + Size(e) + Size(f)
      /\ FileOK => \A at \in Nat : Holds(at, g \o e \o f) <=>
            Holds(at, g) /\ Holds(at + Size(g), e) /\ Holds(at + Size(g) + Size(e), f)
  BY <1>2, Parts3
<1>4. \A at \in Nat : at + (Size(a) + Size(b) + Size(c) + Size(d)) =
                        at + Size(a) + Size(b) + Size(c) + Size(d)
  BY Sizes
<1> QED BY <1>1, <1>2, <1>3, <1>4

LEMMA NoVerifications ==
    ASSUME NEW vs, AreVerifications(vs), Len(vs) = 0
    PROVE  vs = <<>> /\ Size(WriteAll(WriteVerification, vs)) = 0
<1>1. PICK seqs : /\ WriteAll(WriteVerification, vs) = Flat(seqs) /\ AreBytes(seqs) /\ Len(seqs) = 0
  BY VerificationsWritten
<1>2. Flat(seqs) = <<>>
  BY <1>1, RestFacts
<1>3. IsStack(vs)
  BY VerificationsWritten
<1> QED BY <1>1, <1>2, <1>3, EmptyStack, Sizes

LEMMA SameFrame ==
    ASSUME NEW at, NEW tag \in Nat, ByteAt(at) = tag, tag < 64
    PROVE  FrameAt(at) = <<at + 1, ParsedFrame("Same", <<>>, <<>>, <<>>)>>
<1>1. /\ tag < 64 /\ ~(tag >= 64 /\ tag < 128) /\ ~(tag = 247) /\ ~(tag >= 248 /\ tag < 251)
      /\ ~(tag = 251) /\ ~(tag >= 252 /\ tag < 255) /\ ~(tag = 255)
      /\ ~(tag >= 128 /\ tag < 247)
  OBVIOUS
<1> QED BY <1>1 DEF FrameAt

LEMMA SameLocalsFrame ==
    ASSUME NEW at, NEW tag \in Nat, ByteAt(at) = tag, tag >= 64, tag < 128
    PROVE  FrameAt(at) = <<VerificationsAt(at + 1, 1)[1],
                           ParsedFrame("SameLocals", <<>>, <<>>, VerificationsAt(at + 1, 1)[2])>>
<1>1. /\ ~(tag < 64) /\ (tag >= 64 /\ tag < 128) /\ ~(tag = 247) /\ ~(tag >= 248 /\ tag < 251)
      /\ ~(tag = 251) /\ ~(tag >= 252 /\ tag < 255) /\ ~(tag = 255)
      /\ ~(tag >= 128 /\ tag < 247)
  OBVIOUS
<1> QED BY <1>1 DEF FrameAt

LEMMA SameLocalsExtendedFrame ==
    ASSUME NEW at, NEW tag \in Nat, ByteAt(at) = tag, tag = 247
    PROVE  FrameAt(at) = <<VerificationsAt(at + 1, 1)[1],
                           ParsedFrame("SameLocalsExtended", <<>>, <<>>,
                                       VerificationsAt(at + 1, 1)[2])>>
<1>1. /\ ~(tag < 64) /\ ~(tag >= 64 /\ tag < 128) /\ tag = 247 /\ ~(tag >= 248 /\ tag < 251)
      /\ ~(tag = 251) /\ ~(tag >= 252 /\ tag < 255) /\ ~(tag = 255)
      /\ ~(tag >= 128 /\ tag < 247)
  OBVIOUS
<1> QED BY <1>1 DEF FrameAt

LEMMA ChopFrame ==
    ASSUME NEW at, NEW tag \in Nat, ByteAt(at) = tag, tag >= 248, tag < 251
    PROVE  FrameAt(at) = <<at + 3, ParsedFrame("Chop", <<U2At(at + 1)>>, <<>>, <<>>)>>
<1>1. /\ ~(tag < 64) /\ ~(tag >= 64 /\ tag < 128) /\ ~(tag = 247) /\ (tag >= 248 /\ tag < 251)
      /\ ~(tag = 251) /\ ~(tag >= 252 /\ tag < 255) /\ ~(tag = 255)
      /\ ~(tag >= 128 /\ tag < 247)
  OBVIOUS
<1> QED BY <1>1 DEF FrameAt

LEMMA SameExtendedFrame ==
    ASSUME NEW at, NEW tag \in Nat, ByteAt(at) = tag, tag = 251
    PROVE  FrameAt(at) = <<at + 3, ParsedFrame("SameExtended", <<U2At(at + 1)>>, <<>>, <<>>)>>
<1>1. /\ ~(tag < 64) /\ ~(tag >= 64 /\ tag < 128) /\ ~(tag = 247) /\ ~(tag >= 248 /\ tag < 251)
      /\ tag = 251 /\ ~(tag >= 252 /\ tag < 255) /\ ~(tag = 255)
      /\ ~(tag >= 128 /\ tag < 247)
  OBVIOUS
<1> QED BY <1>1 DEF FrameAt

LEMMA AppendFrame ==
    ASSUME NEW at, NEW tag \in Nat, ByteAt(at) = tag, tag >= 252, tag < 255
    PROVE  FrameAt(at) = <<VerificationsAt(at + 3, tag - 251)[1],
                           ParsedFrame("Append", <<U2At(at + 1)>>,
                                       VerificationsAt(at + 3, tag - 251)[2], <<>>)>>
<1>1. /\ ~(tag < 64) /\ ~(tag >= 64 /\ tag < 128) /\ ~(tag = 247) /\ ~(tag >= 248 /\ tag < 251)
      /\ ~(tag = 251) /\ (tag >= 252 /\ tag < 255) /\ ~(tag = 255)
      /\ ~(tag >= 128 /\ tag < 247)
  OBVIOUS
<1> QED BY <1>1 DEF FrameAt

LEMMA FullFrame ==
    ASSUME NEW at, NEW tag \in Nat, ByteAt(at) = tag, tag = 255,
           NEW all, all = VerificationsAt(at + 5, U2At(at + 3)),
           NEW items, items = VerificationsAt(all[1] + 2, U2At(all[1]))
    PROVE  FrameAt(at) = <<items[1], ParsedFrame("Full", <<U2At(at + 1)>>, all[2], items[2])>>
<1>1. /\ ~(tag < 64) /\ ~(tag >= 64 /\ tag < 128) /\ ~(tag = 247) /\ ~(tag >= 248 /\ tag < 251)
      /\ ~(tag = 251) /\ ~(tag >= 252 /\ tag < 255) /\ tag = 255
      /\ ~(tag >= 128 /\ tag < 247)
  OBVIOUS
<1> QED BY <1>1 DEF FrameAt

LEMMA NotCaughtFrame ==
    ASSUME NEW at, NEW tag \in Nat, ByteAt(at) = tag, tag >= 128, tag < 247
    PROVE  FrameAt(at) = <<at, ParsedFrame("NotCaught", <<>>, <<>>, <<>>)>>
<1>1. /\ ~(tag < 64) /\ ~(tag >= 64 /\ tag < 128) /\ ~(tag = 247) /\ ~(tag >= 248 /\ tag < 251)
      /\ ~(tag = 251) /\ ~(tag >= 252 /\ tag < 255) /\ ~(tag = 255)
      /\ (tag >= 128 /\ tag < 247)
  OBVIOUS
<1> QED BY <1>1 DEF FrameAt

(* Whatever the tag, a frame is bytes; and it is read as it is written.    *)
LEMMA FrameWritten ==
    ASSUME NEW f, IsFrame(f)
    PROVE  /\ IsBytes(WriteFrame(f)) /\ Size(WriteFrame(f)) >= 1
           /\ FileOK /\ f.tag # 247 => \A at \in Nat : Holds(at, WriteFrame(f)) =>
                FrameAt(at) = <<at + Size(WriteFrame(f)), KeptFrame(f)>>
<1> DEFINE locals == WriteAll(WriteVerification, f.locals)
           stack == WriteAll(WriteVerification, f.stack)
<1>0. PICK tag : tag = f.tag
  OBVIOUS
<1>1. tag \in Nat /\ tag < 256 /\ tag \in Byte /\ (tag < 128 \/ tag >= 247)
  <2>1. tag \in (0 .. 127) \cup (247 .. 255)
    BY <1>0 DEF IsFrame
  <2>2. tag \in Nat /\ tag < 256 /\ (tag < 128 \/ tag >= 247)
    BY <2>1
  <2> QED BY <2>2 DEF Byte
<1>2. /\ f.offsetDelta \in Half /\ AreVerifications(f.locals) /\ AreVerifications(f.stack)
      /\ tag # 255 => /\ Len(f.locals) = IF tag >= 252 THEN tag - 251 ELSE 0
                      /\ Len(f.stack) = IF (tag >= 64 /\ tag < 128) \/ tag = 247 THEN 1 ELSE 0
  <2>1. /\ tag # 255 => (tag \in 252 .. 254 <=> tag >= 252)
        /\ tag \in (64 .. 127) \cup {247} <=> (tag >= 64 /\ tag < 128) \/ tag = 247
    BY <1>1
  <2>2. /\ f.offsetDelta \in Half /\ AreVerifications(f.locals) /\ AreVerifications(f.stack)
        /\ tag # 255 => /\ Len(f.locals) = IF tag \in 252 .. 254 THEN tag - 251 ELSE 0
                        /\ Len(f.stack) = IF tag \in (64 .. 127) \cup {247} THEN 1 ELSE 0
    BY <1>0 DEF IsFrame
  <2>3. /\ tag # 255 => Len(f.locals) = IF tag >= 252 THEN tag - 251 ELSE 0
        /\ tag # 255 => Len(f.stack) = IF (tag >= 64 /\ tag < 128) \/ tag = 247 THEN 1 ELSE 0
    <3>1. PICK t1, t2 : t1 = Len(f.locals) /\ t2 = Len(f.stack)
      OBVIOUS
    <3> QED BY <2>1, <2>2, <3>1
  <2> QED BY <2>2, <2>3
<1>3. Len(f.locals) \in Half /\ Len(f.stack) \in Half /\ IsBytes(locals) /\ IsBytes(stack)
  BY <1>2, VerificationsWritten
<1> DEFINE offset == IF tag >= 247 THEN U2(f.offsetDelta) ELSE <<>>
           localCount == IF tag = 255 THEN U2(Len(f.locals)) ELSE <<>>
           stackCount == IF tag = 255 THEN U2(Len(f.stack)) ELSE <<>>
<1>4. /\ IsBytes(U1(tag)) /\ Size(U1(tag)) = 1
      /\ IsBytes(offset) /\ Size(offset) = IF tag >= 247 THEN 2 ELSE 0
      /\ IsBytes(localCount) /\ Size(localCount) = IF tag = 255 THEN 2 ELSE 0
      /\ IsBytes(stackCount) /\ Size(stackCount) = IF tag = 255 THEN 2 ELSE 0
  BY <1>1, <1>2, <1>3, Sizes
<1>5. WriteFrame(f) = U1(tag) \o offset \o localCount \o locals \o stackCount \o stack
  BY <1>0 DEF WriteFrame
<1> HIDE DEF offset, localCount, stackCount, locals, stack
<1>6. /\ IsBytes(WriteFrame(f))
      /\ Size(WriteFrame(f)) = 1 + Size(offset) + Size(localCount) + Size(locals)
                                 + Size(stackCount) + Size(stack)
  BY <1>3, <1>4, <1>5, Parts6
<1>7. Size(locals) \in Nat /\ Size(stack) \in Nat
  BY <1>3, Sizes
<1>8. Size(WriteFrame(f)) >= 1
  BY <1>4, <1>6, <1>7
<1>9. ASSUME FileOK, tag # 247, NEW at \in Nat, Holds(at, WriteFrame(f))
      PROVE  FrameAt(at) = <<at + Size(WriteFrame(f)), KeptFrame(f)>>
  <2>1. /\ Holds(at, U1(tag)) /\ Holds(at + 1, offset) /\ Holds(at + 1 + Size(offset), localCount)
        /\ Holds(at + 1 + Size(offset) + Size(localCount), locals)
        /\ Holds(at + 1 + Size(offset) + Size(localCount) + Size(locals), stackCount)
        /\ Holds(at + 1 + Size(offset) + Size(localCount) + Size(locals) + Size(stackCount), stack)
    BY <1>3, <1>4, <1>5, <1>9, Parts6
  <2>2. ByteAt(at) = tag
    BY <1>1, <1>9, <2>1, ReadU1 DEF FileOK
  <2>3. KeptFrame(f) = ParsedFrame(FrameType(tag), IF tag >= 247 THEN <<f.offsetDelta>> ELSE <<>>,
                                   f.locals, f.stack)
    BY <1>0 DEF KeptFrame, ParsedFrame
  <2>4. tag >= 247 => U2At(at + 1) = f.offsetDelta
    BY <1>2, <1>9, <2>1, ReadU2 DEF FileOK, offset
  <2>5. CASE tag < 64
    <3>1. FrameType(tag) = "Same"
      BY <1>1, <2>5 DEF FrameType
    <3>2. Len(f.locals) = 0 /\ Len(f.stack) = 0
      BY <1>1, <1>2, <2>5
    <3>3. f.locals = <<>> /\ f.stack = <<>> /\ Size(locals) = 0 /\ Size(stack) = 0
      BY <1>2, <3>2, NoVerifications DEF locals, stack
    <3>4. Size(WriteFrame(f)) = 1
      BY <1>1, <1>4, <1>6, <2>5, <3>3
    <3>5. FrameAt(at) = <<at + 1, ParsedFrame("Same", <<>>, <<>>, <<>>)>>
      BY <1>1, <2>2, <2>5, SameFrame
    <3> QED BY <1>1, <2>3, <2>5, <3>1, <3>3, <3>4, <3>5
  <2>6. CASE tag >= 64 /\ tag < 128
    <3>1. FrameType(tag) = "SameLocals"
      BY <1>1, <2>6 DEF FrameType
    <3>a. tag # 255 /\ ~(tag >= 252) /\ ((tag >= 64 /\ tag < 128) \/ tag = 247)
      BY <1>1, <2>6
    <3>b. tag # 255 => /\ Len(f.locals) = IF tag >= 252 THEN tag - 251 ELSE 0
                       /\ Len(f.stack) = IF (tag >= 64 /\ tag < 128) \/ tag = 247 THEN 1 ELSE 0
      BY <1>2
    <3>2. Len(f.locals) = 0 /\ Len(f.stack) = 1
      BY <3>a, <3>b
    <3>3. f.locals = <<>> /\ Size(locals) = 0
      BY <1>2, <3>2, NoVerifications DEF locals
    <3>4. Size(WriteFrame(f)) = 1 + Size(stack)
      BY <1>1, <1>4, <1>6, <1>7, <2>6, <3>3
    <3>5. Size(offset) = 0 /\ Size(localCount) = 0 /\ Size(stackCount) = 0
      BY <1>1, <1>4, <2>6
    <3>6. Holds(at + 1, stack)
      BY <2>1, <3>3, <3>5
    <3>7. VerificationsAt(at + 1, 1) = <<at + 1 + Size(stack), f.stack>>
      <4>1. Holds(at + 1, WriteAll(WriteVerification, f.stack)) /\ at + 1 \in Nat
        BY <3>6 DEF stack
      <4> QED BY <1>2, <1>9, <3>2, <4>1, ReadVerifications DEF stack
    <3>8. FrameAt(at) = <<at + 1 + Size(stack), ParsedFrame("SameLocals", <<>>, <<>>, f.stack)>>
      <4>1. FrameAt(at) = <<VerificationsAt(at + 1, 1)[1],
                            ParsedFrame("SameLocals", <<>>, <<>>, VerificationsAt(at + 1, 1)[2])>>
        BY <1>1, <2>2, <2>6, SameLocalsFrame
      <4> QED BY <3>7, <4>1
    <3> QED BY <1>1, <1>7, <2>3, <2>6, <3>1, <3>3, <3>4, <3>8
  <2>7. CASE tag >= 248 /\ tag < 252
    <3>1. FrameType(tag) = IF tag = 251 THEN "SameExtended" ELSE "Chop"
      BY <1>1, <2>7 DEF FrameType
    <3>2. Len(f.locals) = 0 /\ Len(f.stack) = 0
      BY <1>1, <1>2, <2>7
    <3>3. f.locals = <<>> /\ f.stack = <<>> /\ Size(locals) = 0 /\ Size(stack) = 0
      BY <1>2, <3>2, NoVerifications DEF locals, stack
    <3>4. Size(WriteFrame(f)) = 3
      BY <1>1, <1>4, <1>6, <2>7, <3>3
    <3>5. FrameAt(at) = <<at + 3, ParsedFrame(FrameType(tag), <<f.offsetDelta>>, <<>>, <<>>)>>
      <4>1. CASE tag = 251
        BY <1>1, <2>2, <2>4, <3>1, <4>1, SameExtendedFrame
      <4>2. CASE tag < 251
        <5>1. FrameAt(at) = <<at + 3, ParsedFrame("Chop", <<U2At(at + 1)>>, <<>>, <<>>)>>
          BY <1>1, <2>2, <2>7, <4>2, ChopFrame
        <5>2. FrameType(tag) = "Chop" /\ U2At(at + 1) = f.offsetDelta
          BY <1>1, <2>4, <2>7, <3>1, <4>2
        <5> QED BY <5>1, <5>2
      <4> QED BY <1>1, <2>7, <4>1, <4>2
    <3> QED BY <1>1, <2>3, <2>7, <3>3, <3>4, <3>5
  <2>8. CASE tag >= 252 /\ tag < 255
    <3>1. FrameType(tag) = "Append"
      BY <1>1, <2>8 DEF FrameType
    <3>2. Len(f.locals) = tag - 251 /\ Len(f.stack) = 0
      BY <1>1, <1>2, <2>8
    <3>3. f.stack = <<>> /\ Size(stack) = 0
      BY <1>2, <3>2, NoVerifications DEF stack
    <3>4. Size(WriteFrame(f)) = 3 + Size(locals)
      BY <1>1, <1>4, <1>6, <1>7, <2>8, <3>3
    <3>5. Size(offset) = 2 /\ Size(localCount) = 0
      BY <1>1, <1>4, <2>8
    <3>6. Holds(at + 3, locals)
      BY <2>1, <3>5
    <3>7. VerificationsAt(at + 3, tag - 251) = <<at + 3 + Size(locals), f.locals>>
      BY <1>2, <1>9, <3>2, <3>6, ReadVerifications DEF locals
    <3>8. FrameAt(at) = <<at + 3 + Size(locals),
                          ParsedFrame("Append", <<f.offsetDelta>>, f.locals, <<>>)>>
      <4>1. FrameAt(at) = <<VerificationsAt(at + 3, tag - 251)[1],
                            ParsedFrame("Append", <<U2At(at + 1)>>,
                                        VerificationsAt(at + 3, tag - 251)[2], <<>>)>>
        BY <1>1, <2>2, <2>8, AppendFrame
      <4>2. U2At(at + 1) = f.offsetDelta
        BY <1>1, <2>4, <2>8
      <4> QED BY <3>7, <4>1, <4>2
    <3> QED BY <1>1, <1>7, <2>3, <2>8, <3>1, <3>3, <3>4, <3>8
  <2>9. CASE tag = 255
    <3>1. FrameType(tag) = "Full"
      BY <2>9 DEF FrameType
    <3>2. Size(offset) = 2 /\ Size(localCount) = 2 /\ Size(stackCount) = 2
      BY <1>4, <2>9
    <3>3. Size(WriteFrame(f)) = 7 + Size(locals) + Size(stack)
      BY <1>6, <1>7, <3>2
    <3>4. PICK x \in Nat, y \in Nat : x = Size(locals) /\ y = Size(stack)
      BY <1>7
    <3>5. Holds(at + 3, localCount) /\ Holds(at + 5, locals) /\ Holds(at + 5 + x, stackCount)
          /\ Holds(at + 5 + x + 2, stack)
      BY <2>1, <3>2, <3>4
    <3>6. U2At(at + 3) = Len(f.locals) /\ U2At(at + 5 + x) = Len(f.stack)
      BY <1>3, <1>9, <2>9, <3>5, ReadU2 DEF FileOK, localCount, stackCount
    <3>7. VerificationsAt(at + 5, Len(f.locals)) = <<at + 5 + x, f.locals>>
      BY <1>2, <1>9, <3>4, <3>5, ReadVerifications DEF locals
    <3>8. VerificationsAt(at + 5 + x + 2, Len(f.stack)) = <<at + 5 + x + 2 + y, f.stack>>
      BY <1>2, <1>9, <3>4, <3>5, ReadVerifications DEF stack
    <3>9. FrameAt(at) = <<at + 5 + x + 2 + y,
                          ParsedFrame("Full", <<f.offsetDelta>>, f.locals, f.stack)>>
      <4>1. PICK all, items : /\ all = VerificationsAt(at + 5, U2At(at + 3))
                              /\ items = VerificationsAt(all[1] + 2, U2At(all[1]))
        OBVIOUS
      <4>2. FrameAt(at) = <<items[1], ParsedFrame("Full", <<U2At(at + 1)>>, all[2], items[2])>>
        BY <1>1, <2>2, <2>9, <4>1, FullFrame
      <4>3. all = <<at + 5 + x, f.locals>>
        BY <3>6, <3>7, <4>1
      <4>4. items = <<at + 5 + x + 2 + y, f.stack>>
        BY <3>6, <3>8, <4>1, <4>3
      <4>5. U2At(at + 1) = f.offsetDelta
        BY <2>4, <2>9
      <4> QED BY <4>2, <4>3, <4>4, <4>5
    <3>10. at + 5 + x + 2 + y = at + (7 + x + y)
      OBVIOUS
    <3> QED BY <2>3, <2>9, <3>1, <3>3, <3>4, <3>9, <3>10
  <2>10. \/ tag < 64 \/ (tag >= 64 /\ tag < 128) \/ (tag >= 248 /\ tag < 252)
         \/ (tag >= 252 /\ tag < 255) \/ tag = 255
    BY <1>1, <1>9
  <2> QED BY <2>5, <2>6, <2>7, <2>8, <2>9, <2>10
<1> QED BY <1>0, <1>6, <1>8, <1>9

-----------------------------------------------------------------------------
(* Constants.                                                              *)

(* The kinds of constants have tags of their own.                          *)
LEMMA KindsNamed ==
    Kinds = {"Class", "FieldRef", "MethodRef", "InterfaceMethodRef", "String",
             "Integer", "Float", "Long", "Double",
             "NameAndType", "Utf8", "MethodHandle", "MethodType", "InvokeDynamic"}
BY DEF Kinds, IndexConstants, NumberConstants, OtherConstants

LEMMA IndexConstantsNamed ==
    DOMAIN IndexConstants = {"Class", "FieldRef", "MethodRef", "InterfaceMethodRef", "String"}
BY DEF IndexConstants

LEMMA NumberConstantsNamed == DOMAIN NumberConstants = {"Integer", "Float", "Long", "Double"}
BY DEF NumberConstants

LEMMA OtherConstantsNamed ==
    DOMAIN OtherConstants = {"NameAndType", "Utf8", "MethodHandle", "MethodType", "InvokeDynamic"}
BY DEF OtherConstants

LEMMA CPInfos ==
    /\ CPInfo("Class") = Layout(7, 1) /\ CPInfo("FieldRef") = Layout(9, 2)
    /\ CPInfo("MethodRef") = Layout(10, 2) /\ CPInfo("InterfaceMethodRef") = Layout(11, 2)
    /\ CPInfo("String") = Layout(8, 1) /\ CPInfo("Integer") = Layout(3, 2)
    /\ CPInfo("Float") = Layout(4, 2) /\ CPInfo("Long") = Layout(5, 4)
    /\ CPInfo("Double") = Layout(6, 4) /\ CPInfo("NameAndType") = Layout(12, 2)
    /\ CPInfo("Utf8") = Layout(1, 0) /\ CPInfo("MethodHandle") = Layout(15, 0)
    /\ CPInfo("MethodType") = Layout(16, 1) /\ CPInfo("InvokeDynamic") = Layout(18, 2)
<1>1. ASSUME NEW k \in DOMAIN IndexConstants PROVE CPInfo(k) = IndexConstants[k]
  BY IndexConstantsNamed, NumberConstantsNamed, OtherConstantsNamed DEF CPInfo
<1>2. ASSUME NEW k \in DOMAIN NumberConstants PROVE CPInfo(k) = NumberConstants[k]
  BY IndexConstantsNamed, NumberConstantsNamed, OtherConstantsNamed DEF CPInfo
<1>3. ASSUME NEW k \in DOMAIN OtherConstants PROVE CPInfo(k) = OtherConstants[k]
  BY IndexConstantsNamed, NumberConstantsNamed, OtherConstantsNamed DEF CPInfo
<1>4. /\ CPInfo("Class") = Layout(7, 1) /\ CPInfo("FieldRef") = Layout(9, 2)
      /\ CPInfo("MethodRef") = Layout(10, 2) /\ CPInfo("InterfaceMethodRef") = Layout(11, 2)
      /\ CPInfo("String") = Layout(8, 1)
  <2> HIDE DEF CPInfo
  <2> QED BY <1>1, IndexConstantsNamed DEF IndexConstants
<1>5. /\ CPInfo("Integer") = Layout(3, 2) /\ CPInfo("Float") = Layout(4, 2)
      /\ CPInfo("Long") = Layout(5, 4) /\ CPInfo("Double") = Layout(6, 4)
  BY <1>2, NumberConstantsNamed DEF NumberConstants
<1>6. /\ CPInfo("NameAndType") = Layout(12, 2)
      /\ CPInfo("Utf8") = Layout(1, 0) /\ CPInfo("MethodHandle") = Layout(15, 0)
      /\ CPInfo("MethodType") = Layout(16, 1) /\ CPInfo("InvokeDynamic") = Layout(18, 2)
  BY <1>3, OtherConstantsNamed DEF OtherConstants
<1> QED BY <1>4, <1>5, <1>6

LEMMA Tags ==
    /\ \A j, k \in Kinds : CPInfo(j).tag = CPInfo(k).tag => j = k
    /\ \A k \in Kinds : CPInfo(k).tag \in Byte
    /\ \A k \in Kinds \ {"Utf8", "MethodHandle"} :
        /\ CPInfo(k).halves = HalvesOf(k) /\ HalvesOf(k) \in 1 .. 4
<1>1. \A j, k \in Kinds : CPInfo(j).tag = CPInfo(k).tag => j = k
  BY KindsNamed, CPInfos DEF Layout
<1>2. \A k \in Kinds : CPInfo(k).tag \in Byte
  BY KindsNamed, CPInfos DEF Layout, Byte
<1>3. ASSUME NEW k \in Kinds \ {"Utf8", "MethodHandle"}
      PROVE  CPInfo(k).halves = HalvesOf(k) /\ HalvesOf(k) \in 1 .. 4
  BY KindsNamed, CPInfos DEF Layout, HalvesOf
<1> QED BY <1>1, <1>2, <1>3

LEMMA KindOfTag ==
    ASSUME NEW k \in Kinds
    PROVE  KindOf(CPInfo(k).tag) = k
<1>1. KindsOf(CPInfo(k).tag) = {k}
  BY Tags DEF KindsOf
<1> QED BY <1>1 DEF KindOf

-----------------------------------------------------------------------------
SingleBytes(bs) == [k \in DOMAIN bs |-> U1(bs[k])]

LEMMA SinglesWritten ==
    ASSUME NEW bs, IsStack(bs), \A k \in 1 .. Len(bs) : bs[k] \in Byte
    PROVE  /\ WriteAll(U1, bs) = Flat(SingleBytes(bs))
           /\ AreBytes(SingleBytes(bs)) /\ Len(SingleBytes(bs)) = Len(bs)
           /\ IsBytes(WriteAll(U1, bs))
           /\ \A k \in 1 .. Len(bs) : SingleBytes(bs)[k] = U1(bs[k]) /\ Size(SingleBytes(bs)[k]) = 1
<1>1. WriteAll(U1, bs) = Flat(SingleBytes(bs))
  BY DEF WriteAll, Flat, SingleBytes
<1>2. DOMAIN bs = 1 .. Len(bs)
  BY DEF IsStack
<1>3. \A k \in 1 .. Len(bs) : SingleBytes(bs)[k] = U1(bs[k]) /\ IsBytes(U1(bs[k])) /\ Size(U1(bs[k])) = 1
  BY <1>2, Sizes DEF SingleBytes
<1>4. SingleBytes(bs) = [k \in DOMAIN bs |-> SingleBytes(bs)[k]]
  BY DEF SingleBytes
<1>5. AreBytes(SingleBytes(bs)) /\ Len(SingleBytes(bs)) = Len(bs)
  BY <1>2, <1>3, <1>4, WrittenItems
<1> QED BY <1>1, <1>3, <1>5, RestFacts

LEMMA ReadSingles ==
    ASSUME FileOK, NEW bs, IsStack(bs), \A k \in 1 .. Len(bs) : bs[k] \in Byte,
           NEW at \in Nat, Holds(at, WriteAll(U1, bs))
    PROVE  BytesAt(at, Len(bs)) = bs /\ Size(WriteAll(U1, bs)) = Len(bs)
<1> DEFINE seqs == SingleBytes(bs)
           p == [i \in 0 .. Len(bs) |-> at + i]
<1>0. Len(bs) \in Nat
  BY DEF IsStack
<1>1. /\ WriteAll(U1, bs) = Flat(seqs) /\ AreBytes(seqs) /\ Len(seqs) = Len(bs)
      /\ \A k \in 1 .. Len(bs) : seqs[k] = U1(bs[k]) /\ Size(seqs[k]) = 1
  BY SinglesWritten
<1>2. /\ \A i \in 0 .. Len(bs) - 1 : p[i] = at + i /\ p[i + 1] = p[i] + 1 /\ i + 1 \in 1 .. Len(bs)
      /\ p[0] = at /\ p[Len(bs)] = at + Len(bs)
  BY <1>0
<1>3. /\ \A i \in 0 .. Len(bs) - 1 : p[i] \in Nat /\ Holds(p[i], seqs[i + 1])
      /\ p[Len(bs)] = at + Size(Flat(seqs))
  <2> HIDE DEF seqs, p
  <2>1. \A i \in 0 .. Len(seqs) - 1 : p[i + 1] = p[i] + Size(seqs[i + 1])
    BY <1>1, <1>2
  <2>2. Holds(at, Flat(seqs))
    BY <1>1
  <2>3. /\ \A i \in 0 .. Len(seqs) - 1 : p[i] \in Nat /\ Holds(p[i], seqs[i + 1])
        /\ p[Len(seqs)] = at + Size(Flat(seqs))
    BY <1>1, <1>2, <2>1, <2>2, EachFacts
  <2> QED BY <1>1, <2>3
<1>4. ASSUME NEW k \in 1 .. Len(bs) PROVE ByteAt(at + k - 1) = bs[k]
  <2>1. k - 1 \in 0 .. Len(bs) - 1 /\ (k - 1) + 1 = k /\ at + k - 1 = at + (k - 1)
    BY <1>0
  <2>2. p[k - 1] = at + (k - 1) /\ p[k - 1] \in Nat /\ Holds(p[k - 1], U1(bs[k]))
    <3> HIDE DEF seqs, p
    <3> QED BY <1>1, <1>2, <1>3, <2>1
  <2> HIDE DEF p
  <2> QED BY <2>1, <2>2, ReadU1 DEF FileOK
<1>5. Bounded(Len(bs)) = Len(bs)
  <2> HIDE DEF seqs, p
  <2>1. ASSUME NEW i \in 1 .. Len(seqs) PROVE Size(seqs[i]) >= 1
    <3>1. Size(seqs[i]) = 1
      BY <1>1
    <3> QED BY <3>1
  <2> QED BY <1>1, <2>1, BoundedCount
<1>6. BytesAt(at, Len(bs)) = [k \in 1 .. Len(bs) |-> bs[k]]
  BY <1>4, <1>5 DEF BytesAt
<1>7. Size(Flat(seqs)) = Len(bs)
  <2> HIDE DEF seqs, p
  <2>1. Size(Flat(seqs)) \in Nat
    BY <1>1, RestFacts, Sizes
  <2>2. PICK x \in Nat, y \in Nat : x = Size(Flat(seqs)) /\ y = Len(bs)
    BY <1>0, <2>1
  <2>3. at + y = at + x /\ x \in Nat /\ y \in Nat
    BY <1>2, <1>3, <2>2
  <2>4. x = y
    BY <2>3
  <2> QED BY <2>2, <2>4
<1> QED BY <1>1, <1>6, <1>7 DEF IsStack

LEMMA ConstantWritten ==
    ASSUME NEW c, IsConstant(c)
    PROVE  /\ IsBytes(WriteConstant(c)) /\ Size(WriteConstant(c)) >= 1
           /\ FileOK => \A at \in Nat : Holds(at, WriteConstant(c)) =>
                /\ KindOf(ByteAt(at)) = c.kind /\ ConstantAt(at, c.kind) = c
                /\ ConstantWidth(at, c.kind) = Size(WriteConstant(c))
<1> DEFINE content ==
        CASE c.kind = "Utf8"         -> WriteTable(U1, c.values)
          [] c.kind = "MethodHandle" -> U1(c.values[1]) \o U2(c.values[2])
          [] OTHER                   -> WriteAll(U2, c.values)
<1>1. /\ c.kind \in Kinds /\ c.values \in Seq(Half)
      /\ c = [kind |-> c.kind, values |-> c.values]
  BY DEF IsConstant
<1>2. WriteConstant(c) = U1(CPInfo(c.kind).tag) \o content
  BY DEF WriteConstant
<1>3. PICK tag : tag = CPInfo(c.kind).tag /\ tag \in Byte /\ IsBytes(U1(tag)) /\ Size(U1(tag)) = 1
  BY <1>1, Tags, Sizes
<1>4. /\ IsBytes(content)
      /\ FileOK => \A at \in Nat : Holds(at, content) =>
            /\ at > 0 => ConstantAt(at - 1, c.kind) = c
            /\ at > 0 => ConstantWidth(at - 1, c.kind) = 1 + Size(content)
  <2>1. CASE c.kind = "Utf8"
    <3>1. PICK bs : bs = c.values /\ bs \in Seq(Byte) /\ IsTable(bs)
      BY <2>1 DEF IsConstant
    <3>2. IsStack(bs) /\ Len(bs) \in Half /\ \A k \in 1 .. Len(bs) : bs[k] \in Byte
      BY <3>1, SeqIsStack DEF IsTable
    <3>3. content = U2(Len(bs)) \o WriteAll(U1, bs)
      BY <2>1, <3>1 DEF WriteTable
    <3>4. /\ IsBytes(U2(Len(bs))) /\ Size(U2(Len(bs))) = 2
          /\ IsBytes(WriteAll(U1, bs))
      BY <3>2, SinglesWritten, Sizes
    <3> HIDE DEF content
    <3>5. IsBytes(content) /\ Size(content) = 2 + Size(WriteAll(U1, bs))
      BY <3>3, <3>4, Parts2
    <3>6. ASSUME FileOK, NEW at \in Nat, Holds(at, content), at > 0
          PROVE  ConstantAt(at - 1, c.kind) = c /\ ConstantWidth(at - 1, c.kind) = 1 + Size(content)
      <4>1. Holds(at, U2(Len(bs))) /\ Holds(at + 2, WriteAll(U1, bs))
        BY <3>3, <3>4, <3>6, Parts2
      <4>2. U2At(at) = Len(bs)
        BY <3>2, <3>6, <4>1, ReadU2 DEF FileOK
      <4>3. BytesAt(at + 2, Len(bs)) = bs /\ Size(WriteAll(U1, bs)) = Len(bs)
        BY <3>2, <3>6, <4>1, ReadSingles
      <4>4. at - 1 + 1 = at /\ at - 1 + 3 = at + 2
        OBVIOUS
      <4>5. ConstantAt(at - 1, c.kind) = [kind |-> c.kind, values |-> bs]
        BY <2>1, <4>2, <4>3, <4>4 DEF ConstantAt
      <4>6. ConstantWidth(at - 1, c.kind) = 1 + (2 + Len(bs))
        BY <2>1, <4>2, <4>4 DEF ConstantWidth
      <4> QED BY <1>1, <3>1, <3>5, <4>3, <4>5, <4>6
    <3> QED BY <3>5, <3>6
  <2>2. CASE c.kind = "MethodHandle"
    <3>1. PICK m, n : /\ m = c.values[1] /\ n = c.values[2] /\ m \in Byte /\ n \in Half
                      /\ c.values = <<m, n>>
      <4>1. Len(c.values) = 2 /\ c.values[1] \in Byte
        BY <2>2 DEF IsConstant
      <4>2. c.values[2] \in Half /\ c.values = <<c.values[1], c.values[2]>>
        BY <1>1, <4>1
      <4> QED BY <4>1, <4>2
    <3>3. content = U1(m) \o U2(n)
      BY <2>2, <3>1
    <3>4. IsBytes(U1(m)) /\ Size(U1(m)) = 1 /\ IsBytes(U2(n)) /\ Size(U2(n)) = 2
      BY <3>1, Sizes
    <3> HIDE DEF content
    <3>5. IsBytes(content) /\ Size(content) = 3
      BY <3>3, <3>4, Parts2
    <3>6. ASSUME FileOK, NEW at \in Nat, Holds(at, content), at > 0
          PROVE  ConstantAt(at - 1, c.kind) = c /\ ConstantWidth(at - 1, c.kind) = 1 + Size(content)
      <4>1. Holds(at, U1(m)) /\ Holds(at + 1, U2(n))
        BY <3>3, <3>4, <3>6, Parts2
      <4>2. ByteAt(at) = m /\ U2At(at + 1) = n
        BY <3>1, <3>6, <4>1, ReadU1, ReadU2 DEF FileOK
      <4>4. at - 1 + 1 = at /\ at - 1 + 2 = at + 1
        OBVIOUS
      <4>5. ConstantAt(at - 1, c.kind) = [kind |-> c.kind, values |-> <<m, n>>]
        BY <2>2, <4>2, <4>4 DEF ConstantAt
      <4>6. ConstantWidth(at - 1, c.kind) = 1 + 3
        BY <2>2 DEF ConstantWidth
      <4> QED BY <1>1, <3>1, <3>5, <4>5, <4>6
    <3> QED BY <3>5, <3>6
  <2>3. CASE c.kind \notin {"Utf8", "MethodHandle"}
    <3>1. PICK hs : hs = c.values /\ IsStack(hs) /\ Len(hs) = HalvesOf(c.kind) /\ Len(hs) \in 1 .. 4
                    /\ \A k \in 1 .. Len(hs) : hs[k] \in Half
      <4>1. Len(c.values) = HalvesOf(c.kind) /\ HalvesOf(c.kind) \in 1 .. 4
        BY <1>1, <2>3, Tags DEF IsConstant
      <4>2. IsStack(c.values)
        BY <1>1, SeqIsStack
      <4>3. \A k \in 1 .. Len(c.values) : c.values[k] \in Half
        BY <1>1
      <4> QED BY <4>1, <4>2, <4>3
    <3>3. content = WriteAll(U2, hs)
      BY <2>3, <3>1
    <3>4. IsBytes(content)
      BY <3>1, <3>3, HalvesWritten
    <3> HIDE DEF content
    <3>6. ASSUME FileOK, NEW at \in Nat, Holds(at, content), at > 0
          PROVE  ConstantAt(at - 1, c.kind) = c /\ ConstantWidth(at - 1, c.kind) = 1 + Size(content)
      <4>1. HalvesAt(at, Len(hs)) = hs /\ Size(content) = 2 * Len(hs)
        BY <3>1, <3>3, <3>6, ReadHalves
      <4>4. at - 1 + 1 = at
        OBVIOUS
      <4>5. ConstantAt(at - 1, c.kind) = [kind |-> c.kind, values |-> hs]
        BY <2>3, <3>1, <4>1, <4>4 DEF ConstantAt
      <4>6. ConstantWidth(at - 1, c.kind) = 1 + 2 * Len(hs)
        <5>1. c.kind # "unrecognized"
          BY <1>1, KindsNamed
        <5> QED BY <2>3, <3>1, <5>1 DEF ConstantWidth
      <4> QED BY <1>1, <3>1, <4>1, <4>5, <4>6
    <3> QED BY <3>4, <3>6
  <2> QED BY <2>1, <2>2, <2>3
<1> HIDE DEF content
<1>5. IsBytes(WriteConstant(c)) /\ Size(WriteConstant(c)) = 1 + Size(content) /\ Size(content) \in Nat
  BY <1>2, <1>3, <1>4, Parts2, Sizes
<1>6. ASSUME FileOK, NEW at \in Nat, Holds(at, WriteConstant(c))
      PROVE  /\ KindOf(ByteAt(at)) = c.kind /\ ConstantAt(at, c.kind) = c
             /\ ConstantWidth(at, c.kind) = Size(WriteConstant(c))
  <2>1. Holds(at, U1(tag)) /\ Holds(at + 1, content)
    BY <1>2, <1>3, <1>4, <1>6, Parts2
  <2>2. ByteAt(at) = tag
    BY <1>3, <1>6, <2>1, ReadU1 DEF FileOK
  <2>3. KindOf(ByteAt(at)) = c.kind
    BY <1>1, <1>3, <2>2, KindOfTag
  <2>4. at + 1 \in Nat /\ at + 1 > 0 /\ at + 1 - 1 = at
    OBVIOUS
  <2> QED BY <1>4, <1>5, <1>6, <2>1, <2>3, <2>4
<1> QED BY <1>5, <1>6

-----------------------------------------------------------------------------
(* The constant pool and its indices.                                      *)

AreIndices(p, cs, n) ==
    p = [i \in 1 .. n + 1 |-> IF i = 1 THEN 1 ELSE p[i - 1] + IndicesOf(cs[i - 1])]

LEMMA IndicesExist ==
    ASSUME NEW cs, NEW n \in Nat
    PROVE  \E p : AreIndices(p, cs, n)
<1> DEFINE N == {m \in Nat : \E p : AreIndices(p, cs, m)}
<1>1. 0 \in N
  <2>1. AreIndices([i \in 1 .. 0 + 1 |-> 1], cs, 0)
    BY DEF AreIndices
  <2> QED BY <2>1
<1>2. ASSUME NEW m \in Nat, m \in N PROVE m + 1 \in N
  <2>1. PICK p : AreIndices(p, cs, m)
    BY <1>2
  <2> DEFINE g == [i \in 1 .. (m + 1) + 1 |->
                    IF i = m + 2 THEN p[m + 1] + IndicesOf(cs[m + 1]) ELSE p[i]]
  <2>2. ASSUME NEW i \in 1 .. (m + 1) + 1
        PROVE  g[i] = IF i = 1 THEN 1 ELSE g[i - 1] + IndicesOf(cs[i - 1])
    <3>1. CASE i = m + 2
      <4>1. i # 1 /\ i - 1 = m + 1 /\ m + 1 \in 1 .. (m + 1) + 1 /\ m + 1 # m + 2
        BY <3>1
      <4>2. g[i] = p[m + 1] + IndicesOf(cs[m + 1]) /\ g[m + 1] = p[m + 1]
        BY <3>1, <4>1
      <4> HIDE DEF g
      <4> QED BY <4>1, <4>2
    <3>2. CASE i # m + 2
      <4>1. /\ i \in 1 .. m + 1
            /\ i # 1 => i - 1 \in 1 .. m + 1 /\ i - 1 # m + 2 /\ i - 1 \in 1 .. (m + 1) + 1
        BY <3>2
      <4>2. g[i] = p[i] /\ (i # 1 => g[i - 1] = p[i - 1])
        BY <3>2, <4>1
      <4>3. p[i] = IF i = 1 THEN 1 ELSE p[i - 1] + IndicesOf(cs[i - 1])
        BY <2>1, <4>1 DEF AreIndices
      <4> HIDE DEF g
      <4> QED BY <4>2, <4>3
    <3> QED BY <3>1, <3>2
  <2>3. AreIndices(g, cs, m + 1)
    BY <2>2 DEF AreIndices
  <2>4. m + 1 \in Nat /\ \E q : AreIndices(q, cs, m + 1)
    <3> HIDE DEF g
    <3> QED BY <2>3
  <2> QED BY <2>4
<1>3. n \in N
  <2> HIDE DEF N
  <2> QED BY <1>1, <1>2, Induction
<1> QED BY <1>3

(* The indices of the constants are increasing, so each has one of its own.*)
LEMMA IndicesIncrease ==
    ASSUME NEW cs, Len(cs) \in Nat
    PROVE  /\ PoolIndices(cs)[1] = 1
           /\ \A i \in 1 .. Len(cs) : PoolIndices(cs)[i + 1] = PoolIndices(cs)[i] + IndicesOf(cs[i])
           /\ \A i \in 1 .. Len(cs) + 1 : PoolIndices(cs)[i] \in Nat /\ PoolIndices(cs)[i] >= i
           /\ \A i, j \in 1 .. Len(cs) + 1 : i < j => PoolIndices(cs)[i] < PoolIndices(cs)[j]
<1> DEFINE index == PoolIndices(cs)
<1>n. PICK n \in Nat : n = Len(cs)
  OBVIOUS
<1>w. \A c : IndicesOf(c) \in {1, 2}
  BY DEF IndicesOf
<1>1. AreIndices(index, cs, n)
  <2>1. PICK p : AreIndices(p, cs, n)
    BY IndicesExist
  <2>2. index = CHOOSE f : AreIndices(f, cs, n)
    BY <1>n DEF PoolIndices, AreIndices
  <2> HIDE DEF index
  <2> QED BY <2>1, <2>2
<1> HIDE DEF index
<1>2. index[1] = 1
  BY <1>1 DEF AreIndices
<1>3. ASSUME NEW i \in 1 .. n PROVE index[i + 1] = index[i] + IndicesOf(cs[i])
  <2>1. i + 1 \in 1 .. n + 1 /\ i + 1 # 1 /\ (i + 1) - 1 = i
    OBVIOUS
  <2> QED BY <1>1, <2>1 DEF AreIndices
<1>4. \A i \in 1 .. n + 1 : index[i] \in Nat /\ index[i] >= i
  <2> DEFINE N == {k \in Nat : k + 1 <= n + 1 => index[k + 1] \in Nat /\ index[k + 1] >= k + 1}
  <2>1. 0 \in N
    BY <1>2
  <2>2. ASSUME NEW k \in Nat, k \in N PROVE k + 1 \in N
    <3> SUFFICES ASSUME k + 1 + 1 <= n + 1
                 PROVE  index[k + 1 + 1] \in Nat /\ index[k + 1 + 1] >= k + 1 + 1
      OBVIOUS
    <3>1. k + 1 \in 1 .. n /\ index[k + 1] \in Nat /\ index[k + 1] >= k + 1
      BY <2>2
    <3>2. index[k + 1 + 1] = index[k + 1] + IndicesOf(cs[k + 1])
      BY <1>3, <3>1
    <3>3. IndicesOf(cs[k + 1]) \in {1, 2}
      BY <1>w
    <3> QED BY <3>1, <3>2, <3>3
  <2>3. \A k \in Nat : k \in N
    <3> HIDE DEF N
    <3> QED BY <2>1, <2>2, Induction
  <2> SUFFICES ASSUME NEW i \in 1 .. n + 1 PROVE index[i] \in Nat /\ index[i] >= i
    OBVIOUS
  <2>4. PICK k \in Nat : k + 1 = i /\ k + 1 <= n + 1
    <3>1. i - 1 \in Nat /\ (i - 1) + 1 = i /\ (i - 1) + 1 <= n + 1
      OBVIOUS
    <3> QED BY <3>1
  <2>5. k \in N
    BY <2>3
  <2> QED BY <2>4, <2>5
<1>5. ASSUME NEW i \in 1 .. n + 1, NEW j \in 1 .. n + 1, i < j PROVE index[i] < index[j]
  <2> DEFINE N == {k \in Nat : i + k + 1 <= n + 1 => index[i] < index[i + k + 1]}
  <2>1. 0 \in N
    <3> SUFFICES ASSUME i + 0 + 1 <= n + 1 PROVE index[i] < index[i + 0 + 1]
      OBVIOUS
    <3>1. i \in 1 .. n /\ i + 0 + 1 = i + 1
      OBVIOUS
    <3>2. index[i + 1] = index[i] + IndicesOf(cs[i]) /\ index[i] \in Nat
      BY <1>3, <1>4, <3>1
    <3>3. IndicesOf(cs[i]) \in {1, 2}
      BY <1>w
    <3>4. index[i] < index[i + 1]
      BY <3>2, <3>3
    <3> QED BY <3>1, <3>4
  <2>2. ASSUME NEW k \in Nat, k \in N PROVE k + 1 \in N
    <3> SUFFICES ASSUME i + (k + 1) + 1 <= n + 1 PROVE index[i] < index[i + (k + 1) + 1]
      OBVIOUS
    <3>1. PICK h : h = i + k + 1
      OBVIOUS
    <3>2. h \in 1 .. n /\ h \in 1 .. n + 1 /\ i + (k + 1) + 1 = h + 1 /\ i + k + 1 <= n + 1
      BY <3>1
    <3>3. index[i] < index[h]
      BY <2>2, <3>1, <3>2
    <3>4. index[h + 1] = index[h] + IndicesOf(cs[h]) /\ index[h] \in Nat /\ index[i] \in Nat
      BY <1>3, <1>4, <3>2
    <3>5. IndicesOf(cs[h]) \in {1, 2}
      BY <1>w
    <3>6. index[i] < index[h + 1]
      BY <3>3, <3>4, <3>5
    <3> QED BY <3>2, <3>6
  <2>3. \A k \in Nat : k \in N
    <3> HIDE DEF N
    <3> QED BY <2>1, <2>2, Induction
  <2>4. j - i - 1 \in Nat /\ i + (j - i - 1) + 1 = j /\ j <= n + 1
    BY <1>5
  <2> QED BY <2>3, <2>4
<1> QED BY <1>2, <1>3, <1>4, <1>5, <1>n DEF index

LEMMA TableIsStack ==
    ASSUME NEW s, IsTable(s)
    PROVE  IsStack(s) /\ Len(s) \in Half /\ Len(s) \in Nat /\ DOMAIN s = 1 .. Len(s)
<1>1. Len(s) \in Half /\ Len(s) \in Nat /\ s = [k \in 1 .. Len(s) |-> s[k]]
  BY DEF IsTable, Half
<1> QED BY <1>1 DEF IsStack

LEMMA IndexOfOne ==
    ASSUME NEW cs, IsTable(cs), NEW i \in 1 .. Len(cs), NEW j \in 1 .. Len(cs),
           PoolIndices(cs)[i] = PoolIndices(cs)[j]
    PROVE  i = j
<1>1. Len(cs) \in Nat
  BY TableIsStack
<1>2. \A k \in 1 .. Len(cs) : k \in 1 .. Len(cs) + 1
  BY <1>1
<1>3. PICK x, y : x = PoolIndices(cs)[i] /\ y = PoolIndices(cs)[j]
  OBVIOUS
<1>4. x \in Nat /\ y \in Nat /\ (i < j => x < y) /\ (j < i => y < x)
  BY <1>1, <1>2, <1>3, IndicesIncrease
<1> QED BY <1>1, <1>3, <1>4

LEMMA PoolFacts ==
    ASSUME NEW cs, IsTable(cs)
    PROVE  /\ DOMAIN PoolOf(cs) = {PoolIndices(cs)[i] : i \in 1 .. Len(cs)}
           /\ \A i \in 1 .. Len(cs) : PoolOf(cs)[PoolIndices(cs)[i]] = cs[i]
           /\ PoolOf(cs) = [k \in DOMAIN PoolOf(cs) |-> PoolOf(cs)[k]]
<1> DEFINE index == PoolIndices(cs)
<1>1. DOMAIN cs = 1 .. Len(cs)
  BY TableIsStack
<1>2. PoolOf(cs) = [k \in {index[i] : i \in DOMAIN cs} |->
                      cs[CHOOSE i \in DOMAIN cs : index[i] = k]]
  BY DEF PoolOf
<1> HIDE DEF index
<1>3. ASSUME NEW i \in 1 .. Len(cs) PROVE PoolOf(cs)[index[i]] = cs[i]
  <2>1. (CHOOSE j \in DOMAIN cs : index[j] = index[i]) = i
    <3>1. \A j \in DOMAIN cs : index[j] = index[i] => j = i
      BY <1>1, IndexOfOne DEF index
    <3> QED BY <1>1, <3>1
  <2>2. index[i] \in {index[j] : j \in DOMAIN cs}
    BY <1>1
  <2> QED BY <1>2, <2>1, <2>2
<1>4. DOMAIN PoolOf(cs) = {index[i] : i \in 1 .. Len(cs)}
  BY <1>1, <1>2
<1>5. PoolOf(cs) = [k \in DOMAIN PoolOf(cs) |-> PoolOf(cs)[k]]
  BY <1>2
<1> QED BY <1>3, <1>4, <1>5 DEF index

LEMMA PoolWithin ==
    ASSUME NEW cs, IsTable(cs), PoolCount(cs) \in Half
    PROVE  \A i \in 1 .. Len(cs) : PoolIndices(cs)[i] \in Half /\ PoolIndices(cs)[i] \in Nat \ {0}
<1>1. Len(cs) \in Nat
  BY TableIsStack
<1>2. ASSUME NEW i \in 1 .. Len(cs)
      PROVE  PoolIndices(cs)[i] \in Half /\ PoolIndices(cs)[i] \in Nat \ {0}
  <2>1. i \in 1 .. Len(cs) + 1 /\ Len(cs) + 1 \in 1 .. Len(cs) + 1 /\ i < Len(cs) + 1
    BY <1>1
  <2>2. PICK x, y : x = PoolIndices(cs)[i] /\ y = PoolCount(cs)
    OBVIOUS
  <2>3. x \in Nat /\ x >= i /\ x < y
    BY <1>1, <2>1, <2>2, IndicesIncrease DEF PoolCount
  <2>4. y \in Nat /\ y < 65536
    BY <2>2 DEF Half
  <2>5. x \in Half /\ x # 0
    BY <2>3, <2>4 DEF Half
  <2> QED BY <2>2, <2>3, <2>5
<1> QED BY <1>2

LEMMA NameFacts ==
    ASSUME NEW cs, IsTable(cs), PoolCount(cs) \in Half, NEW name, IsName(cs, name)
    PROVE  /\ NameIndex(cs, name) \in Half
           /\ NameIndex(cs, name) \in DOMAIN PoolOf(cs)
           /\ PoolOf(cs)[NameIndex(cs, name)].kind = "Utf8"
           /\ PoolOf(cs)[NameIndex(cs, name)].values = name
<1> DEFINE Named(i) == cs[i].kind = "Utf8" /\ cs[i].values = name
<1>1. PICK i : i = CHOOSE j \in DOMAIN cs : Named(j)
  OBVIOUS
<1>2. i \in DOMAIN cs /\ Named(i)
  BY <1>1 DEF IsName
<1>3. NameIndex(cs, name) = PoolIndices(cs)[i] /\ i \in 1 .. Len(cs)
  BY <1>1, <1>2, TableIsStack DEF NameIndex
<1>4. PoolOf(cs)[PoolIndices(cs)[i]] = cs[i] /\ PoolIndices(cs)[i] \in DOMAIN PoolOf(cs)
  BY <1>3, PoolFacts
<1>5. PoolIndices(cs)[i] \in Half
  BY <1>3, PoolWithin
<1> QED BY <1>2, <1>3, <1>4, <1>5

-----------------------------------------------------------------------------
(* Attributes: their names and their contents.                             *)

(* A count and as many items.                                              *)
LEMMA TableOf ==
    ASSUME NEW n \in Half, NEW seqs, AreBytes(seqs)
    PROVE  /\ IsBytes(U2(n) \o Flat(seqs)) /\ Size(U2(n) \o Flat(seqs)) = 2 + Size(Flat(seqs))
           /\ FileOK => \A at \in Nat : Holds(at, U2(n) \o Flat(seqs)) =>
                U2At(at) = n /\ Holds(at + 2, Flat(seqs))
<1>1. IsBytes(Flat(seqs)) /\ IsBytes(U2(n))
  BY RestFacts, Sizes
<1>2. Size(U2(n)) = 2
  BY Sizes
<1>3. ASSUME FileOK, NEW at \in Nat, Holds(at, U2(n) \o Flat(seqs))
      PROVE  U2At(at) = n /\ Holds(at + 2, Flat(seqs))
  BY <1>1, <1>3, ReadCount
<1>4. PICK s : s = Flat(seqs)
  OBVIOUS
<1>5. IsBytes(U2(n) \o s) /\ Size(U2(n) \o s) = 2 + Size(s)
  BY <1>1, <1>2, <1>4, Parts2
<1> QED BY <1>3, <1>4, <1>5

LEMMA NamesNamed ==
    /\ AttributeName.ConstantValue = <<1>> /\ AttributeName.Code = <<2>>
    /\ AttributeName.StackMapTable = <<3>> /\ AttributeName.SourceFile = <<4>>
    /\ AttributeName.BootstrapMethods = <<5>> /\ AttributeName.NestHost = <<6>>
    /\ AttributeName.NestMembers = <<7>>
    /\ KnownNames = {<<1>>, <<2>>, <<3>>, <<4>>, <<5>>, <<6>>, <<7>>}
    /\ IndexNames = {<<1>>, <<4>>, <<6>>}
<1>1. DOMAIN AttributeName = {"ConstantValue", "Code", "StackMapTable", "SourceFile",
                              "BootstrapMethods", "NestHost", "NestMembers"}
  BY DEF AttributeName
<1>2. /\ AttributeName.ConstantValue = <<1>> /\ AttributeName.Code = <<2>>
      /\ AttributeName.StackMapTable = <<3>> /\ AttributeName.SourceFile = <<4>>
      /\ AttributeName.BootstrapMethods = <<5>> /\ AttributeName.NestHost = <<6>>
      /\ AttributeName.NestMembers = <<7>>
  BY DEF AttributeName
<1>3. KnownNames = {<<1>>, <<2>>, <<3>>, <<4>>, <<5>>, <<6>>, <<7>>}
  BY ZenonT(40), <1>1, <1>2 DEF KnownNames
<1>4. IndexNames = {<<1>>, <<4>>, <<6>>}
  BY <1>2 DEF IndexNames
<1> QED BY <1>2, <1>3, <1>4

LEMMA NamesDiffer ==
    \A m, n \in Nat : <<m>> = <<n>> => m = n
OBVIOUS

LEMMA NamesApart ==
    /\ AttributeName.StackMapTable \in KnownNames \ IndexNames
    /\ AttributeName.Code \in KnownNames \ IndexNames
    /\ AttributeName.Code # AttributeName.StackMapTable
    /\ IndexNames \subseteq KnownNames
BY NamesNamed, NamesDiffer

-----------------------------------------------------------------------------
FrameBytes(fs) == [k \in DOMAIN fs |-> WriteFrame(fs[k])]

LEMMA FramesWritten ==
    ASSUME NEW fs, IsTable(fs), \A k \in DOMAIN fs : IsFrame(fs[k])
    PROVE  /\ WriteTable(WriteFrame, fs) = U2(Len(fs)) \o Flat(FrameBytes(fs))
           /\ AreBytes(FrameBytes(fs)) /\ Len(FrameBytes(fs)) = Len(fs)
           /\ \A k \in 1 .. Len(fs) : FrameBytes(fs)[k] = WriteFrame(fs[k]) /\ IsFrame(fs[k])
           /\ IsBytes(WriteTable(WriteFrame, fs))
<1>0. IsStack(fs) /\ Len(fs) \in Half /\ DOMAIN fs = 1 .. Len(fs)
  BY TableIsStack
<1>1. WriteTable(WriteFrame, fs) = U2(Len(fs)) \o Flat(FrameBytes(fs))
  BY DEF WriteTable, WriteAll, Flat, FrameBytes
<1>2. \A k \in DOMAIN fs : FrameBytes(fs)[k] = WriteFrame(fs[k]) /\ IsBytes(FrameBytes(fs)[k])
  BY FrameWritten DEF FrameBytes
<1>3. FrameBytes(fs) = [k \in DOMAIN fs |-> FrameBytes(fs)[k]]
  BY DEF FrameBytes
<1>4. AreBytes(FrameBytes(fs)) /\ Len(FrameBytes(fs)) = Len(fs)
  BY <1>0, <1>2, <1>3, WrittenItems
<1> QED BY <1>0, <1>1, <1>2, <1>4, TableOf

BootstrapBytes(bs) == [k \in DOMAIN bs |-> WriteBootstrapMethod(bs[k])]

LEMMA HalfTable ==
    ASSUME NEW hs, hs \in Seq(Half), IsTable(hs)
    PROVE  /\ WriteTable(U2, hs) = U2(Len(hs)) \o Flat(HalfBytes(hs))
           /\ AreBytes(HalfBytes(hs)) /\ IsBytes(WriteTable(U2, hs))
<1>0. IsStack(hs) /\ Len(hs) \in Half /\ \A k \in 1 .. Len(hs) : hs[k] \in Half
  BY TableIsStack
<1>1. WriteTable(U2, hs) = U2(Len(hs)) \o Flat(HalfBytes(hs))
  BY DEF WriteTable, WriteAll, Flat, HalfBytes
<1>2. AreBytes(HalfBytes(hs))
  BY <1>0, HalvesWritten
<1> QED BY <1>0, <1>1, <1>2, TableOf

LEMMA BootstrapsWritten ==
    ASSUME NEW bs, IsTable(bs), \A k \in DOMAIN bs : IsBootstrapMethod(bs[k])
    PROVE  IsBytes(WriteTable(WriteBootstrapMethod, bs))
<1>0. IsStack(bs) /\ Len(bs) \in Half
  BY TableIsStack
<1>1. WriteTable(WriteBootstrapMethod, bs) = U2(Len(bs)) \o Flat(BootstrapBytes(bs))
  BY DEF WriteTable, WriteAll, Flat, BootstrapBytes
<1>2. ASSUME NEW k \in DOMAIN bs PROVE IsBytes(BootstrapBytes(bs)[k])
  <2>1. IsBootstrapMethod(bs[k])
    OBVIOUS
  <2>2. IsBytes(U2(bs[k].methodRef)) /\ IsBytes(WriteTable(U2, bs[k].arguments))
    BY <2>1, Sizes, HalfTable DEF IsBootstrapMethod
  <2>3. BootstrapBytes(bs)[k] = U2(bs[k].methodRef) \o WriteTable(U2, bs[k].arguments)
    BY DEF BootstrapBytes, WriteBootstrapMethod
  <2> QED BY <2>2, <2>3, Parts2
<1>3. BootstrapBytes(bs) = [k \in DOMAIN bs |-> BootstrapBytes(bs)[k]]
  BY DEF BootstrapBytes
<1>4. AreBytes(BootstrapBytes(bs))
  BY <1>0, <1>2, <1>3, WrittenItems
<1> QED BY <1>0, <1>1, <1>4, TableOf

LEMMA SimpleInfoWritten ==
    ASSUME NEW a, IsSimpleInfo(a)
    PROVE  /\ IsBytes(SimpleInfo(a)) /\ FitsU4(Size(SimpleInfo(a)))
           /\ a.name \in IndexNames => a.info.index \in Half /\ SimpleInfo(a) = U2(a.info.index)
           /\ a.name = AttributeName.StackMapTable =>
                /\ IsTable(a.info.entries)
                /\ \A k \in DOMAIN a.info.entries : IsFrame(a.info.entries[k])
                /\ SimpleInfo(a) = WriteTable(WriteFrame, a.info.entries)
<1>1. FitsU4(Size(SimpleInfo(a)))
  BY DEF IsSimpleInfo, Size
<1>2. CASE a.name \in IndexNames
  <2>1. /\ a.name # AttributeName.NestMembers /\ a.name # AttributeName.StackMapTable
        /\ a.name # AttributeName.BootstrapMethods
    BY <1>2, NamesNamed, NamesDiffer
  <2>2. a.info.index \in Half /\ SimpleInfo(a) = U2(a.info.index)
    BY <1>2, <2>1 DEF SimpleInfo, IsSimpleInfo
  <2> QED BY <1>1, <2>1, <2>2, Sizes
<1>3. CASE a.name = AttributeName.NestMembers
  <2>1. /\ a.name \notin IndexNames /\ a.name # AttributeName.StackMapTable
        /\ a.name # AttributeName.BootstrapMethods
    BY <1>3, NamesNamed, NamesDiffer
  <2>2. /\ SimpleInfo(a) = WriteTable(U2, a.info.classes)
        /\ a.info.classes \in Seq(Half) /\ IsTable(a.info.classes)
    BY <1>3, <2>1 DEF SimpleInfo, IsSimpleInfo
  <2> QED BY <1>1, <2>1, <2>2, HalfTable
<1>4. CASE a.name = AttributeName.StackMapTable
  <2>1. /\ a.name \notin IndexNames /\ a.name # AttributeName.NestMembers
        /\ a.name # AttributeName.BootstrapMethods
    BY <1>4, NamesNamed, NamesDiffer
  <2>2. /\ SimpleInfo(a) = WriteTable(WriteFrame, a.info.entries)
        /\ IsTable(a.info.entries)
        /\ \A k \in DOMAIN a.info.entries : IsFrame(a.info.entries[k])
    BY <1>4, <2>1 DEF SimpleInfo, IsSimpleInfo
  <2> QED BY <1>1, <2>1, <2>2, FramesWritten
<1>5. CASE a.name = AttributeName.BootstrapMethods
  <2>1. /\ a.name \notin IndexNames /\ a.name # AttributeName.NestMembers
        /\ a.name # AttributeName.StackMapTable
    BY <1>5, NamesNamed, NamesDiffer
  <2>2. /\ SimpleInfo(a) = WriteTable(WriteBootstrapMethod, a.info.bootstrapMethods)
        /\ IsTable(a.info.bootstrapMethods)
        /\ \A k \in DOMAIN a.info.bootstrapMethods : IsBootstrapMethod(a.info.bootstrapMethods[k])
    BY <1>5, <2>1 DEF SimpleInfo, IsSimpleInfo
  <2> QED BY <1>1, <2>1, <2>2, BootstrapsWritten
<1>6. CASE /\ a.name \notin IndexNames /\ a.name # AttributeName.NestMembers
           /\ a.name # AttributeName.StackMapTable /\ a.name # AttributeName.BootstrapMethods
  <2>1. SimpleInfo(a) = a.info.bytes /\ a.info.bytes \in Seq(Byte)
    BY <1>6 DEF SimpleInfo, IsSimpleInfo
  <2> QED BY <1>1, <1>6, <2>1 DEF IsBytes
<1> QED BY <1>2, <1>3, <1>4, <1>5, <1>6

-----------------------------------------------------------------------------
(* Attributes as they are written.                                         *)

PoolOK(cs) ==
    /\ IsTable(cs) /\ PoolCount(cs) \in Half
    /\ \A i \in DOMAIN cs : cs[i].values \in Seq(Half)

LEMMA AttributeWritten ==
    ASSUME NEW cs, PoolOK(cs), NEW name, IsName(cs, name),
           NEW info, IsBytes(info), FitsU4(Size(info))
    PROVE  /\ IsBytes(WriteAttribute(cs, name, info))
           /\ Size(WriteAttribute(cs, name, info)) = 6 + Size(info)
           /\ FileOK => \A at \in Nat : Holds(at, WriteAttribute(cs, name, info)) =>
                /\ U2At(at) = NameIndex(cs, name) /\ U4At(at + 2) = Size(info)
                /\ Holds(at + 6, info)
<1>1. PICK n \in Half : n = NameIndex(cs, name)
  BY NameFacts DEF PoolOK
<1>2. PICK m \in Nat : m = Size(info) /\ FitsU4(m)
  BY Sizes
<1>3. WriteAttribute(cs, name, info) = U2(n) \o U4(m) \o info
  BY <1>1, <1>2 DEF WriteAttribute, Size
<1>4. IsBytes(U2(n)) /\ Size(U2(n)) = 2 /\ IsBytes(U4(m)) /\ Size(U4(m)) = 4
  BY <1>2, Sizes
<1>5. IsBytes(WriteAttribute(cs, name, info)) /\ Size(WriteAttribute(cs, name, info)) = 6 + Size(info)
  BY <1>2, <1>3, <1>4, Parts3
<1>6. ASSUME FileOK, NEW at \in Nat, Holds(at, WriteAttribute(cs, name, info))
      PROVE  U2At(at) = n /\ U4At(at + 2) = m /\ Holds(at + 6, info)
  <2>1. Holds(at, U2(n)) /\ Holds(at + 2, U4(m)) /\ Holds(at + 2 + 4, info)
    BY <1>3, <1>4, <1>6, Parts3
  <2>2. at + 2 + 4 = at + 6
    OBVIOUS
  <2> QED BY <1>2, <1>6, <2>1, <2>2, ReadU2, ReadU4 DEF FileOK
<1> QED BY <1>1, <1>2, <1>5, <1>6

(* What follows the head of an attribute.                                  *)
Content(cs, a) ==
    IF a.name = AttributeName.Code THEN WriteCode(cs, a.info) ELSE SimpleInfo(a)

AttributeBytes(cs, attrs) == [k \in DOMAIN attrs |-> WriteAnyAttribute(cs, attrs[k])]

AttributesOK(cs, attrs) ==
    /\ IsTable(attrs)
    /\ \A k \in DOMAIN attrs :
        /\ IsName(cs, attrs[k].name)
        /\ IsBytes(Content(cs, attrs[k])) /\ FitsU4(Size(Content(cs, attrs[k])))
    /\ \A j, k \in DOMAIN attrs : attrs[j].name = attrs[k].name /\ attrs[j].name \in KnownNames => j = k

(* No name of a file is the mark for none.                                 *)
LEMMA NameOrMark ==
    /\ \A cs, name : PoolOK(cs) /\ IsName(cs, name) => name # NoName
    /\ NoName \notin KnownNames /\ NoName \notin Seq(Half)
<1>1. NoName \notin Seq(Half)
  <2>1. NoName[1] = 65536 /\ DOMAIN NoName = 1 .. 1  BY DEF NoName
  <2>2. ASSUME NEW s \in Seq(Half), DOMAIN s = 1 .. 1 PROVE s[1] \in Half  BY <2>2
  <2>3. 65536 \notin Half  BY DEF Half
  <2> QED  BY <2>1, <2>2, <2>3
<1>2. ASSUME NEW cs, NEW name, PoolOK(cs), IsName(cs, name) PROVE name # NoName
  <2>1. PICK i \in DOMAIN cs : cs[i].values = name  BY <1>2 DEF IsName
  <2>2. cs[i].values \in Seq(Half)  BY <1>2, <2>1 DEF PoolOK
  <2> QED  BY <1>1, <2>1, <2>2
<1>3. \A n \in 1 .. 7 : <<n>>[1] # NoName[1]  BY DEF NoName
<1>4. KnownNames = {<<1>>, <<2>>, <<3>>, <<4>>, <<5>>, <<6>>, <<7>>}  BY NamesNamed
<1>5. NoName \notin KnownNames  BY <1>3, <1>4
<1> QED  BY <1>1, <1>2, <1>5

LEMMA AnyAttribute ==
    ASSUME NEW cs, NEW a
    PROVE  WriteAnyAttribute(cs, a) = WriteAttribute(cs, a.name, Content(cs, a))
BY DEF WriteAnyAttribute, WriteSimpleAttribute, Content

LEMMA AttributesWritten ==
    ASSUME NEW cs, PoolOK(cs), NEW attrs, AttributesOK(cs, attrs)
    PROVE  /\ AreBytes(AttributeBytes(cs, attrs)) /\ Len(AttributeBytes(cs, attrs)) = Len(attrs)
           /\ \A k \in 1 .. Len(attrs) : AttributeBytes(cs, attrs)[k] = WriteAnyAttribute(cs, attrs[k])
           /\ IsBytes(U2(Len(attrs)) \o Flat(AttributeBytes(cs, attrs)))
           /\ IsStack(attrs) /\ Len(attrs) \in Half /\ Len(attrs) \in Nat /\ DOMAIN attrs = 1 .. Len(attrs)
<1>0. IsStack(attrs) /\ Len(attrs) \in Half /\ Len(attrs) \in Nat /\ DOMAIN attrs = 1 .. Len(attrs)
  BY TableIsStack DEF AttributesOK
<1>1. ASSUME NEW k \in DOMAIN attrs
      PROVE  AttributeBytes(cs, attrs)[k] = WriteAnyAttribute(cs, attrs[k]) /\ IsBytes(AttributeBytes(cs, attrs)[k])
  <2>1. /\ IsName(cs, attrs[k].name)
        /\ IsBytes(Content(cs, attrs[k])) /\ FitsU4(Size(Content(cs, attrs[k])))
    BY DEF AttributesOK
  <2>2. IsBytes(WriteAttribute(cs, attrs[k].name, Content(cs, attrs[k])))
    BY <2>1, AttributeWritten
  <2> QED BY <2>2, AnyAttribute DEF AttributeBytes
<1>2. AttributeBytes(cs, attrs) = [k \in DOMAIN attrs |-> AttributeBytes(cs, attrs)[k]]
  BY DEF AttributeBytes
<1>3. AreBytes(AttributeBytes(cs, attrs)) /\ Len(AttributeBytes(cs, attrs)) = Len(attrs)
  BY <1>0, <1>1, <1>2, WrittenItems
<1> QED BY <1>0, <1>1, <1>3, TableOf

LEMMA SimpleAttributes ==
    ASSUME NEW cs, PoolOK(cs), NEW attrs, NEW kinds,
           kinds \in SUBSET {"ConstantValue", "StackMapTable", "SourceFile",
                             "BootstrapMethods", "NestHost", "NestMembers"},
           AreSimpleAttributes(cs, attrs, kinds)
    PROVE  /\ AttributesOK(cs, attrs)
           /\ AttributeBytes(cs, attrs) = [k \in DOMAIN attrs |-> WriteSimpleAttribute(cs, attrs[k])]
           /\ \A k \in DOMAIN attrs : attrs[k].name # AttributeName.Code /\ IsSimpleInfo(attrs[k])
<1>1. ASSUME NEW k \in DOMAIN attrs PROVE attrs[k].name # AttributeName.Code /\ IsSimpleInfo(attrs[k])
  <2>1. AttributeName.Code \notin NamesOf(kinds)
    BY NamesNamed, NamesDiffer DEF NamesOf
  <2>2. AttributeName.Code \in KnownNames
    BY NamesNamed
  <2> QED BY <2>1, <2>2 DEF AreSimpleAttributes, AreAttributes
<1>2. ASSUME NEW k \in DOMAIN attrs
      PROVE  /\ IsBytes(Content(cs, attrs[k])) /\ FitsU4(Size(Content(cs, attrs[k])))
             /\ WriteAnyAttribute(cs, attrs[k]) = WriteSimpleAttribute(cs, attrs[k])
  BY <1>1, SimpleInfoWritten DEF Content, WriteAnyAttribute
<1>3. AttributesOK(cs, attrs)
  BY <1>2 DEF AreSimpleAttributes, AreAttributes, AttributesOK
<1> QED BY <1>1, <1>2, <1>3 DEF AttributeBytes

CodeLength(code) == Len(code.code)

(* Where the parser reads what of code.                                    *)
CodeReads(cs, code, attrs, es, length, at) ==
    /\ U2At(at) = code.maxStack /\ U2At(at + 2) = code.maxLocals
    /\ U4At(at + 4) = length /\ BytesAt(at + 8, length) = code.code
    /\ U2At(at + 8 + length) = Len(es)
    /\ ExceptionsAt(at + 8 + length + 2, Len(es)) = es
    /\ U2At(at + 8 + length + 2 + 8 * Len(es)) = Len(attrs)
    /\ Holds(at + 8 + length + 2 + 8 * Len(es) + 2, Flat(AttributeBytes(cs, attrs)))
    /\ at + Size(WriteCode(cs, code)) =
          at + 8 + length + 2 + 8 * Len(es) + 2 + Size(Flat(AttributeBytes(cs, attrs)))

LEMMA CodeWritten ==
    ASSUME NEW cs, PoolOK(cs), NEW code, IsCode(cs, code),
           NEW attrs, attrs = code.attributes, NEW es, es = code.exceptionTable,
           NEW length, length = CodeLength(code)
    PROVE  /\ IsBytes(WriteCode(cs, code)) /\ FitsU4(Size(WriteCode(cs, code)))
           /\ AttributesOK(cs, attrs) /\ length \in Nat
           /\ code.maxStack \in Half /\ code.maxLocals \in Half /\ Len(es) \in Nat
           /\ FileOK => \A at \in Nat : Holds(at, WriteCode(cs, code)) =>
                CodeReads(cs, code, attrs, es, length, at)
<1>1. /\ code.maxStack \in Half /\ code.maxLocals \in Half
      /\ code.code \in Seq(Byte) /\ FitsU4(length) /\ length \in Nat
      /\ IsTable(es) /\ \A k \in DOMAIN es : IsException(es[k])
      /\ AreSimpleAttributes(cs, attrs, {"StackMapTable"})
      /\ FitsU4(Size(WriteCode(cs, code)))
  BY DEF IsCode, Size, CodeLength
<1>2. /\ AttributesOK(cs, attrs)
      /\ AttributeBytes(cs, attrs) = [k \in DOMAIN attrs |-> WriteSimpleAttribute(cs, attrs[k])]
  BY <1>1, SimpleAttributes
<1>3. IsStack(es) /\ Len(es) \in Half /\ Len(es) \in Nat
  BY <1>1, TableIsStack
<1>l. length \in Nat
  BY <1>1
<1>m. PICK m \in Nat : m = Len(es)
  BY <1>3
<1>k. m \in Nat
  BY <1>m
<1>4. PICK a, b, c, d, e, f :
        /\ a = U2(code.maxStack) /\ b = U2(code.maxLocals) /\ c = U4(length) /\ d = code.code
        /\ e = U2(Len(es)) \o WriteAll(WriteException, es)
        /\ f = U2(Len(attrs)) \o Flat(AttributeBytes(cs, attrs))
  OBVIOUS
<1>5. WriteCode(cs, code) = a \o b \o c \o d \o e \o f
  <2>1. WriteTable(WriteException, es) = e
    BY <1>4 DEF WriteTable
  <2>2. U2(Len(attrs)) \o FlattenSeq([k \in DOMAIN attrs |-> WriteSimpleAttribute(cs, attrs[k])]) = f
    BY <1>2, <1>4 DEF Flat
  <2> QED BY <1>4, <2>1, <2>2 DEF WriteCode, WriteTable, WriteAll, CodeLength
<1>6. /\ IsBytes(a) /\ IsBytes(b) /\ IsBytes(c) /\ IsBytes(d) /\ IsBytes(f)
      /\ Size(a) = 2 /\ Size(b) = 2 /\ Size(c) = 4 /\ Size(d) = length
  BY <1>1, <1>2, <1>4, Sizes, AttributesWritten DEF IsBytes, Size, CodeLength
<1>7. AreBytes(ExceptionBytes(es)) /\ WriteAll(WriteException, es) = Flat(ExceptionBytes(es))
  BY <1>1, <1>3, ExceptionsWritten
<1>8. PICK g : g = WriteAll(WriteException, es) /\ IsBytes(g) /\ IsBytes(e) /\ Size(e) = 2 + Size(g)
  <2>1. IsBytes(WriteAll(WriteException, es)) /\ IsBytes(e) /\ Size(e) = 2 + Size(WriteAll(WriteException, es))
    BY <1>3, <1>4, <1>7, TableOf, RestFacts
  <2> QED BY <2>1
<1>9. IsBytes(WriteCode(cs, code))
  BY <1>5, <1>6, <1>8, Parts6
<1>10. ASSUME FileOK, NEW at \in Nat, Holds(at, WriteCode(cs, code))
       PROVE  /\ U2At(at) = code.maxStack /\ U2At(at + 2) = code.maxLocals
              /\ U4At(at + 4) = length /\ BytesAt(at + 8, length) = code.code
              /\ U2At(at + 8 + length) = Len(es)
              /\ ExceptionsAt(at + 8 + length + 2, Len(es)) = es
              /\ U2At(at + 8 + length + 2 + 8 * Len(es)) = Len(attrs)
              /\ Holds(at + 8 + length + 2 + 8 * Len(es) + 2, Flat(AttributeBytes(cs, attrs)))
              /\ at + Size(WriteCode(cs, code)) =
                   at + 8 + length + 2 + 8 * Len(es) + 2 + Size(Flat(AttributeBytes(cs, attrs)))
  <2>1. /\ Holds(at, a) /\ Holds(at + 2, b) /\ Holds(at + 2 + 2, c) /\ Holds(at + 2 + 2 + 4, d)
        /\ Holds(at + 2 + 2 + 4 + length, e) /\ Holds(at + 2 + 2 + 4 + length + Size(e), f)
        /\ Size(WriteCode(cs, code)) = 2 + 2 + 4 + length + Size(e) + Size(f)
    <3>1. Holds(at, a \o b \o c \o d \o e \o f)
      BY <1>5, <1>10
    <3>2. /\ IsBytes(a) /\ IsBytes(b) /\ IsBytes(c) /\ IsBytes(d) /\ IsBytes(e) /\ IsBytes(f)
          /\ Size(a) = 2 /\ Size(b) = 2 /\ Size(c) = 4 /\ Size(d) = length
      BY <1>6, <1>8
    <3>3. /\ Holds(at, a) /\ Holds(at + Size(a), b) /\ Holds(at + Size(a) + Size(b), c)
          /\ Holds(at + Size(a) + Size(b) + Size(c), d)
          /\ Holds(at + Size(a) + Size(b) + Size(c) + Size(d), e)
          /\ Holds(at + Size(a) + Size(b) + Size(c) + Size(d) + Size(e), f)
      BY <1>10, <3>1, <3>2, Parts6
    <3>4. Size(WriteCode(cs, code)) = Size(a) + Size(b) + Size(c) + Size(d) + Size(e) + Size(f)
      BY <1>5, <3>2, Parts6
    <3> QED BY <3>2, <3>3, <3>4
  <2>2. at + 2 + 2 = at + 4 /\ at + 2 + 2 + 4 = at + 8 /\ at + 2 + 2 + 4 + length = at + 8 + length
    BY <1>l
  <2>3. /\ Holds(at, a) /\ Holds(at + 2, b) /\ Holds(at + 4, c) /\ Holds(at + 8, d)
        /\ Holds(at + 8 + length, e) /\ Holds(at + 8 + length + Size(e), f)
    BY <2>1, <2>2
  <2>4. /\ U2At(at) = code.maxStack /\ U2At(at + 2) = code.maxLocals /\ U4At(at + 4) = length
    BY <1>1, <1>4, <1>10, <2>3, ReadU2, ReadU4 DEF FileOK
  <2>5. BytesAt(at + 8, length) = code.code
    <3>1. code.code \in Seq(Byte) /\ Holds(at + 8, code.code) /\ at + 8 \in Nat
      BY <1>1, <1>4, <2>3
    <3> QED BY <1>10, <3>1, ReadBytes DEF FileOK, CodeLength
  <2>6. PICK x \in Nat : x = at + 8 + length
    <3>1. at + 8 + length \in Nat
      BY <1>l
    <3> QED BY <3>1
  <2>7. U2At(x) = Len(es) /\ Holds(x + 2, g)
    <3>1. Holds(x, U2(Len(es)) \o g)
      BY <1>4, <1>8, <2>3, <2>6
    <3> QED BY <1>3, <1>8, <1>10, <3>1, ReadCount
  <2>8. ExceptionsAt(x + 2, Len(es)) = es /\ Size(g) = 8 * Len(es)
    <3>1. x + 2 \in Nat /\ Holds(x + 2, WriteAll(WriteException, es))
      BY <1>8, <2>7
    <3>2. ExceptionsAt(x + 2, Len(es)) = es /\ Size(WriteAll(WriteException, es)) = 8 * Len(es)
      BY <1>1, <1>3, <1>10, <3>1, ReadExceptions
    <3> QED BY <1>8, <3>2
  <2>9. PICK y \in Nat : y = x + 2 + 8 * Len(es)
    <3>1. x + 2 + 8 * m \in Nat
      BY <1>k
    <3> QED BY <1>m, <3>1
  <2>10. x + Size(e) = y
    <3>1. Size(e) = 2 + 8 * m /\ y = x + 2 + 8 * m
      BY <1>8, <1>m, <2>8, <2>9
    <3>2. x + (2 + 8 * m) = x + 2 + 8 * m
      BY <1>k
    <3> QED BY <3>1, <3>2
  <2>11. Holds(y, U2(Len(attrs)) \o Flat(AttributeBytes(cs, attrs)))
    BY <1>4, <2>3, <2>6, <2>10
  <2>12. U2At(y) = Len(attrs) /\ Holds(y + 2, Flat(AttributeBytes(cs, attrs)))
         /\ Size(f) = 2 + Size(Flat(AttributeBytes(cs, attrs)))
    <3>1. Len(attrs) \in Half /\ AreBytes(AttributeBytes(cs, attrs))
      BY <1>2, AttributesWritten
    <3> QED BY <1>4, <1>10, <2>11, <3>1, TableOf
  <2>13. at + Size(WriteCode(cs, code)) = y + 2 + Size(Flat(AttributeBytes(cs, attrs)))
    <3>1. PICK z \in Nat : z = Size(Flat(AttributeBytes(cs, attrs)))
      BY <1>2, AttributesWritten, RestFacts, Sizes
    <3>2. PICK s \in Nat : s = Size(e)
      BY <1>8, Sizes
    <3>3. Size(WriteCode(cs, code)) = 2 + 2 + 4 + length + s + (2 + z)
      BY <2>1, <2>12, <3>1, <3>2
    <3>4. x = at + 8 + length /\ y = x + s
      BY <2>6, <2>10, <3>2
    <3>5. at + Size(WriteCode(cs, code)) = y + 2 + z
      <4>1. length \in Nat /\ s \in Nat /\ z \in Nat
        BY <1>l, <3>1, <3>2
      <4> QED BY <3>3, <3>4, <4>1
    <3> QED BY <3>1, <3>5
  <2> QED BY <2>4, <2>5, <2>6, <2>7, <2>8, <2>9, <2>12, <2>13
<1>11. FileOK => \A at \in Nat : Holds(at, WriteCode(cs, code)) =>
            CodeReads(cs, code, attrs, es, length, at)
  BY <1>10 DEF CodeReads
<1> QED BY <1>1, <1>2, <1>3, <1>9, <1>11

-----------------------------------------------------------------------------
(* Members, and the sections of a class file.                              *)

(* From a place on, the file holds just these bytes.                       *)
Follows(at, s) == Holds(at, s) /\ at + Size(s) = Len(file)

LEMMA FollowsConcat ==
    ASSUME FileOK, NEW a, NEW b, IsBytes(a), IsBytes(b), NEW at \in Nat
    PROVE  Follows(at, a \o b) <=> Holds(at, a) /\ Follows(at + Size(a), b)
<1>1. /\ Size(a \o b) = Size(a) + Size(b)
      /\ Holds(at, a \o b) <=> Holds(at, a) /\ Holds(at + Size(a), b)
  BY Parts2
<1>2. Size(a) \in Nat /\ Size(b) \in Nat
  BY Sizes
<1>3. at + (Size(a) + Size(b)) = at + Size(a) + Size(b)
  BY <1>2
<1> QED BY <1>1, <1>3 DEF Follows

LEMMA FollowsNext ==
    ASSUME FileOK, NEW seqs, AreBytes(seqs), NEW b, IsBytes(b), NEW i \in 0 .. Len(seqs) - 1,
           NEW at \in Nat, Follows(at, Rest(seqs, i) \o b)
    PROVE  /\ Holds(at, seqs[i + 1]) /\ IsBytes(seqs[i + 1])
           /\ Follows(at + Size(seqs[i + 1]), Rest(seqs, i + 1) \o b)
<1>1. i \in 0 .. Len(seqs) /\ i + 1 \in 0 .. Len(seqs)
  BY RestFacts
<1>2. /\ IsBytes(Rest(seqs, i)) /\ IsBytes(Rest(seqs, i + 1)) /\ IsBytes(seqs[i + 1])
      /\ Size(Rest(seqs, i)) = Size(seqs[i + 1]) + Size(Rest(seqs, i + 1))
  BY <1>1, RestFacts
<1>3. PICK x \in Nat, y \in Nat : x = Size(seqs[i + 1]) /\ y = Size(Rest(seqs, i + 1))
  BY <1>2, Sizes
<1>4. Holds(at, Rest(seqs, i)) /\ Follows(at + Size(Rest(seqs, i)), b)
  BY <1>2, FollowsConcat
<1>5. Holds(at, seqs[i + 1]) /\ Holds(at + x, Rest(seqs, i + 1))
  BY <1>3, <1>4, RestFacts
<1>6. at + Size(Rest(seqs, i)) = at + x + y
  <2>1. Size(Rest(seqs, i)) = x + y
    BY <1>2, <1>3
  <2>2. at + (x + y) = at + x + y /\ at + x \in Nat
    OBVIOUS
  <2> QED BY <2>1, <2>2
<1>7. Follows(at + x, Rest(seqs, i + 1) \o b)
  <2>1. at + x \in Nat
    OBVIOUS
  <2> QED BY <1>2, <1>3, <1>4, <1>5, <1>6, <2>1, FollowsConcat
<1> QED BY <1>2, <1>3, <1>5, <1>7

LEMMA FollowsEnd ==
    ASSUME FileOK, NEW seqs, AreBytes(seqs), NEW b, IsBytes(b), NEW i, i = Len(seqs),
           NEW at \in Nat, Follows(at, Rest(seqs, i) \o b)
    PROVE  Follows(at, b)
<1>1. Rest(seqs, i) = <<>> /\ IsBytes(<<>>) /\ Size(<<>>) = 0
  BY RestFacts, Sizes
<1>2. Follows(at + 0, b)
  BY <1>1, FollowsConcat
<1> QED BY <1>2

TableBytes(seqs) == U2(Len(seqs)) \o Flat(seqs)

LEMMA FollowsTable ==
    ASSUME FileOK, NEW seqs, AreBytes(seqs), Len(seqs) \in Half, NEW b, IsBytes(b),
           NEW at \in Nat, Follows(at, TableBytes(seqs) \o b)
    PROVE  U2At(at) = Len(seqs) /\ Follows(at + 2, Rest(seqs, 0) \o b)
<1>1. IsBytes(TableBytes(seqs)) /\ Size(TableBytes(seqs)) = 2 + Size(Flat(seqs))
  BY TableOf DEF TableBytes
<1>2. Holds(at, TableBytes(seqs)) /\ Follows(at + Size(TableBytes(seqs)), b)
  BY <1>1, FollowsConcat
<1>3. U2At(at) = Len(seqs) /\ Holds(at + 2, Flat(seqs))
  BY <1>2, TableOf DEF TableBytes
<1>4. IsBytes(Flat(seqs)) /\ Rest(seqs, 0) = Flat(seqs) /\ Size(Flat(seqs)) \in Nat
  BY RestFacts, Sizes
<1>5. at + (2 + Size(Flat(seqs))) = at + 2 + Size(Flat(seqs)) /\ at + 2 \in Nat
  BY <1>4
<1>6. Follows(at + 2, Flat(seqs) \o b)
  BY <1>1, <1>2, <1>3, <1>4, <1>5, FollowsConcat
<1> QED BY <1>3, <1>4, <1>6

LEMMA FollowsInFile ==
    ASSUME FileOK, NEW s, IsBytes(s), NEW at \in Nat, Follows(at, s)
    PROVE  at <= Len(file)
<1>1. Size(s) \in Nat /\ at + Size(s) = Len(file)
  BY Sizes DEF Follows
<1> QED BY <1>1

LEMMA FollowsNothing ==
    ASSUME NEW at \in Nat, Follows(at, <<>>)
    PROVE  at = Len(file)
<1>1. Size(<<>>) = 0 /\ at + Size(<<>>) = Len(file)
  BY Sizes DEF Follows
<1> QED BY <1>1

-----------------------------------------------------------------------------
LEMMA MethodAttributes ==
    ASSUME NEW cs, PoolOK(cs), NEW attrs, AreMethodAttributes(cs, attrs)
    PROVE  AttributesOK(cs, attrs)
<1>1. ASSUME NEW k \in DOMAIN attrs
      PROVE  IsBytes(Content(cs, attrs[k])) /\ FitsU4(Size(Content(cs, attrs[k])))
  <2>1. CASE attrs[k].name = AttributeName.Code
    <3>1. IsCode(cs, attrs[k].info)
      BY <2>1 DEF AreMethodAttributes
    <3>2. IsBytes(WriteCode(cs, attrs[k].info)) /\ FitsU4(Size(WriteCode(cs, attrs[k].info)))
      BY <3>1, CodeWritten
    <3> QED BY <2>1, <3>2 DEF Content
  <2>2. CASE attrs[k].name # AttributeName.Code
    <3>1. IsSimpleInfo(attrs[k])
      BY <2>2 DEF AreMethodAttributes
    <3> QED BY <2>2, <3>1, SimpleInfoWritten DEF Content
  <2> QED BY <2>1, <2>2
<1> QED BY <1>1 DEF AreMethodAttributes, AreAttributes, AttributesOK

MemberOK(cs, m) == HasNumbers(m) /\ AttributesOK(cs, m.attributes)

LEMMA MemberWritten ==
    ASSUME NEW cs, PoolOK(cs), NEW m, MemberOK(cs, m)
    PROVE  /\ IsBytes(WriteMember(cs, m))
           /\ Size(WriteMember(cs, m)) = 8 + Size(Flat(AttributeBytes(cs, m.attributes)))
           /\ FileOK => \A at \in Nat : Holds(at, WriteMember(cs, m)) =>
                /\ U2At(at) = m.accessFlags /\ U2At(at + 2) = m.nameIndex
                /\ U2At(at + 4) = m.descriptorIndex /\ U2At(at + 6) = Len(m.attributes)
                /\ Holds(at + 8, Flat(AttributeBytes(cs, m.attributes)))
<1>1. /\ m.accessFlags \in Half /\ m.nameIndex \in Half /\ m.descriptorIndex \in Half
      /\ AttributesOK(cs, m.attributes)
  BY DEF MemberOK, HasNumbers
<1>2. PICK attrs : attrs = m.attributes
  OBVIOUS
<1>3. PICK a, b, c, d, s : /\ a = U2(m.accessFlags) /\ b = U2(m.nameIndex) /\ c = U2(m.descriptorIndex)
                        /\ d = U2(Len(attrs)) \o s /\ s = Flat(AttributeBytes(cs, attrs))
  OBVIOUS
<1>4. /\ IsBytes(a) /\ IsBytes(b) /\ IsBytes(c) /\ IsBytes(d)
      /\ Size(a) = 2 /\ Size(b) = 2 /\ Size(c) = 2 /\ Size(d) = 2 + Size(s) /\ IsBytes(s)
  BY <1>1, <1>2, <1>3, Sizes, AttributesWritten, TableOf, RestFacts
<1>5. WriteMember(cs, m) = a \o b \o c \o d
  BY <1>2, <1>3 DEF WriteMember, WriteTable, WriteAll, Flat, AttributeBytes
<1>6. IsBytes(WriteMember(cs, m)) /\ Size(WriteMember(cs, m)) = 8 + Size(s)
  <2>1. IsBytes(WriteMember(cs, m)) /\ Size(WriteMember(cs, m)) = Size(a) + Size(b) + Size(c) + Size(d)
    BY <1>4, <1>5, Parts4
  <2>2. PICK z \in Nat : z = Size(s)
    BY <1>4, Sizes
  <2> QED BY <1>4, <2>1, <2>2
<1>7. ASSUME FileOK, NEW at \in Nat, Holds(at, WriteMember(cs, m))
      PROVE  /\ U2At(at) = m.accessFlags /\ U2At(at + 2) = m.nameIndex
             /\ U2At(at + 4) = m.descriptorIndex /\ U2At(at + 6) = Len(attrs)
             /\ Holds(at + 8, s)
  <2>1. Holds(at, a) /\ Holds(at + 2, b) /\ Holds(at + 2 + 2, c) /\ Holds(at + 2 + 2 + 2, d)
    BY <1>4, <1>5, <1>7, Parts4
  <2>2. at + 2 + 2 = at + 4 /\ at + 2 + 2 + 2 = at + 6 /\ at + 6 + 2 = at + 8 /\ at + 6 \in Nat
    OBVIOUS
  <2>3. U2At(at + 6) = Len(attrs) /\ Holds(at + 6 + 2, s)
    <3>1. Len(attrs) \in Half
      BY <1>1, <1>2, AttributesWritten
    <3>2. Holds(at + 6, U2(Len(attrs)) \o s)
      BY <1>3, <2>1, <2>2
    <3> QED BY <1>4, <1>7, <2>2, <3>1, <3>2, ReadCount
  <2>4. /\ Holds(at, U2(m.accessFlags)) /\ Holds(at + 2, U2(m.nameIndex))
        /\ Holds(at + 4, U2(m.descriptorIndex))
    BY <1>3, <2>1, <2>2
  <2>5. /\ U2At(at) = m.accessFlags /\ U2At(at + 2) = m.nameIndex
        /\ U2At(at + 4) = m.descriptorIndex
    BY <1>1, <1>7, <2>4, ReadU2 DEF FileOK
  <2> QED BY <2>2, <2>3, <2>5
<1> QED BY <1>2, <1>3, <1>6, <1>7

MemberBytes(cs, ms) == [k \in DOMAIN ms |-> WriteMember(cs, ms[k])]

LEMMA MembersWritten ==
    ASSUME NEW cs, PoolOK(cs), NEW ms, IsTable(ms), \A k \in DOMAIN ms : MemberOK(cs, ms[k])
    PROVE  /\ AreBytes(MemberBytes(cs, ms)) /\ Len(MemberBytes(cs, ms)) = Len(ms)
           /\ \A k \in 1 .. Len(ms) : MemberBytes(cs, ms)[k] = WriteMember(cs, ms[k])
<1>0. IsStack(ms) /\ DOMAIN ms = 1 .. Len(ms)
  BY TableIsStack
<1>1. \A k \in DOMAIN ms : /\ MemberBytes(cs, ms)[k] = WriteMember(cs, ms[k])
                           /\ IsBytes(MemberBytes(cs, ms)[k])
  BY MemberWritten DEF MemberBytes
<1>2. MemberBytes(cs, ms) = [k \in DOMAIN ms |-> MemberBytes(cs, ms)[k]]
  BY DEF MemberBytes
<1> QED BY <1>0, <1>1, <1>2, WrittenItems

ConstantBytes(cs) == [k \in DOMAIN cs |-> WriteConstant(cs[k])]

LEMMA ConstantsWritten ==
    ASSUME NEW cs, IsTable(cs), \A i \in DOMAIN cs : IsConstant(cs[i])
    PROVE  /\ AreBytes(ConstantBytes(cs)) /\ Len(ConstantBytes(cs)) = Len(cs)
           /\ \A k \in 1 .. Len(cs) : ConstantBytes(cs)[k] = WriteConstant(cs[k])
<1>0. IsStack(cs) /\ DOMAIN cs = 1 .. Len(cs)
  BY TableIsStack
<1>1. \A k \in DOMAIN cs : /\ ConstantBytes(cs)[k] = WriteConstant(cs[k])
                           /\ IsBytes(ConstantBytes(cs)[k])
  BY ConstantWritten DEF ConstantBytes
<1>2. ConstantBytes(cs) = [k \in DOMAIN cs |-> ConstantBytes(cs)[k]]
  BY DEF ConstantBytes
<1> QED BY <1>0, <1>1, <1>2, WrittenItems

-----------------------------------------------------------------------------
ClassOK(cf) ==
    /\ PoolOK(cf.constants) /\ \A i \in DOMAIN cf.constants : IsConstant(cf.constants[i])
    /\ \A members \in {"fields", "methods"} :
        IsTable(cf[members]) /\ \A k \in DOMAIN cf[members] : MemberOK(cf.constants, cf[members][k])
    /\ AttributesOK(cf.constants, cf.attributes)

LEMMA ClassFileOK ==
    ASSUME NEW cf, IsClassFile(cf)
    PROVE  ClassOK(cf)
<1>1. PoolOK(cf.constants) /\ \A i \in DOMAIN cf.constants : IsConstant(cf.constants[i])
  BY DEF IsClassFile, PoolOK, IsConstant
<1>2. IsTable(cf.fields) /\ \A k \in DOMAIN cf.fields : MemberOK(cf.constants, cf.fields[k])
  <2>1. IsTable(cf.fields)
    BY DEF IsClassFile
  <2>2. ASSUME NEW k \in DOMAIN cf.fields PROVE MemberOK(cf.constants, cf.fields[k])
    <3>1. /\ HasNumbers(cf.fields[k])
          /\ AreSimpleAttributes(cf.constants, cf.fields[k].attributes, {"ConstantValue"})
      BY DEF IsClassFile
    <3> QED BY <1>1, <3>1, SimpleAttributes DEF MemberOK
  <2> QED BY <2>1, <2>2
<1>3. IsTable(cf.methods) /\ \A k \in DOMAIN cf.methods : MemberOK(cf.constants, cf.methods[k])
  <2>1. IsTable(cf.methods)
    BY DEF IsClassFile
  <2>2. ASSUME NEW k \in DOMAIN cf.methods PROVE MemberOK(cf.constants, cf.methods[k])
    <3>1. /\ HasNumbers(cf.methods[k])
          /\ AreMethodAttributes(cf.constants, cf.methods[k].attributes)
      BY DEF IsClassFile
    <3> QED BY <1>1, <3>1, MethodAttributes DEF MemberOK
  <2> QED BY <2>1, <2>2
<1>4. AttributesOK(cf.constants, cf.attributes)
  <2>1. AreSimpleAttributes(cf.constants, cf.attributes,
                            {"SourceFile", "BootstrapMethods", "NestHost", "NestMembers"})
    BY DEF IsClassFile
  <2> QED BY <1>1, <2>1, SimpleAttributes
<1> QED BY <1>1, <1>2, <1>3, <1>4 DEF ClassOK

-----------------------------------------------------------------------------
(* Class files as they are written.                                        *)

(* What follows in a class file after its methods, and so on backwards.    *)
AfterMethods(cf) == TableBytes(AttributeBytes(cf.constants, cf.attributes)) \o <<>>
AfterFields(cf) == TableBytes(MemberBytes(cf.constants, cf.methods)) \o AfterMethods(cf)
AfterAccess(cf) == TableBytes(MemberBytes(cf.constants, cf.fields)) \o AfterFields(cf)
AfterConstants(cf) ==
    WriteAll(U2, cf.access) \o (TableBytes(HalfBytes(cf.interfaces)) \o AfterAccess(cf))

LEMMA TableBytesFacts ==
    ASSUME NEW seqs, AreBytes(seqs), Len(seqs) \in Half
    PROVE  IsBytes(TableBytes(seqs)) /\ Size(TableBytes(seqs)) = 2 + Size(Flat(seqs))
BY TableOf DEF TableBytes

LEMMA SectionBytes ==
    ASSUME NEW cf, IsClassFile(cf)
    PROVE  /\ IsBytes(AfterMethods(cf)) /\ IsBytes(AfterFields(cf)) /\ IsBytes(AfterAccess(cf))
           /\ IsBytes(AfterConstants(cf))
           /\ IsBytes(TableBytes(AttributeBytes(cf.constants, cf.attributes)))
           /\ IsBytes(TableBytes(MemberBytes(cf.constants, cf.methods)))
           /\ IsBytes(TableBytes(MemberBytes(cf.constants, cf.fields)))
           /\ IsBytes(TableBytes(HalfBytes(cf.interfaces))) /\ IsBytes(WriteAll(U2, cf.access))
           /\ IsStack(cf.interfaces) /\ Len(cf.interfaces) \in Half
           /\ \A k \in 1 .. Len(cf.interfaces) : cf.interfaces[k] \in Half
           /\ IsStack(cf.access) /\ Len(cf.access) = 3 /\ \A k \in 1 .. 3 : cf.access[k] \in Half
<1>1. ClassOK(cf)
  BY ClassFileOK
<1>2. /\ IsStack(cf.interfaces) /\ Len(cf.interfaces) \in Half
      /\ \A k \in 1 .. Len(cf.interfaces) : cf.interfaces[k] \in Half
  BY TableIsStack DEF IsClassFile
<1>3. IsStack(cf.access) /\ Len(cf.access) = 3 /\ \A k \in 1 .. 3 : cf.access[k] \in Half
  <2>1. cf.access \in Seq(Half) /\ Len(cf.access) = 3
    BY DEF IsClassFile
  <2> QED BY <2>1, SeqIsStack
<1>4. IsBytes(TableBytes(AttributeBytes(cf.constants, cf.attributes)))
  <2>1. PICK attrs : attrs = AttributeBytes(cf.constants, cf.attributes)
    OBVIOUS
  <2>2. AreBytes(attrs) /\ Len(attrs) \in Half
    BY <1>1, <2>1, AttributesWritten DEF ClassOK
  <2> QED BY <2>1, <2>2, TableBytesFacts
<1>5. ASSUME NEW members \in {"fields", "methods"}
      PROVE  IsBytes(TableBytes(MemberBytes(cf.constants, cf[members])))
  <2>1. PICK ms : ms = MemberBytes(cf.constants, cf[members])
    OBVIOUS
  <2>2. /\ PoolOK(cf.constants) /\ IsTable(cf[members])
        /\ \A k \in DOMAIN cf[members] : MemberOK(cf.constants, cf[members][k])
    BY <1>1 DEF ClassOK
  <2>3. AreBytes(ms) /\ Len(ms) \in Half
    BY <2>1, <2>2, MembersWritten, TableIsStack
  <2> QED BY <2>1, <2>3, TableBytesFacts
<1>6. IsBytes(TableBytes(HalfBytes(cf.interfaces)))
  <2>1. AreBytes(HalfBytes(cf.interfaces)) /\ Len(HalfBytes(cf.interfaces)) \in Half
    BY <1>2, HalvesWritten
  <2> QED BY <2>1, TableBytesFacts
<1>7. IsBytes(WriteAll(U2, cf.access))
  BY <1>3, HalvesWritten
<1>8. IsBytes(AfterMethods(cf))
  BY <1>4, Sizes, Parts2 DEF AfterMethods
<1>9. IsBytes(AfterFields(cf))
  BY <1>5, <1>8, Parts2 DEF AfterFields
<1>10. IsBytes(AfterAccess(cf))
  BY <1>5, <1>9, Parts2 DEF AfterAccess
<1>11. IsBytes(AfterConstants(cf))
  <2>1. IsBytes(TableBytes(HalfBytes(cf.interfaces)) \o AfterAccess(cf))
    BY <1>6, <1>10, Parts2
  <2> QED BY <1>7, <2>1, Parts2 DEF AfterConstants
<1> QED BY <1>2, <1>3, <1>4, <1>5, <1>6, <1>7, <1>8, <1>9, <1>10, <1>11

LEMMA FollowsRegrouped ==
    ASSUME FileOK, NEW a, NEW b, NEW c, IsBytes(a), IsBytes(b), IsBytes(c), NEW at \in Nat,
           Follows(at, a \o b \o c)
    PROVE  Follows(at, a \o (b \o c))
<1>1. PICK d : d = a \o b
  OBVIOUS
<1>2. PICK e : e = b \o c
  OBVIOUS
<1>3. /\ IsBytes(d) /\ Size(d) = Size(a) + Size(b) /\ IsBytes(e)
      /\ Holds(at, d) <=> Holds(at, a) /\ Holds(at + Size(a), b)
  BY <1>1, <1>2, Parts2
<1>4. Size(a) \in Nat /\ Size(b) \in Nat
  BY Sizes
<1>5. at + (Size(a) + Size(b)) = at + Size(a) + Size(b) /\ at + Size(a) \in Nat
  BY <1>4
<1>6. Holds(at, d) /\ Follows(at + Size(d), c)
  BY <1>1, <1>3, FollowsConcat
<1>7. Holds(at, a) /\ Holds(at + Size(a), b) /\ Follows(at + Size(a) + Size(b), c)
  BY <1>3, <1>5, <1>6
<1>8. Follows(at + Size(a), e)
  BY <1>2, <1>5, <1>7, FollowsConcat
<1> QED BY <1>2, <1>3, <1>7, <1>8, FollowsConcat

LEMMA Regrouped ==
    ASSUME NEW a, NEW b, NEW c, NEW d, NEW e, NEW f, NEW g, NEW h,
           IsBytes(a), IsBytes(b), IsBytes(c), IsBytes(d), IsBytes(e), IsBytes(f), IsBytes(g),
           IsBytes(h), FileOK, Follows(0, a \o b \o c \o d \o e \o f \o g \o h)
    PROVE  /\ Holds(0, a) /\ Holds(Size(a), b)
           /\ Follows(Size(a) + Size(b), c \o (d \o (e \o (f \o (g \o h)))))
<1>1. PICK b1, c1, d1, e1, f1, g1 :
        /\ b1 = a \o b /\ c1 = b1 \o c /\ d1 = c1 \o d /\ e1 = d1 \o e /\ f1 = e1 \o f /\ g1 = f1 \o g
  OBVIOUS
<1>2. PICK g2, f2, e2, d2, c2 :
        g2 = g \o h /\ f2 = f \o g2 /\ e2 = e \o f2 /\ d2 = d \o e2 /\ c2 = c \o d2
  OBVIOUS
<1>3. IsBytes(b1) /\ IsBytes(c1) /\ IsBytes(d1) /\ IsBytes(e1) /\ IsBytes(f1) /\ IsBytes(g1)
  BY <1>1, Parts2
<1>4. IsBytes(g2) /\ IsBytes(f2) /\ IsBytes(e2) /\ IsBytes(d2) /\ IsBytes(c2)
  BY <1>2, Parts2
<1>5. Follows(0, f1 \o g \o h) /\ 0 \in Nat
  BY <1>1
<1>6. Follows(0, f1 \o g2)
  BY <1>2, <1>3, <1>5, FollowsRegrouped
<1>7. Follows(0, e1 \o f2)
  BY <1>1, <1>2, <1>3, <1>4, <1>6, FollowsRegrouped
<1>8. Follows(0, d1 \o e2)
  BY <1>1, <1>2, <1>3, <1>4, <1>7, FollowsRegrouped
<1>9. Follows(0, c1 \o d2)
  BY <1>1, <1>2, <1>3, <1>4, <1>8, FollowsRegrouped
<1>10. Follows(0, b1 \o c2)
  BY <1>1, <1>2, <1>3, <1>4, <1>9, FollowsRegrouped
<1>11. Holds(0, b1) /\ Follows(0 + Size(b1), c2)
  BY <1>3, <1>4, <1>10, FollowsConcat
<1>12. /\ Size(b1) = Size(a) + Size(b) /\ Holds(0, a) /\ Holds(0 + Size(a), b)
  BY <1>1, <1>11, Parts2
<1>13. Size(a) \in Nat /\ Size(b) \in Nat
  BY Sizes
<1>14. 0 + Size(a) = Size(a) /\ 0 + (Size(a) + Size(b)) = Size(a) + Size(b)
  BY <1>13
<1> QED BY <1>2, <1>11, <1>12, <1>14

LEMMA HoldsItself ==
    ASSUME NEW s, IsBytes(s), file = s
    PROVE  FileOK /\ Follows(0, s)
<1>1. file \in Seq(Byte) /\ Len(file) \in Nat
  BY DEF IsBytes
<1>2. 0 + Len(file) = Len(file) /\ \A k \in 1 .. Len(file) : 0 + k = k
  BY <1>1
<1> QED BY <1>1, <1>2 DEF FileOK, Follows, Holds, Size

LEMMA ClassFileWritten ==
    ASSUME NEW cf, IsClassFile(cf)
    PROVE  /\ IsBytes(WriteClassFile(cf))
           /\ file = WriteClassFile(cf) =>
                /\ FileOK
                /\ HalvesAt(0, 4) = cf.version /\ U2At(8) = PoolCount(cf.constants)
                /\ Follows(10, Rest(ConstantBytes(cf.constants), 0) \o AfterConstants(cf))
<1>0. PICK cs : cs = cf.constants
  OBVIOUS
<1>1. /\ ClassOK(cf) /\ PoolOK(cs) /\ PoolCount(cs) \in Half
      /\ IsTable(cs) /\ \A i \in DOMAIN cs : IsConstant(cs[i])
  BY <1>0, ClassFileOK DEF ClassOK, PoolOK
<1>2. PICK a, b, c, d, e, f, g, h :
        /\ a = WriteAll(U2, cf.version) /\ b = U2(PoolCount(cs)) /\ c = Flat(ConstantBytes(cs))
        /\ d = WriteAll(U2, cf.access) /\ e = TableBytes(HalfBytes(cf.interfaces))
        /\ f = TableBytes(MemberBytes(cs, cf.fields)) /\ g = TableBytes(MemberBytes(cs, cf.methods))
        /\ h = TableBytes(AttributeBytes(cs, cf.attributes))
  OBVIOUS
<1>3. IsStack(cf.version) /\ Len(cf.version) = 4 /\ \A k \in 1 .. Len(cf.version) : cf.version[k] \in Half
  <2>1. cf.version \in Seq(Half) /\ Len(cf.version) = 4
    BY DEF IsClassFile
  <2> QED BY <2>1, SeqIsStack
<1>4. IsBytes(a)
  BY <1>2, <1>3, HalvesWritten
<1>5. IsBytes(b) /\ Size(b) = 2
  BY <1>1, <1>2, Sizes
<1>6. AreBytes(ConstantBytes(cs)) /\ IsBytes(c) /\ c = Rest(ConstantBytes(cs), 0)
  BY <1>1, <1>2, ConstantsWritten, RestFacts
<1>7. IsBytes(d) /\ IsBytes(e) /\ IsBytes(f) /\ IsBytes(g) /\ IsBytes(h)
  BY <1>0, <1>2, SectionBytes
<1>8. WriteClassFile(cf) = a \o b \o c \o d \o e \o f \o g \o h
  <2>1. /\ a = WriteAll(U2, cf.version) /\ b = U2(PoolCount(cs)) /\ d = WriteAll(U2, cf.access)
        /\ c = WriteAll(WriteConstant, cs)
    BY <1>2 DEF WriteAll, Flat, ConstantBytes
  <2>2. WriteTable(U2, cf.interfaces) = e
    <3>1. Len(HalfBytes(cf.interfaces)) = Len(cf.interfaces)
      BY SectionBytes, HalvesWritten
    <3> QED BY <1>2, <3>1 DEF WriteTable, WriteAll, TableBytes, Flat, HalfBytes
  <2>3. ASSUME NEW members \in {"fields", "methods"}
        PROVE  U2(Len(cf[members])) \o FlattenSeq([k \in DOMAIN cf[members] |-> WriteMember(cs, cf[members][k])])
                = TableBytes(MemberBytes(cs, cf[members]))
    <3>1. Len(MemberBytes(cs, cf[members])) = Len(cf[members])
      BY <1>0, <1>1, MembersWritten DEF ClassOK
    <3> QED BY <3>1 DEF TableBytes, Flat, MemberBytes
  <2>4. U2(Len(cf.attributes)) \o FlattenSeq([k \in DOMAIN cf.attributes |-> WriteAnyAttribute(cs, cf.attributes[k])])
                = TableBytes(AttributeBytes(cs, cf.attributes))
    <3>1. Len(AttributeBytes(cs, cf.attributes)) = Len(cf.attributes)
      BY <1>0, <1>1, AttributesWritten DEF ClassOK
    <3> QED BY <3>1 DEF TableBytes, Flat, AttributeBytes
  <2>5. /\ U2(Len(cf.fields)) \o FlattenSeq([k \in DOMAIN cf.fields |-> WriteMember(cs, cf.fields[k])]) = f
        /\ U2(Len(cf.methods)) \o FlattenSeq([k \in DOMAIN cf.methods |-> WriteMember(cs, cf.methods[k])]) = g
    BY <1>2, <2>3
  <2>6. WriteClassFile(cf) =
            a \o b \o c \o d \o WriteTable(U2, cf.interfaces)
            \o (U2(Len(cf.fields)) \o FlattenSeq([k \in DOMAIN cf.fields |-> WriteMember(cs, cf.fields[k])]))
            \o (U2(Len(cf.methods)) \o FlattenSeq([k \in DOMAIN cf.methods |-> WriteMember(cs, cf.methods[k])]))
            \o (U2(Len(cf.attributes))
                \o FlattenSeq([k \in DOMAIN cf.attributes |-> WriteAnyAttribute(cs, cf.attributes[k])]))
    <3> HIDE DEF WriteMember
    <3> QED BY <1>0, <2>1, Zenon DEF WriteClassFile, WriteTable, WriteAll
  <2> QED BY <1>2, <2>2, <2>4, <2>5, <2>6
<1>9. IsBytes(WriteClassFile(cf))
  <2>1. PICK s : s = a \o b \o c \o d \o e \o f /\ IsBytes(s)
    BY <1>4, <1>5, <1>6, <1>7, Parts6
  <2>2. IsBytes(s \o g \o h)
    BY <1>7, <2>1, Parts3
  <2> QED BY <1>8, <2>1, <2>2
<1>10. ASSUME file = WriteClassFile(cf)
       PROVE  /\ FileOK
              /\ HalvesAt(0, 4) = cf.version /\ U2At(8) = PoolCount(cs)
              /\ Follows(10, Rest(ConstantBytes(cs), 0) \o AfterConstants(cf))
  <2>1. FileOK /\ Follows(0, a \o b \o c \o d \o e \o f \o g \o h)
    BY <1>8, <1>9, <1>10, HoldsItself
  <2>2. /\ Holds(0, a) /\ Holds(Size(a), b)
        /\ Follows(Size(a) + Size(b), c \o (d \o (e \o (f \o (g \o h)))))
    BY <1>4, <1>5, <1>6, <1>7, <2>1, Regrouped
  <2>3. HalvesAt(0, 4) = cf.version /\ Size(a) = 8
    <3>1. HalvesAt(0, Len(cf.version)) = cf.version /\ Size(WriteAll(U2, cf.version)) = 2 * Len(cf.version)
      BY <1>2, <1>3, <2>1, <2>2, ReadHalves
    <3> QED BY <1>2, <1>3, <3>1
  <2>4. Holds(8, b) /\ Follows(10, c \o (d \o (e \o (f \o (g \o h)))))
    BY <1>5, <2>2, <2>3
  <2>5. U2At(8) = PoolCount(cs)
    BY <1>1, <1>2, <2>1, <2>4, ReadU2 DEF FileOK
  <2>6. c \o (d \o (e \o (f \o (g \o (h \o <<>>))))) = Rest(ConstantBytes(cs), 0) \o AfterConstants(cf)
    BY <1>0, <1>2, <1>6 DEF AfterConstants, AfterAccess, AfterFields, AfterMethods
  <2>7. h \o <<>> = h
    BY <1>7 DEF IsBytes
  <2> QED BY <2>1, <2>3, <2>4, <2>5, <2>6, <2>7
<1> QED BY <1>0, <1>9, <1>10

-----------------------------------------------------------------------------
(* The loops under way.                                                    *)

(* What the loops under way become.                                        *)
LEMMA TopChanges ==
    ASSUME IsStack(tasks), NEW n \in Nat, n = Len(tasks), n > 0, NEW x
    PROVE  /\ IsStack(WithTop(x)) /\ Len(WithTop(x)) = n /\ WithTop(x)[n] = x
           /\ \A k \in 1 .. n - 1 : WithTop(x)[k] = tasks[k]
<1>1. n \in 1 .. Len(tasks)  OBVIOUS
<1>2. \A k \in 1 .. n - 1 : k \in 1 .. Len(tasks) /\ k # n  OBVIOUS
<1>3. WithTop(x) = [tasks EXCEPT ![n] = x]  BY DEF WithTop
<1>4. IsStack(WithTop(x))
  <2>1. IsStack([tasks EXCEPT ![n] = x])  BY <1>1, ExceptStack
  <2> QED  BY <1>3, <2>1
<1>5. Len(WithTop(x)) = n  BY <1>1, <1>3, ExceptStack
<1>6. WithTop(x)[n] = x  BY <1>1, <1>3, ExceptStack
<1>7. \A k \in 1 .. n - 1 : WithTop(x)[k] = tasks[k]  BY <1>1, <1>2, <1>3, ExceptStack
<1> QED  BY <1>4, <1>5, <1>6, <1>7

LEMMA TaskCalls ==
    ASSUME IsStack(tasks), NEW n \in Nat, n = Len(tasks), n > 0, NEW x, NEW y
    PROVE  /\ IsStack(Calling(x, y)) /\ Len(Calling(x, y)) = n + 1
           /\ Calling(x, y)[n] = x /\ Calling(x, y)[n + 1] = y
           /\ \A k \in 1 .. n - 1 : Calling(x, y)[k] = tasks[k]
<1>1. /\ IsStack(WithTop(x)) /\ Len(WithTop(x)) = n /\ WithTop(x)[n] = x
      /\ \A k \in 1 .. n - 1 : WithTop(x)[k] = tasks[k]
  BY TopChanges
<1>2. n \in 1 .. n /\ \A k \in 1 .. n - 1 : k \in 1 .. n  OBVIOUS
<1> QED  BY <1>1, <1>2, AppendStack DEF Calling

LEMMA TasksReturn ==
    ASSUME IsStack(tasks), NEW n, n = Len(tasks) - 1, n > 0, NEW ai
    PROVE  /\ n \in Nat /\ Top = tasks[n + 1] /\ Caller = tasks[n]
           /\ IsStack(Callers) /\ Len(Callers) = n /\ \A k \in 1 .. n : Callers[k] = tasks[k]
           /\ IsStack(CallerWith(ai)) /\ Len(CallerWith(ai)) = n
           /\ CallerWith(ai)[n] = Found(Caller, ai)
           /\ \A k \in 1 .. n - 1 : CallerWith(ai)[k] = tasks[k]
<1> n \in Nat /\ Top = tasks[n + 1] /\ Caller = tasks[n] /\ Len(tasks) > 0
  BY DEF IsStack, Top, Caller
<1>1. IsStack(Callers) /\ Len(Callers) = n /\ \A k \in 1 .. n : Callers[k] = tasks[k]
  BY FrontStack DEF Callers
<1>2. CallerWith(ai) = [Callers EXCEPT ![n] = Found(Caller, ai)]  BY <1>1 DEF CallerWith
<1>3. \A k \in 1 .. n - 1 : k \in 1 .. Len(Callers) /\ k # n /\ Callers[k] = tasks[k]  BY <1>1
<1>4. n \in 1 .. Len(Callers)  BY <1>1
<1>5. LET x == Found(Caller, ai)
          s == [Callers EXCEPT ![n] = x]
      IN  /\ IsStack(s) /\ Len(s) = Len(Callers) /\ s[n] = x
          /\ \A k \in 1 .. Len(Callers) : k # n => s[k] = Callers[k]
  BY <1>1, <1>4, ExceptStack
<1> QED  BY <1>1, <1>2, <1>3, <1>5

LEMMA TurnedTask ==
    ASSUME NEW do, NEW i, NEW n, NEW f, NEW m, NEW b, NEW e, NEW t,
           t = [do |-> do, i |-> i, n |-> n, found |-> f, name |-> m, body |-> b, bodyEnd |-> e]
    PROVE  TurnOver(t) = [do |-> do, i |-> i + 1, n |-> n, found |-> f, name |-> m, body |-> b,
                          bodyEnd |-> e]
BY DEF TurnOver

-----------------------------------------------------------------------------
(* The attributes a parser can keep.                                       *)
SimpleOK(a) ==
    /\ a.name \notin {AttributeName.Code, AttributeName.NestMembers, AttributeName.BootstrapMethods}
    /\ IsSimpleInfo(a)
    /\ a.name = AttributeName.StackMapTable => \A k \in DOMAIN a.info.entries : a.info.entries[k].tag # 247

AnyOK(cs, a) ==
    IF a.name = AttributeName.Code
    THEN IsCode(cs, a.info) /\ \A k \in DOMAIN a.info.attributes : SimpleOK(a.info.attributes[k])
    ELSE SimpleOK(a)

KnownAmong(attrs, i) == {k \in 1 .. i : attrs[k].name \in KnownNames}

(* The map of the first i attributes.                                      *)
IsMapOf(found, attrs, i) ==
    /\ found = [name \in DOMAIN found |-> found[name]]
    /\ DOMAIN found = {attrs[k].name : k \in KnownAmong(attrs, i)}
    /\ \A k \in KnownAmong(attrs, i) : found[attrs[k].name] = KeptAny(attrs[k])

(* A loop t over the attributes attrs, which ctx follows in the file.         *)
IsAttributesTask(t, attrs) ==
    /\ t = [do |-> "attributes", i |-> t.i, n |-> Len(attrs), found |-> t.found, name |-> t.name,
            body |-> t.body, bodyEnd |-> t.bodyEnd]
    /\ t.i \in 0 .. Len(attrs) /\ IsMapOf(t.found, attrs, t.i)

ContextOf(t, cs, attrs, ctx) == Rest(AttributeBytes(cs, attrs), t.i + 1) \o ctx

Between(t, cs, attrs, ctx) ==
    t.name = NoName /\ Follows(cursor, Rest(AttributeBytes(cs, attrs), t.i) \o ctx)

Within(t, cs, attrs, ctx) ==
    /\ t.i < Len(attrs) /\ t.name = attrs[t.i + 1].name /\ t.bodyEnd \in Nat
    /\ t.bodyEnd + Size(ContextOf(t, cs, attrs, ctx)) = Len(file)

AtContent(t, cs, attrs, ctx) ==
    Follows(cursor, Content(cs, attrs[t.i + 1]) \o ContextOf(t, cs, attrs, ctx))

AtFrames(u, fs, ctx) ==
    /\ u = [do |-> "StackMapTable", i |-> u.i, n |-> Len(fs), found |-> u.found, name |-> u.name,
            body |-> u.body, bodyEnd |-> u.bodyEnd]
    /\ u.i \in 0 .. Len(fs) /\ IsStack(u.body) /\ Len(u.body) = u.i
    /\ \A k \in 1 .. u.i : u.body[k] = KeptFrame(fs[k])
    /\ Follows(cursor, Rest(FrameBytes(fs), u.i) \o ctx)

AtSimple(n, cs, attrs, ctx) ==
    /\ IsAttributesTask(tasks[n], attrs)
    /\ \/ Len(tasks) = n /\ Between(tasks[n], cs, attrs, ctx)
       \/ /\ Within(tasks[n], cs, attrs, ctx)
          /\ \/ Len(tasks) = n /\ AtContent(tasks[n], cs, attrs, ctx)
             \/ /\ Len(tasks) = n + 1 /\ tasks[n].name = AttributeName.StackMapTable
                /\ AtFrames(tasks[n + 1], attrs[tasks[n].i + 1].info.entries,
                            ContextOf(tasks[n], cs, attrs, ctx))

CodeSoFar(code) == [KeptCode(code) EXCEPT !.attributes = <<>>]

AtAny(n, cs, attrs, ctx) ==
    \/ AtSimple(n, cs, attrs, ctx)
    \/ /\ IsAttributesTask(tasks[n], attrs) /\ Within(tasks[n], cs, attrs, ctx)
       /\ tasks[n].name = AttributeName.Code
       /\ tasks[n].body = <<CodeSoFar(attrs[tasks[n].i + 1].info)>>
       /\ AtSimple(n + 1, cs, attrs[tasks[n].i + 1].info.attributes, ContextOf(tasks[n], cs, attrs, ctx))

-----------------------------------------------------------------------------
(* Between two attributes.                                                 *)

LEMMA FollowsLater ==
    ASSUME file' = file, NEW at, cursor' = at, NEW s, Follows(at, s)
    PROVE  Follows(cursor, s)'
BY DEF Follows, Holds

LEMMA FollowsStill ==
    ASSUME file' = file, cursor' = cursor, NEW s, Follows(cursor, s)
    PROVE  Follows(cursor, s)'
BY DEF Follows, Holds

LEMMA ContextBytes ==
    ASSUME NEW cs, PoolOK(cs), NEW attrs, AttributesOK(cs, attrs), NEW ctx, IsBytes(ctx),
           NEW i \in 0 .. Len(attrs)
    PROVE  /\ AreBytes(AttributeBytes(cs, attrs)) /\ Len(AttributeBytes(cs, attrs)) = Len(attrs)
           /\ Len(attrs) \in Nat /\ i \in Nat
           /\ IsBytes(Rest(AttributeBytes(cs, attrs), i)) /\ IsBytes(Rest(AttributeBytes(cs, attrs), i) \o ctx)
<1>1. /\ AreBytes(AttributeBytes(cs, attrs)) /\ Len(AttributeBytes(cs, attrs)) = Len(attrs) /\ Len(attrs) \in Nat
  BY AttributesWritten
<1>2. IsBytes(Rest(AttributeBytes(cs, attrs), i))  BY <1>1, RestFacts
<1> QED  BY <1>1, <1>2, Parts2

(* An attribute under way, from its head on.                               *)
LEMMA AttributeNext ==
    ASSUME FileOK, NEW cs, PoolOK(cs), NEW attrs, AttributesOK(cs, attrs), NEW ctx, IsBytes(ctx),
           NEW i \in 0 .. Len(attrs) - 1, NEW at \in Nat,
           Follows(at, Rest(AttributeBytes(cs, attrs), i) \o ctx)
    PROVE  LET next == Rest(AttributeBytes(cs, attrs), i + 1) \o ctx
               a    == attrs[i + 1]
           IN  /\ U2At(at) \in DOMAIN PoolOf(cs) /\ PoolOf(cs)[U2At(at)].kind = "Utf8"
               /\ PoolOf(cs)[U2At(at)].values = a.name /\ a.name # NoName
               /\ IsBytes(next) /\ IsBytes(Content(cs, a))
               /\ Follows(at + 6, Content(cs, a) \o next)
               /\ AttributeEnd(at) = at + 6 + Size(Content(cs, a))
               /\ AttributeEnd(at) \in Nat /\ Follows(AttributeEnd(at), next)
<1>1. i \in 0 .. Len(attrs) /\ i + 1 \in 0 .. Len(attrs) /\ i + 1 \in 1 .. Len(attrs) /\ Len(attrs) \in Nat
  BY AttributesWritten
<1> PICK ab : ab = AttributeBytes(cs, attrs)  OBVIOUS
<1>2. AreBytes(ab) /\ Len(ab) = Len(attrs) /\ i \in 0 .. Len(ab) - 1
  BY <1>1, ContextBytes
<1> PICK next : next = Rest(ab, i + 1) \o ctx  OBVIOUS
<1>3. IsBytes(next)  BY <1>1, ContextBytes
<1> PICK a : a = attrs[i + 1]  OBVIOUS
<1> PICK info : info = Content(cs, a)  OBVIOUS
<1>4. a.name # NoName /\ IsName(cs, a.name) /\ IsBytes(info) /\ FitsU4(Size(info))
  BY <1>1, AttributesWritten, NameOrMark DEF AttributesOK
<1>5. ab[i + 1] = WriteAttribute(cs, a.name, info)  BY <1>1, AttributesWritten, AnyAttribute
<1>6. Holds(at, ab[i + 1]) /\ Follows(at + Size(ab[i + 1]), next)
  BY <1>2, FollowsNext
<1> PICK size : size = Size(info)  OBVIOUS
<1>7. size \in Nat  BY <1>4, Sizes
<1>8. /\ U2At(at) = NameIndex(cs, a.name) /\ U4At(at + 2) = size /\ Holds(at + 6, info)
      /\ Size(ab[i + 1]) = 6 + size
  BY <1>4, <1>5, <1>6, AttributeWritten
<1>9. Follows(at + 6 + size, next) /\ AttributeEnd(at) = at + 6 + size
  BY <1>6, <1>7, <1>8 DEF AttributeEnd
<1>10. Follows(at + 6, info \o next)  BY <1>3, <1>4, <1>7, <1>8, <1>9, FollowsConcat
<1>11. /\ U2At(at) \in DOMAIN PoolOf(cs) /\ PoolOf(cs)[U2At(at)].kind = "Utf8"
       /\ PoolOf(cs)[U2At(at)].values = a.name
  BY <1>4, <1>8, NameFacts DEF PoolOK
<1> QED  BY <1>3, <1>4, <1>7, <1>9, <1>10, <1>11

(* What the parser of a class file has read, where it reads attributes.    *)
Setting(cs, attrs, ctx) ==
    /\ FileOK /\ PoolOK(cs) /\ AttributesOK(cs, attrs) /\ IsBytes(ctx)
    /\ classFile.constantPool = PoolOf(cs) /\ IsStack(tasks) /\ cursor \in Nat

(* The loop n over attributes goes on, those around it wait.               *)
GoesOn(n) ==
    /\ IsStack(tasks)' /\ \A k \in 1 .. n - 1 : tasks'[k] = tasks[k]
    /\ cursor' \in Nat /\ classFile' = classFile /\ outcome' = outcome
    /\ tasks'[n].i = tasks[n].i + 1 => cursor' = tasks[n].bodyEnd

LEMMA HeadRead ==
    ASSUME NEW cs, NEW attrs, NEW ctx, Setting(cs, attrs, ctx), NEW n \in Nat, Len(tasks) = n, n > 0,
           IsAttributesTask(tasks[n], attrs), Between(tasks[n], cs, attrs, ctx),
           ParseAttributeHead
    PROVE  GoesOn(n) /\ AtSimple(n, cs, attrs, ctx)'
<1> PICK t : t = tasks[n]  OBVIOUS
<1>1. Top = t  BY DEF Top
<1> PICK i : i = t.i  OBVIOUS
<1>2. i \in 0 .. Len(attrs) /\ Len(attrs) \in Nat /\ t.n = Len(attrs) /\ t.do = "attributes"
  BY AttributesWritten DEF Setting, IsAttributesTask
<1>3. i \in 0 .. Len(attrs) - 1 /\ i \in Nat
  BY <1>1, <1>2 DEF ParseAttributeHead, LoopDone
<1> PICK at : at = cursor  OBVIOUS
<1>4. at \in Nat /\ FileOK /\ PoolOK(cs) /\ AttributesOK(cs, attrs) /\ IsBytes(ctx)
  BY DEF Setting
<1>5. Follows(at, Rest(AttributeBytes(cs, attrs), i) \o ctx)  BY DEF Between
<1> PICK next : next = Rest(AttributeBytes(cs, attrs), i + 1) \o ctx  OBVIOUS
<1> PICK a : a = attrs[i + 1]  OBVIOUS
<1>6. /\ U2At(at) \in DOMAIN PoolOf(cs) /\ PoolOf(cs)[U2At(at)].kind = "Utf8"
      /\ PoolOf(cs)[U2At(at)].values = a.name /\ IsBytes(next)
      /\ Follows(at + 6, Content(cs, a) \o next)
      /\ AttributeEnd(at) \in Nat /\ Follows(AttributeEnd(at), next)
  BY <1>3, <1>4, <1>5, AttributeNext
<1> PICK u : u = [t EXCEPT !.name = a.name, !.bodyEnd = AttributeEnd(at)]  OBVIOUS
<1>7. tasks' = WithTop(u) /\ cursor' = at + 6 /\ file' = file /\ classFile' = classFile /\ outcome' = outcome
  BY <1>1, <1>6 DEF ParseAttributeHead, NameIsThere, Setting
<1>8. /\ IsStack(WithTop(u)) /\ Len(WithTop(u)) = n /\ WithTop(u)[n] = u
      /\ \A k \in 1 .. n - 1 : WithTop(u)[k] = tasks[k]
  BY TopChanges DEF Setting
<1>9. /\ u.i = i /\ u.name = a.name /\ u.bodyEnd = AttributeEnd(at) /\ IsAttributesTask(u, attrs)
  BY <1>2 DEF IsAttributesTask
<1>t. tasks'[n] = u /\ tasks[n].i = i  BY <1>7, <1>8
<1>10. GoesOn(n)
  <2>1. IsStack(tasks')  BY <1>7, <1>8
  <2>2. tasks'[n].i # tasks[n].i + 1  BY <1>3, <1>9, <1>t
  <2>3. cursor' \in Nat  BY <1>4, <1>7
  <2>4. \A k \in 1 .. n - 1 : tasks'[k] = tasks[k]  BY <1>7, <1>8
  <2> QED  BY <1>7, <2>1, <2>2, <2>3, <2>4 DEF GoesOn
<1>11. AttributeEnd(at) + Size(next) = Len(file)  BY <1>6 DEF Follows
<1>12. Within(tasks[n], cs, attrs, ctx)'
  <2>1. u.i < Len(attrs) /\ u.name = attrs[u.i + 1].name  BY <1>2, <1>3, <1>9
  <2>2. ContextOf(u, cs, attrs, ctx) = next  BY <1>9 DEF ContextOf
  <2> QED  BY <1>6, <1>7, <1>9, <1>11, <1>t, <2>1, <2>2 DEF Within
<1>13. Follows(cursor, Content(cs, a) \o next)'
  <2> PICK p : p = at + 6  OBVIOUS
  <2> QED  BY <1>6, <1>7, FollowsLater
<1>14. AtContent(tasks[n], cs, attrs, ctx)'
  BY <1>7, <1>8, <1>9, <1>13 DEF AtContent, ContextOf
<1> QED  BY <1>7, <1>8, <1>9, <1>10, <1>12, <1>14 DEF AtSimple

-----------------------------------------------------------------------------
(* Within an attribute.                                                    *)

LEMMA KnownGrows ==
    ASSUME NEW attrs, NEW i \in Nat
    PROVE  KnownAmong(attrs, i + 1) =
             KnownAmong(attrs, i) \cup (IF attrs[i + 1].name \in KnownNames THEN {i + 1} ELSE {})
<1>1. 1 .. i + 1 = (1 .. i) \cup {i + 1}  OBVIOUS
<1> QED  BY <1>1 DEF KnownAmong

(* Each attribute that the parser knows enters the map once, the others do *)
(* not.                                                                    *)
LEMMA MapGrows ==
    ASSUME NEW cs, NEW attrs, AttributesOK(cs, attrs), NEW i \in Nat, i < Len(attrs),
           NEW found, IsMapOf(found, attrs, i)
    PROVE  LET a == attrs[i + 1]
           IN  IF a.name \in KnownNames
               THEN /\ a.name \notin DOMAIN found
                    /\ IsMapOf(Entered(found, a.name, KeptAny(a)), attrs, i + 1)
               ELSE IsMapOf(found, attrs, i + 1)
<1>1. DOMAIN attrs = 1 .. Len(attrs) /\ Len(attrs) \in Nat
  BY TableIsStack DEF AttributesOK
<1> PICK a : a = attrs[i + 1]  OBVIOUS
<1>2. CASE a.name \notin KnownNames
  <2>1. KnownAmong(attrs, i + 1) = KnownAmong(attrs, i)
    <3>1. KnownAmong(attrs, i) \cup {} = KnownAmong(attrs, i)  OBVIOUS
    <3> QED  BY <1>2, <3>1, KnownGrows
  <2> QED  BY <1>2, <2>1 DEF IsMapOf
<1>3. CASE a.name \in KnownNames
  <2>1. KnownAmong(attrs, i + 1) = KnownAmong(attrs, i) \cup {i + 1}  BY <1>3, KnownGrows
  <2>2. \A k \in KnownAmong(attrs, i) : attrs[k].name # a.name
    <3> TAKE k \in KnownAmong(attrs, i)
    <3>1. k \in 1 .. i /\ attrs[k].name \in KnownNames  BY DEF KnownAmong
    <3>2. k # i + 1 /\ k \in DOMAIN attrs /\ i + 1 \in DOMAIN attrs  BY <1>1, <3>1
    <3> QED  BY <3>1, <3>2 DEF AttributesOK
  <2>3. a.name \notin DOMAIN found  BY <2>2 DEF IsMapOf
  <2> DEFINE new == Entered(found, a.name, KeptAny(a))
  <2>4. /\ DOMAIN new = {a.name} \cup DOMAIN found
        /\ new[a.name] = KeptAny(a) /\ \A name \in DOMAIN found : name # a.name => new[name] = found[name]
        /\ new = [name \in DOMAIN new |-> new[name]]
    BY DEF Entered
  <2> HIDE DEF new
  <2>5. DOMAIN new = {attrs[k].name : k \in KnownAmong(attrs, i + 1)}
    BY <2>1, <2>4 DEF IsMapOf
  <2>6. \A k \in KnownAmong(attrs, i) : new[attrs[k].name] = KeptAny(attrs[k])
    BY <2>2, <2>4 DEF IsMapOf
  <2>7. IsMapOf(new, attrs, i + 1)  BY <2>1, <2>4, <2>5, <2>6 DEF IsMapOf
  <2> QED  BY <1>3, <2>3, <2>7 DEF new
<1> QED  BY <1>2, <1>3

(* An attribute is entered into the map.                                   *)
LEMMA FoundTask ==
    ASSUME NEW i, NEW n, NEW f, NEW m, NEW b, NEW e, NEW t, NEW ai,
           t = [do |-> "attributes", i |-> i, n |-> n, found |-> f, name |-> m, body |-> b,
                bodyEnd |-> e]
    PROVE  Found(t, ai) = [do |-> "attributes", i |-> i + 1, n |-> n, found |-> Entered(f, m, ai),
                           name |-> NoName, body |-> <<>>, bodyEnd |-> e]
<1> PICK g : g = Entered(f, m, ai)  OBVIOUS
<1> PICK u : u = [t EXCEPT !.found = g]  OBVIOUS
<1>1. u = [do |-> "attributes", i |-> i, n |-> n, found |-> g, name |-> m, body |-> b, bodyEnd |-> e]
  OBVIOUS
<1> PICK v : v = [u EXCEPT !.name = NoName]  OBVIOUS
<1>2. v = [do |-> "attributes", i |-> i, n |-> n, found |-> g, name |-> NoName, body |-> b,
           bodyEnd |-> e]
  BY <1>1
<1> PICK w : w = [v EXCEPT !.body = <<>>]  OBVIOUS
<1>3. w = [do |-> "attributes", i |-> i, n |-> n, found |-> g, name |-> NoName, body |-> <<>>,
           bodyEnd |-> e]
  BY <1>2
<1>4. w = [t EXCEPT !.found = Entered(@, t.name, ai), !.name = NoName, !.body = <<>>]
  <2>1. t.found = f /\ t.name = m  OBVIOUS
  <2> QED  BY <2>1
<1>5. Found(t, ai) = TurnOver(w)  BY <1>4 DEF Found
<1> QED  BY <1>3, <1>5 DEF TurnOver

(* The turn of the loop ends.                                              *)
LEMMA TurnEnds ==
    ASSUME NEW cs, NEW attrs, NEW ctx, Setting(cs, attrs, ctx), NEW n \in Nat, n > 0,
           IsAttributesTask(tasks[n], attrs), Within(tasks[n], cs, attrs, ctx),
           NEW u, NEW found,
           u = [do |-> "attributes", i |-> tasks[n].i + 1, n |-> Len(attrs), found |-> found,
                name |-> NoName, body |-> u.body, bodyEnd |-> tasks[n].bodyEnd],
           IsMapOf(found, attrs, tasks[n].i + 1),
           IsStack(tasks'), Len(tasks') = n, tasks'[n] = u,
           \A k \in 1 .. n - 1 : tasks'[k] = tasks[k],
           NEW p \in Nat, cursor' = p, Follows(p, ContextOf(tasks[n], cs, attrs, ctx)),
           file' = file, classFile' = classFile, outcome' = outcome
    PROVE  GoesOn(n) /\ AtSimple(n, cs, attrs, ctx)'
<1> PICK t : t = tasks[n]  OBVIOUS
<1> PICK i : i = t.i  OBVIOUS
<1>1. /\ i \in Nat /\ Len(attrs) \in Nat /\ i < Len(attrs) /\ t.bodyEnd \in Nat
      /\ t = [do |-> "attributes", i |-> i, n |-> Len(attrs), found |-> t.found, name |-> t.name,
              body |-> t.body, bodyEnd |-> t.bodyEnd]
  BY AttributesWritten DEF Setting, IsAttributesTask, Within
<1>3. u.i = i + 1 /\ u.name = NoName /\ IsAttributesTask(u, attrs)
  BY <1>1 DEF IsAttributesTask
<1> PICK next : next = ContextOf(t, cs, attrs, ctx)  OBVIOUS
<1>4. next = Rest(AttributeBytes(cs, attrs), u.i) \o ctx  BY <1>3 DEF ContextOf
<1>5. IsBytes(next)
  <2>1. i + 1 \in 0 .. Len(attrs)  BY <1>1
  <2> QED  BY <1>3, <1>4, <2>1, ContextBytes DEF Setting
<1>6. p = t.bodyEnd
  <2>1. PICK s \in Nat : s = Size(next)  BY <1>5, Sizes
  <2>2. p + s = Len(file) /\ t.bodyEnd + s = Len(file)
    BY <2>1 DEF Follows, Within
  <2> QED  BY <1>1, <2>1, <2>2
<1>7. GoesOn(n)  BY <1>6 DEF GoesOn
<1>8. Follows(cursor, next)'  BY FollowsLater
<1> QED  BY <1>3, <1>4, <1>7, <1>8 DEF AtSimple, Between

-----------------------------------------------------------------------------
(* Attributes read in one step.                                            *)

LEMMA AttributeFound ==
    ASSUME NEW cs, NEW attrs, NEW ctx, Setting(cs, attrs, ctx), NEW n \in Nat, n > 0,
           IsAttributesTask(tasks[n], attrs), Within(tasks[n], cs, attrs, ctx),
           tasks[n].name \in KnownNames,
           IsStack(tasks'), Len(tasks') = n,
           tasks'[n] = Found(tasks[n], KeptAny(attrs[tasks[n].i + 1])),
           \A k \in 1 .. n - 1 : tasks'[k] = tasks[k],
           NEW p \in Nat, cursor' = p, Follows(p, ContextOf(tasks[n], cs, attrs, ctx)),
           file' = file, classFile' = classFile,
           outcome' = IF tasks[n].name \in DOMAIN tasks[n].found THEN "aborted" ELSE outcome
    PROVE  GoesOn(n) /\ AtSimple(n, cs, attrs, ctx)'
<1> PICK t : t = tasks[n]  OBVIOUS
<1> PICK i : i = t.i  OBVIOUS
<1> PICK a : a = attrs[i + 1]  OBVIOUS
<1>1. /\ i \in Nat /\ Len(attrs) \in Nat /\ i < Len(attrs) /\ t.name = a.name
      /\ IsMapOf(t.found, attrs, i) /\ AttributesOK(cs, attrs)
  BY AttributesWritten DEF Setting, IsAttributesTask, Within
<1> PICK found : found = Entered(t.found, a.name, KeptAny(a))  OBVIOUS
<1>2. a.name \notin DOMAIN t.found /\ IsMapOf(found, attrs, i + 1)
  BY <1>1, MapGrows
<1> PICK f, b, e : f = t.found /\ b = t.body /\ e = t.bodyEnd  OBVIOUS
<1>3. t = [do |-> "attributes", i |-> i, n |-> Len(attrs), found |-> f, name |-> a.name, body |-> b,
           bodyEnd |-> e]
  BY <1>1 DEF IsAttributesTask
<1> PICK u : u = Found(t, KeptAny(a))  OBVIOUS
<1>4. u = [do |-> "attributes", i |-> i + 1, n |-> Len(attrs), found |-> found, name |-> NoName,
           body |-> <<>>, bodyEnd |-> e]
  BY SMTT(20), <1>3, FoundTask
<1>5. u = [do |-> "attributes", i |-> t.i + 1, n |-> Len(attrs), found |-> found, name |-> NoName,
           body |-> u.body, bodyEnd |-> t.bodyEnd]
  BY <1>4
<1>6. outcome' = outcome  BY <1>1, <1>2
<1> QED  BY <1>2, <1>5, <1>6, TurnEnds

(* What is known of an attribute when its content is to be read.           *)
LEMMA ContentFacts ==
    ASSUME NEW cs, NEW attrs, NEW ctx, Setting(cs, attrs, ctx), NEW n \in Nat,
           IsAttributesTask(tasks[n], attrs), Within(tasks[n], cs, attrs, ctx),
           NEW i, i = tasks[n].i, NEW a, a = attrs[i + 1],
           NEW next, next = ContextOf(tasks[n], cs, attrs, ctx)
    PROVE  /\ i \in Nat /\ i + 1 \in 1 .. Len(attrs) /\ i + 1 \in DOMAIN attrs
           /\ tasks[n].name = a.name /\ a.name # NoName
           /\ IsBytes(next) /\ IsBytes(Content(cs, a))
           /\ next = Rest(AttributeBytes(cs, attrs), i + 1) \o ctx
           /\ tasks[n].bodyEnd \in Nat /\ tasks[n].bodyEnd + Size(next) = Len(file)
<1>1. i \in Nat /\ Len(attrs) \in Nat /\ i < Len(attrs) /\ AttributesOK(cs, attrs) /\ PoolOK(cs) /\ IsBytes(ctx)
  BY AttributesWritten DEF Setting, IsAttributesTask, Within
<1>2. i + 1 \in 0 .. Len(attrs) /\ i + 1 \in 1 .. Len(attrs) /\ i + 1 \in DOMAIN attrs
  BY <1>1, AttributesWritten
<1>3. next = Rest(AttributeBytes(cs, attrs), i + 1) \o ctx  BY DEF ContextOf
<1>4. IsBytes(next)  BY <1>1, <1>2, <1>3, ContextBytes
<1>5. a.name # NoName /\ IsBytes(Content(cs, a))  BY <1>1, <1>2, NameOrMark DEF AttributesOK
<1>6. tasks[n].name = a.name /\ tasks[n].bodyEnd \in Nat /\ tasks[n].bodyEnd + Size(next) = Len(file)
  BY DEF Within
<1> QED  BY <1>1, <1>2, <1>3, <1>4, <1>5, <1>6

LEMMA IndexRead ==
    ASSUME NEW cs, NEW attrs, NEW ctx, Setting(cs, attrs, ctx), NEW n \in Nat, Len(tasks) = n, n > 0,
           IsAttributesTask(tasks[n], attrs), Within(tasks[n], cs, attrs, ctx),
           AtContent(tasks[n], cs, attrs, ctx),
           SimpleOK(attrs[tasks[n].i + 1]), ParseIndexAttribute
    PROVE  GoesOn(n) /\ AtSimple(n, cs, attrs, ctx)'
<1> PICK t : t = tasks[n]  OBVIOUS
<1> PICK i : i = t.i  OBVIOUS
<1> PICK a : a = attrs[i + 1]  OBVIOUS
<1> PICK next : next = ContextOf(t, cs, attrs, ctx)  OBVIOUS
<1>1. IsBytes(next) /\ t.name = a.name
  BY ContentFacts
<1>2. Top = t  BY DEF Top
<1>3. a.name \in IndexNames  BY <1>1, <1>2 DEF ParseIndexAttribute
<1>4. a.name \in KnownNames /\ a.name # AttributeName.StackMapTable /\ a.name # AttributeName.Code
  BY <1>3, NamesNamed, NamesDiffer
<1>5. a.info.index \in Half /\ Content(cs, a) = U2(a.info.index)
  BY <1>3, <1>4, SimpleInfoWritten DEF SimpleOK, Content
<1> PICK index : index = a.info.index  OBVIOUS
<1> PICK at : at = cursor  OBVIOUS
<1>6. at \in Nat /\ FileOK  BY DEF Setting
<1>7. Follows(at, U2(index) \o next)  BY <1>5 DEF AtContent
<1>8. IsBytes(U2(index)) /\ Size(U2(index)) = 2  BY <1>5, Sizes
<1>9. Holds(at, U2(index)) /\ Follows(at + 2, next)
  BY <1>1, <1>6, <1>7, <1>8, FollowsConcat
<1>10. U2At(at) = index  BY <1>5, <1>6, <1>9, ReadU2 DEF FileOK
<1>11. KeptAny(a) = [index |-> index]  BY <1>4 DEF KeptAny, KeptInfo
<1> PICK u : u = Found(t, KeptAny(a))  OBVIOUS
<1>12. /\ tasks' = WithTop(u) /\ cursor' = at + 2 /\ file' = file /\ classFile' = classFile
       /\ outcome' = IF t.name \in DOMAIN t.found THEN "aborted" ELSE outcome
  BY <1>2, <1>10, <1>11 DEF ParseIndexAttribute, AssertNotFound
<1>13. /\ IsStack(WithTop(u)) /\ Len(WithTop(u)) = n /\ WithTop(u)[n] = u
       /\ \A k \in 1 .. n - 1 : WithTop(u)[k] = tasks[k]
  BY TopChanges DEF Setting
<1> PICK p \in Nat : p = at + 2  BY <1>6
<1> QED  BY <1>1, <1>4, <1>9, <1>12, <1>13, AttributeFound

LEMMA AttributeSkipped ==
    ASSUME NEW cs, NEW attrs, NEW ctx, Setting(cs, attrs, ctx), NEW n \in Nat, Len(tasks) = n, n > 0,
           IsAttributesTask(tasks[n], attrs), Within(tasks[n], cs, attrs, ctx),
           AtContent(tasks[n], cs, attrs, ctx), SkipAttribute
    PROVE  GoesOn(n) /\ AtSimple(n, cs, attrs, ctx)'
<1> PICK t : t = tasks[n]  OBVIOUS
<1> PICK i : i = t.i  OBVIOUS
<1> PICK a : a = attrs[i + 1]  OBVIOUS
<1> PICK info : info = Content(cs, a)  OBVIOUS
<1> PICK next : next = ContextOf(t, cs, attrs, ctx)  OBVIOUS
<1>1. /\ IsBytes(next) /\ IsBytes(info) /\ t.name = a.name /\ i \in Nat
      /\ t.bodyEnd \in Nat /\ t.bodyEnd + Size(next) = Len(file)
  BY ContentFacts
<1>2. Top = t  BY DEF Top
<1>3. a.name \notin KnownNames  BY <1>1, <1>2 DEF SkipAttribute
<1> PICK at : at = cursor  OBVIOUS
<1>4. at \in Nat /\ FileOK /\ AttributesOK(cs, attrs)  BY DEF Setting
<1>5. Follows(at + Size(info), next)
  BY <1>1, <1>4, FollowsConcat DEF AtContent
<1> PICK s \in Nat, r \in Nat : s = Size(info) /\ r = Size(next)  BY <1>1, Sizes
<1>6. t.bodyEnd = at + s
  <2>1. at + s + r = Len(file)  BY <1>5 DEF Follows
  <2>2. PICK l : l = Len(file)  OBVIOUS
  <2>3. PICK e \in Nat : e = t.bodyEnd  BY <1>1
  <2>4. e + r = l /\ at + s + r = l  BY <1>1, <2>1, <2>2, <2>3
  <2>5. e = at + s  BY <1>4, <2>4
  <2> QED  BY <2>3, <2>5
<1> PICK b, f, e : b = t.body /\ f = t.found /\ e = t.bodyEnd  OBVIOUS
<1>7. /\ t = [do |-> "attributes", i |-> i, n |-> Len(attrs), found |-> f, name |-> t.name,
              body |-> b, bodyEnd |-> e]
      /\ IsMapOf(f, attrs, i) /\ i < Len(attrs)
  BY DEF IsAttributesTask, Within
<1>u. PICK u : u = TurnOver([t EXCEPT !.name = NoName])  OBVIOUS
<1>8. u = [do |-> "attributes", i |-> i + 1, n |-> Len(attrs), found |-> f, name |-> NoName,
           body |-> b, bodyEnd |-> e]
  <2> PICK m : m = t.name  OBVIOUS
  <2>v. PICK v : v = [t EXCEPT !.name = NoName]  OBVIOUS
  <2>1. t = [do |-> "attributes", i |-> i, n |-> Len(attrs), found |-> f, name |-> m,
             body |-> b, bodyEnd |-> e]
    BY <1>7
  <2>2. v = [do |-> "attributes", i |-> i, n |-> Len(attrs), found |-> f, name |-> NoName,
             body |-> b, bodyEnd |-> e]
    BY <2>1, <2>v
  <2>3. u = TurnOver(v)  BY <1>u, <2>v
  <2>4. TurnOver(v) = [do |-> "attributes", i |-> i + 1, n |-> Len(attrs), found |-> f,
                       name |-> NoName, body |-> b, bodyEnd |-> e]
    BY <2>2, TurnedTask
  <2> QED  BY <2>3, <2>4
<1>9. IsMapOf(f, attrs, i + 1)  BY <1>1, <1>3, <1>4, <1>7, MapGrows
<1>10. tasks' = WithTop(u) /\ cursor' = e /\ file' = file /\ classFile' = classFile /\ outcome' = outcome
  BY <1>2, <1>u DEF SkipAttribute
<1>11. /\ IsStack(WithTop(u)) /\ Len(WithTop(u)) = n /\ WithTop(u)[n] = u
       /\ \A k \in 1 .. n - 1 : WithTop(u)[k] = tasks[k]
  BY TopChanges DEF Setting
<1>12. e \in Nat /\ Follows(e, next)  BY <1>1, <1>5, <1>6
<1>13. u = [do |-> "attributes", i |-> t.i + 1, n |-> Len(attrs), found |-> f, name |-> NoName,
            body |-> u.body, bodyEnd |-> t.bodyEnd]
  BY <1>8
<1> QED  BY <1>9, <1>10, <1>11, <1>12, <1>13, TurnEnds

-----------------------------------------------------------------------------
(* Attributes whose content is a loop of its own.                          *)

LEMMA EmptyMap ==
    ASSUME NEW attrs
    PROVE  IsMapOf(<<>>, attrs, 0)
<1>1. KnownAmong(attrs, 0) = {}  BY DEF KnownAmong
<1>2. DOMAIN <<>> = {} /\ <<>> = [name \in DOMAIN <<>> |-> <<>>[name]]  OBVIOUS
<1> QED  BY <1>1, <1>2 DEF IsMapOf

LEMMA LoopStarts ==
    ASSUME NEW attrs, Len(attrs) \in Nat, NEW t, t = Loop("attributes", 0, Len(attrs))
    PROVE  IsAttributesTask(t, attrs) /\ t.i = 0 /\ t.name = NoName
<1>1. t.i = 0 /\ t.found = <<>> /\ t.name = NoName  BY DEF Loop
<1>2. t = [do |-> "attributes", i |-> t.i, n |-> Len(attrs), found |-> t.found, name |-> t.name,
           body |-> t.body, bodyEnd |-> t.bodyEnd]
  BY DEF Loop
<1>3. t.i \in 0 .. Len(attrs)  BY <1>1
<1> QED  BY <1>1, <1>2, <1>3, EmptyMap DEF IsAttributesTask

LEMMA CodeStarts ==
    ASSUME NEW cs, NEW attrs, NEW ctx, Setting(cs, attrs, ctx), NEW n \in Nat, Len(tasks) = n, n > 0,
           IsAttributesTask(tasks[n], attrs), Within(tasks[n], cs, attrs, ctx),
           AtContent(tasks[n], cs, attrs, ctx),
           AnyOK(cs, attrs[tasks[n].i + 1]), ParseCode
    PROVE  GoesOn(n) /\ AtAny(n, cs, attrs, ctx)'
<1> PICK t : t = tasks[n]  OBVIOUS
<1> PICK i : i = t.i  OBVIOUS
<1> PICK a : a = attrs[i + 1]  OBVIOUS
<1> PICK next : next = ContextOf(t, cs, attrs, ctx)  OBVIOUS
<1>1. IsBytes(next) /\ t.name = a.name /\ i \in Nat
  BY ContentFacts
<1>2. Top = t  BY DEF Top
<1>3. a.name = AttributeName.Code  BY <1>1, <1>2 DEF ParseCode, Attribute
<1> PICK code : code = a.info  OBVIOUS
<1>4. IsCode(cs, code) /\ Content(cs, a) = WriteCode(cs, code)
  BY <1>3 DEF AnyOK, Content
<1> PICK at : at = cursor  OBVIOUS
<1>5. at \in Nat /\ FileOK /\ PoolOK(cs)  BY DEF Setting
<1>k. PICK inner, es, length : inner = code.attributes /\ es = code.exceptionTable /\ length = CodeLength(code)
  OBVIOUS
<1>6. /\ IsBytes(WriteCode(cs, code)) /\ AttributesOK(cs, inner) /\ length \in Nat /\ Len(es) \in Nat
  BY <1>4, <1>5, <1>k, CodeWritten
<1>7. Holds(at, WriteCode(cs, code)) /\ Follows(at + Size(WriteCode(cs, code)), next)
  BY <1>1, <1>4, <1>5, <1>6, FollowsConcat DEF AtContent
<1>c. PICK count \in Nat : count = Len(es)  BY <1>6
<1>z. PICK z : z = at + 8 + length + 2 + 8 * count + 2  OBVIOUS
<1>8. z \in Nat  BY <1>5, <1>6, <1>c, <1>z
<1>9. /\ U2At(at) = code.maxStack /\ U2At(at + 2) = code.maxLocals
      /\ U4At(at + 4) = length /\ BytesAt(at + 8, length) = code.code
      /\ U2At(at + 8 + length) = count
      /\ ExceptionsAt(at + 8 + length + 2, count) = es
      /\ U2At(at + 8 + length + 2 + 8 * count) = Len(inner)
      /\ Holds(z, Flat(AttributeBytes(cs, inner)))
      /\ at + Size(WriteCode(cs, code)) = z + Size(Flat(AttributeBytes(cs, inner)))
  <2>1. /\ U2At(at) = code.maxStack /\ U2At(at + 2) = code.maxLocals
        /\ U4At(at + 4) = length /\ BytesAt(at + 8, length) = code.code
        /\ U2At(at + 8 + length) = Len(es)
        /\ ExceptionsAt(at + 8 + length + 2, Len(es)) = es
        /\ U2At(at + 8 + length + 2 + 8 * Len(es)) = Len(inner)
        /\ Holds(at + 8 + length + 2 + 8 * Len(es) + 2, Flat(AttributeBytes(cs, inner)))
        /\ at + Size(WriteCode(cs, code)) =
             at + 8 + length + 2 + 8 * Len(es) + 2 + Size(Flat(AttributeBytes(cs, inner)))
    <3>1. CodeReads(cs, code, inner, es, length, at)  BY <1>4, <1>5, <1>7, <1>k, CodeWritten
    <3> QED  BY <3>1 DEF CodeReads
  <2> QED  BY <2>1, <1>c, <1>z
<1> PICK ab : ab = AttributeBytes(cs, inner)  OBVIOUS
<1>10. /\ AreBytes(ab) /\ IsBytes(Flat(ab)) /\ Rest(ab, 0) = Flat(ab) /\ Len(inner) \in Nat
  BY <1>5, <1>6, AttributesWritten, RestFacts
<1>11. Follows(z, Rest(ab, 0) \o next)
  BY <1>1, <1>5, <1>7, <1>8, <1>9, <1>10, FollowsConcat
<1>b. PICK body : body = <<CodeSoFar(code)>>  OBVIOUS
<1>l. PICK loop : loop = Loop("attributes", 0, Len(inner))  OBVIOUS
<1>u. PICK u : u = [t EXCEPT !.body = body]  OBVIOUS
<1>12. /\ tasks' = Calling(u, loop) /\ cursor' = z /\ file' = file /\ classFile' = classFile
       /\ outcome' = outcome
  <2>1. CodeSoFar(code) = [maxStack |-> code.maxStack, maxLocals |-> code.maxLocals, code |-> code.code,
                           exceptionTable |-> es, attributes |-> <<>>]
    BY SMTT(20), <1>k DEF CodeSoFar, KeptCode
  <2> QED  BY <1>2, <1>9, <1>b, <1>l, <1>u, <1>z, <2>1 DEF ParseCode
<1>13. /\ IsStack(tasks') /\ Len(tasks') = n + 1
       /\ tasks'[n] = u /\ tasks'[n + 1] = loop /\ \A k \in 1 .. n - 1 : tasks'[k] = tasks[k]
  BY <1>12, TaskCalls DEF Setting
<1> PICK f, m, b, e : f = t.found /\ m = t.name /\ b = t.body /\ e = t.bodyEnd  OBVIOUS
<1>14. /\ t = [do |-> "attributes", i |-> i, n |-> Len(attrs), found |-> f, name |-> m, body |-> b,
               bodyEnd |-> e]
       /\ i \in 0 .. Len(attrs) /\ IsMapOf(f, attrs, i)
  BY DEF IsAttributesTask
<1>15. u = [do |-> "attributes", i |-> i, n |-> Len(attrs), found |-> f, name |-> m, body |-> body,
            bodyEnd |-> e]
  BY <1>14, <1>u
<1>16. IsAttributesTask(u, attrs) /\ u.i = i /\ u.name = m /\ u.bodyEnd = e /\ u.body = body
  BY <1>14, <1>15 DEF IsAttributesTask
<1>17. Within(tasks[n], cs, attrs, ctx)'
  <2>1. ContextOf(u, cs, attrs, ctx) = next  BY <1>16 DEF ContextOf
  <2> QED  BY <1>12, <1>13, <1>16, <2>1 DEF Within
<1>18. AtSimple(n + 1, cs, inner, next)'
  <2>1. IsAttributesTask(loop, inner) /\ loop.i = 0 /\ loop.name = NoName  BY <1>l, <1>10, LoopStarts
  <2>2. Follows(cursor, Rest(ab, loop.i) \o next)'
    <3>1. Follows(z, Rest(ab, loop.i) \o next)  BY <1>11, <2>1
    <3> QED  BY <1>12, <3>1, FollowsLater
  <2> QED  BY <1>13, <2>1, <2>2 DEF AtSimple, Between
<1>19. AtAny(n, cs, attrs, ctx)'
  <2>1. ContextOf(u, cs, attrs, ctx) = next  BY <1>16 DEF ContextOf
  <2> QED  BY <1>1, <1>3, <1>13, <1>16, <1>17, <1>18, <1>b, <1>k, <2>1 DEF AtAny
<1>20. GoesOn(n)
  <2>1. tasks'[n].i # tasks[n].i + 1  BY <1>1, <1>13, <1>16
  <2>2. cursor' \in Nat  BY <1>8, <1>12
  <2> QED  BY <1>12, <1>13, <2>1, <2>2 DEF GoesOn
<1> QED  BY <1>19, <1>20

-----------------------------------------------------------------------------
(* Loops in the content of an attribute.                                   *)

LEMMA FrameNames ==
    ASSUME NEW f, IsFrame(f)
    PROVE  KeptFrame(f).type # "NotCaught"
<1> PICK tag : tag = f.tag  OBVIOUS
<1>1. tag \in (0 .. 127) \cup (247 .. 255)  BY DEF IsFrame
<1>2. KeptFrame(f).type = FrameType(tag)  BY DEF KeptFrame
<1>3. \/ tag \in 0 .. 63 \/ tag \in 64 .. 127 \/ tag = 247 \/ tag \in 248 .. 250
      \/ tag = 251 \/ tag \in 252 .. 254 \/ tag = 255
  BY <1>1
<1>4. FrameType(tag) \in {"Same", "SameLocals", "SameLocalsExtended", "Chop", "SameExtended",
                          "Append", "Full"}
  BY <1>3 DEF FrameType
<1> QED  BY <1>2, <1>4

LEMMA NoneIsSeq ==
    \A S : <<>> \in Seq(S) /\ Len(<<>>) = 0
OBVIOUS

LEMMA FramesStart ==
    ASSUME NEW cs, NEW attrs, NEW ctx, Setting(cs, attrs, ctx), NEW n \in Nat, Len(tasks) = n, n > 0,
           IsAttributesTask(tasks[n], attrs), Within(tasks[n], cs, attrs, ctx),
           AtContent(tasks[n], cs, attrs, ctx),
           SimpleOK(attrs[tasks[n].i + 1]), StartTable("StackMapTable")
    PROVE  GoesOn(n) /\ AtSimple(n, cs, attrs, ctx)'
<1> PICK t : t = tasks[n]  OBVIOUS
<1> PICK i : i = t.i  OBVIOUS
<1> PICK a : a = attrs[i + 1]  OBVIOUS
<1> PICK next : next = ContextOf(t, cs, attrs, ctx)  OBVIOUS
<1>1. IsBytes(next) /\ t.name = a.name /\ i \in Nat
  BY ContentFacts
<1>2. Top = t  BY DEF Top
<1>3. a.name = AttributeName.StackMapTable /\ a.name # AttributeName.Code
  BY <1>1, <1>2, NamesApart DEF StartTable, Attribute
<1> PICK fs : fs = a.info.entries  OBVIOUS
<1>4. IsTable(fs) /\ (\A k \in DOMAIN fs : IsFrame(fs[k])) /\ Content(cs, a) = WriteTable(WriteFrame, fs)
  BY <1>3, SimpleInfoWritten DEF SimpleOK, Content
<1> PICK at : at = cursor  OBVIOUS
<1>5. at \in Nat /\ FileOK  BY DEF Setting
<1> PICK fb : fb = FrameBytes(fs)  OBVIOUS
<1>6. /\ WriteTable(WriteFrame, fs) = TableBytes(fb) /\ AreBytes(fb) /\ Len(fb) = Len(fs)
      /\ Len(fs) \in Half /\ Len(fs) \in Nat
  BY <1>4, FramesWritten, TableIsStack DEF TableBytes
<1>7. U2At(at) = Len(fs) /\ Follows(at + 2, Rest(fb, 0) \o next)
  <2>1. Content(cs, a) = TableBytes(fb)  BY <1>4, <1>6
  <2>2. Follows(at, TableBytes(fb) \o next)  BY <2>1 DEF AtContent
  <2>3. Len(fb) \in Half  BY <1>6
  <2>4. U2At(at) = Len(fb) /\ Follows(at + 2, Rest(fb, 0) \o next)
    BY ONLY <1>1, <1>5, <1>6, <2>2, <2>3, FollowsTable
  <2> QED  BY <1>6, <2>4
<1>l. PICK loop : loop = Loop("StackMapTable", 0, Len(fs))  OBVIOUS
<1>8. /\ tasks' = Append(tasks, loop) /\ cursor' = at + 2 /\ file' = file /\ classFile' = classFile
      /\ outcome' = outcome
  BY <1>7, <1>l DEF StartTable
<1>9. /\ IsStack(tasks') /\ Len(tasks') = n + 1 /\ tasks'[n + 1] = loop
      /\ tasks'[n] = t /\ \A k \in 1 .. n - 1 : tasks'[k] = tasks[k]
  <2>1. n \in 1 .. n /\ \A k \in 1 .. n - 1 : k \in 1 .. n  OBVIOUS
  <2> QED  BY <1>8, <2>1, AppendStack DEF Setting
<1> PICK p \in Nat : p = at + 2  BY <1>5
<1>10. Follows(p, Rest(fb, 0) \o next)  BY <1>7
<1>11. AtFrames(loop, fs, next)'
  <2>1. /\ loop.i = 0 /\ loop.body = <<>>
        /\ loop = [do |-> "StackMapTable", i |-> loop.i, n |-> Len(fs), found |-> loop.found,
                   name |-> loop.name, body |-> loop.body, bodyEnd |-> loop.bodyEnd]
    BY <1>l DEF Loop
  <2>2. loop.i \in 0 .. Len(fs)  BY ONLY <1>6, <2>1
  <2>3. IsStack(loop.body) /\ Len(loop.body) = 0
    BY <2>1, SeqIsStack, NoneIsSeq
  <2>4. Follows(cursor, Rest(fb, loop.i) \o next)'
    <3>1. Follows(p, Rest(fb, loop.i) \o next)  BY <1>10, <2>1
    <3> QED  BY <1>8, <3>1, FollowsLater
  <2>5. \A k \in 1 .. loop.i : loop.body[k] = KeptFrame(fs[k])  BY <2>1
  <2> QED  BY <2>1, <2>2, <2>3, <2>4, <2>5 DEF AtFrames
<1>12. Within(tasks[n], cs, attrs, ctx)'  BY <1>8, <1>9 DEF Within
<1>13. GoesOn(n)
  <2>1. tasks'[n].i # tasks[n].i + 1  BY <1>1, <1>9
  <2> QED  BY <1>8, <1>9, <2>1 DEF GoesOn
<1>14. AtSimple(n, cs, attrs, ctx)'
  BY <1>1, <1>3, <1>9, <1>11, <1>12 DEF AtSimple
<1> QED  BY <1>13, <1>14

LEMMA FrameNext ==
    ASSUME FileOK, NEW fs, IsTable(fs), \A k \in DOMAIN fs : IsFrame(fs[k]) /\ fs[k].tag # 247,
           NEW j \in Nat, j < Len(fs), NEW at \in Nat, NEW next, IsBytes(next),
           Follows(at, Rest(FrameBytes(fs), j) \o next)
    PROVE  /\ FrameAt(at)[1] \in Nat /\ FrameAt(at)[2] = KeptFrame(fs[j + 1])
           /\ KeptFrame(fs[j + 1]).type # "NotCaught"
           /\ Follows(FrameAt(at)[1], Rest(FrameBytes(fs), j + 1) \o next)
<1>b. PICK fb : fb = FrameBytes(fs)  OBVIOUS
<1>1. AreBytes(fb) /\ Len(fb) = Len(fs) /\ Len(fs) \in Nat /\ DOMAIN fs = 1 .. Len(fs)
  BY <1>b, FramesWritten, TableIsStack
<1>2. j \in 0 .. Len(fb) - 1 /\ j + 1 \in DOMAIN fs  BY <1>1
<1>f. PICK frame : frame = fs[j + 1]  OBVIOUS
<1>3. IsFrame(frame) /\ frame.tag # 247 /\ fb[j + 1] = WriteFrame(frame)
  BY <1>2, <1>b, <1>f DEF FrameBytes
<1>4. Holds(at, WriteFrame(frame)) /\ Follows(at + Size(WriteFrame(frame)), Rest(fb, j + 1) \o next)
  BY <1>1, <1>2, <1>3, <1>b, FollowsNext
<1>5. /\ FrameAt(at)[1] = at + Size(WriteFrame(frame)) /\ FrameAt(at)[2] = KeptFrame(frame)
      /\ KeptFrame(frame).type # "NotCaught" /\ Size(WriteFrame(frame)) \in Nat
  BY <1>3, <1>4, FrameWritten, FrameNames, Sizes
<1> QED  BY <1>4, <1>5, <1>b, <1>f

LEMMA FramesGrow ==
    ASSUME NEW fs, Len(fs) \in Nat, NEW u, NEW ctx, AtFrames(u, fs, ctx), u.i < Len(fs),
           NEW w, w = TurnOver([u EXCEPT !.body = Append(u.body, KeptFrame(fs[u.i + 1]))]),
           NEW p \in Nat, cursor' = p, Follows(p, Rest(FrameBytes(fs), u.i + 1) \o ctx), file' = file
    PROVE  AtFrames(w, fs, ctx)'
<1>u. PICK j, c, f, m, e : j = u.i /\ c = u.body /\ f = u.found /\ m = u.name /\ e = u.bodyEnd
  OBVIOUS
<1>1. /\ u = [do |-> "StackMapTable", i |-> j, n |-> Len(fs), found |-> f, name |-> m, body |-> c,
              bodyEnd |-> e]
      /\ j \in Nat /\ j + 1 \in 0 .. Len(fs) /\ IsStack(c) /\ Len(c) = j
      /\ \A k \in 1 .. j : c[k] = KeptFrame(fs[k])
  BY <1>u DEF AtFrames
<1>d. PICK d : d = Append(c, KeptFrame(fs[j + 1]))  OBVIOUS
<1>v. PICK v : v = [u EXCEPT !.body = d]  OBVIOUS
<1>2. v = [do |-> "StackMapTable", i |-> j, n |-> Len(fs), found |-> f, name |-> m, body |-> d,
           bodyEnd |-> e]
  BY <1>1, <1>v
<1>3. w = TurnOver(v)  BY <1>u, <1>d, <1>v
<1>4. w = [do |-> "StackMapTable", i |-> j + 1, n |-> Len(fs), found |-> f, name |-> m, body |-> d,
           bodyEnd |-> e]
  BY <1>2, <1>3, TurnedTask
<1>5. w.i = j + 1 /\ w.body = d
      /\ w = [do |-> "StackMapTable", i |-> w.i, n |-> Len(fs), found |-> w.found,
              name |-> w.name, body |-> w.body, bodyEnd |-> w.bodyEnd]
  <2>1. w.i = j + 1 /\ w.body = d /\ w.found = f /\ w.name = m /\ w.bodyEnd = e  BY <1>4
  <2> QED  BY <1>4, <2>1
<1>6. IsStack(d) /\ Len(d) = j + 1 /\ d[j + 1] = KeptFrame(fs[j + 1]) /\ \A k \in 1 .. j : d[k] = c[k]
  BY <1>1, <1>d, AppendStack
<1>7. \A k \in 1 .. j + 1 : d[k] = KeptFrame(fs[k])
  <2>1. \A k \in 1 .. j + 1 : k \in 1 .. j \/ k = j + 1  BY <1>1
  <2> QED  BY <1>1, <1>6, <2>1
<1>8. Follows(cursor, Rest(FrameBytes(fs), w.i) \o ctx)'
  <2>1. Follows(p, Rest(FrameBytes(fs), w.i) \o ctx)  BY <1>5, <1>u
  <2> QED  BY <2>1, FollowsLater
<1> QED  BY ZenonT(40), <1>1, <1>5, <1>6, <1>7, <1>8 DEF AtFrames

LEMMA FrameRead ==
    ASSUME NEW cs, NEW attrs, NEW ctx, Setting(cs, attrs, ctx), NEW n \in Nat, n > 0,
           NEW l \in Nat, l = n + 1, Len(tasks) = l,
           IsAttributesTask(tasks[n], attrs), Within(tasks[n], cs, attrs, ctx),
           tasks[n].name = AttributeName.StackMapTable,
           NEW i, i = tasks[n].i, NEW a, a = attrs[i + 1],
           NEW next, next = ContextOf(tasks[n], cs, attrs, ctx),
           AtFrames(tasks[l], a.info.entries, next),
           SimpleOK(a), ParseFrame
    PROVE  GoesOn(n) /\ AtSimple(n, cs, attrs, ctx)'
<1>t. PICK t, u : t = tasks[n] /\ u = tasks[l]  OBVIOUS
<1>1. IsBytes(next) /\ t.name = a.name /\ i \in Nat
  BY <1>t, ContentFacts
<1>2. Top = u  BY <1>t DEF Top
<1>f. PICK fs : fs = a.info.entries  OBVIOUS
<1>3. IsTable(fs) /\ (\A k \in DOMAIN fs : IsFrame(fs[k]) /\ fs[k].tag # 247) /\ Len(fs) \in Nat
  BY ZenonT(40), <1>1, <1>f, <1>t, SimpleInfoWritten, TableIsStack DEF SimpleOK
<1>c. PICK at, j : at = cursor /\ j = u.i  OBVIOUS
<1>4. at \in Nat /\ FileOK  BY <1>c DEF Setting
<1>5. j \in Nat /\ u.n = Len(fs) /\ AtFrames(u, fs, next) /\ Follows(at, Rest(FrameBytes(fs), j) \o next)
  <2>1. AtFrames(u, fs, next)  BY <1>f, <1>t
  <2>2. u.i \in 0 .. Len(fs) /\ u.n = Len(fs)  BY SMTT(20), <2>1 DEF AtFrames
  <2>3. j \in Nat  BY <1>3, <1>c, <2>2
  <2>4. Follows(at, Rest(FrameBytes(fs), j) \o next)  BY <1>c, <2>1 DEF AtFrames
  <2> QED  BY <2>1, <2>2, <2>3, <2>4
<1>6. j < Len(fs)
  BY <1>2, <1>3, <1>5, <1>c DEF ParseFrame, Doing, LoopDone
<1>7. /\ FrameAt(at)[1] \in Nat /\ FrameAt(at)[2] = KeptFrame(fs[j + 1])
      /\ KeptFrame(fs[j + 1]).type # "NotCaught"
      /\ Follows(FrameAt(at)[1], Rest(FrameBytes(fs), j + 1) \o next)
  BY SMTT(20), <1>1, <1>3, <1>4, <1>5, <1>6, FrameNext
<1>p. PICK p \in Nat : p = FrameAt(at)[1]  BY <1>7
<1>w. PICK w : w = TurnOver([u EXCEPT !.body = Append(u.body, KeptFrame(fs[u.i + 1]))])  OBVIOUS
<1>8. /\ tasks' = WithTop(w) /\ cursor' = p /\ file' = file /\ classFile' = classFile
      /\ outcome' = outcome
  BY <1>2, <1>7, <1>c, <1>p, <1>w DEF ParseFrame
<1>9. /\ IsStack(tasks') /\ Len(tasks') = l /\ tasks'[l] = w
      /\ tasks'[n] = t /\ \A k \in 1 .. n - 1 : tasks'[k] = tasks[k]
  <2>1. n \in 1 .. l - 1 /\ (\A k \in 1 .. n - 1 : k \in 1 .. l - 1) /\ l > 0  OBVIOUS
  <2>2. /\ IsStack(WithTop(w)) /\ Len(WithTop(w)) = l /\ WithTop(w)[l] = w
        /\ \A k \in 1 .. l - 1 : WithTop(w)[k] = tasks[k]
    BY <2>1, TopChanges DEF Setting
  <2> QED  BY <1>8, <1>t, <2>1, <2>2
<1>10. AtFrames(w, fs, next)'
  <2>1. u.i < Len(fs) /\ Follows(p, Rest(FrameBytes(fs), u.i + 1) \o next)  BY <1>6, <1>7, <1>c, <1>p
  <2> QED  BY <1>3, <1>5, <1>8, <1>w, <2>1, FramesGrow
<1>11. Within(tasks[n], cs, attrs, ctx)'  BY <1>8, <1>9, <1>t DEF Within
<1>12. GoesOn(n)
  <2>1. tasks'[n].i # tasks[n].i + 1  BY <1>1, <1>9, <1>t
  <2> QED  BY <1>8, <1>9, <2>1 DEF GoesOn
<1>13. AtSimple(n, cs, attrs, ctx)'
  BY <1>9, <1>10, <1>11, <1>f, <1>t DEF AtSimple
<1> QED  BY <1>12, <1>13

LEMMA FramesReturn ==
    ASSUME NEW cs, NEW attrs, NEW ctx, Setting(cs, attrs, ctx), NEW n \in Nat, n > 0,
           NEW l \in Nat, l = n + 1, Len(tasks) = l,
           IsAttributesTask(tasks[n], attrs), Within(tasks[n], cs, attrs, ctx),
           tasks[n].name = AttributeName.StackMapTable,
           NEW i, i = tasks[n].i, NEW a, a = attrs[i + 1],
           NEW next, next = ContextOf(tasks[n], cs, attrs, ctx),
           AtFrames(tasks[l], a.info.entries, next),
           SimpleOK(a), ReturnTable("StackMapTable")
    PROVE  GoesOn(n) /\ AtSimple(n, cs, attrs, ctx)'
<1>t. PICK t, u : t = tasks[n] /\ u = tasks[l]  OBVIOUS
<1>1. IsBytes(next) /\ t.name = a.name /\ i \in Nat
  BY <1>t, ContentFacts
<1>2. Top = u /\ Caller = t  BY <1>t DEF Top, Caller
<1>3. a.name = AttributeName.StackMapTable /\ a.name # AttributeName.Code /\ a.name \in KnownNames
  BY <1>1, <1>t, NamesApart
<1>f. PICK fs : fs = a.info.entries  OBVIOUS
<1>4. IsTable(fs) /\ (\A k \in DOMAIN fs : IsFrame(fs[k])) /\ Len(fs) \in Nat /\ DOMAIN fs = 1 .. Len(fs)
  BY <1>3, <1>f, SimpleInfoWritten, TableIsStack DEF SimpleOK
<1>5. AreBytes(FrameBytes(fs)) /\ Len(FrameBytes(fs)) = Len(fs)
  BY <1>4, FramesWritten
<1>c. PICK at, j, c : at = cursor /\ j = u.i /\ c = u.body  OBVIOUS
<1>6. at \in Nat /\ FileOK  BY <1>c DEF Setting
<1>7. /\ u.n = Len(fs) /\ u.do = "StackMapTable" /\ j \in Nat /\ j <= Len(fs)
      /\ IsStack(c) /\ Len(c) = j /\ \A k \in 1 .. j : c[k] = KeptFrame(fs[k])
      /\ Follows(at, Rest(FrameBytes(fs), j) \o next)
  <2>1. AtFrames(u, fs, next)  BY <1>f, <1>t
  <2>2. u.i \in 0 .. Len(fs)  BY <2>1 DEF AtFrames
  <2>3. j \in Nat /\ j <= Len(fs)  BY <1>4, <1>c, <2>2
  <2>4. u.n = Len(fs) /\ u.do = "StackMapTable"  BY SMTT(20), <2>1 DEF AtFrames
  <2> QED  BY <1>c, <2>1, <2>3, <2>4 DEF AtFrames
<1>8. j = Len(fs)
  BY <1>2, <1>4, <1>7, <1>c DEF ReturnTable, Returning, LoopDone
<1>9. Follows(at, next)
  BY <1>1, <1>5, <1>6, <1>7, <1>8, FollowsEnd
<1>10. c = [k \in DOMAIN fs |-> KeptFrame(fs[k])]
  <2>1. c = [k \in 1 .. Len(fs) |-> c[k]]  BY <1>7, <1>8 DEF IsStack
  <2> QED  BY <1>4, <1>7, <1>8, <2>1
<1>11. KeptAny(a) = [entries |-> c]  BY <1>3, <1>10, <1>f DEF KeptAny, KeptInfo
<1>12. /\ tasks' = CallerWith(KeptAny(a)) /\ cursor' = at /\ file' = file /\ classFile' = classFile
       /\ outcome' = IF t.name \in DOMAIN t.found THEN "aborted" ELSE outcome
  BY <1>2, <1>11, <1>c DEF ReturnTable, AssertNotFound
<1>13. /\ IsStack(tasks') /\ Len(tasks') = n /\ tasks'[n] = Found(t, KeptAny(a))
       /\ \A k \in 1 .. n - 1 : tasks'[k] = tasks[k]
  <2>1. n = Len(tasks) - 1  OBVIOUS
  <2> QED  BY SMTT(20), <1>2, <1>12, <2>1, TasksReturn DEF Setting
<1> QED  BY <1>1, <1>3, <1>6, <1>9, <1>12, <1>13, <1>t, AttributeFound

-----------------------------------------------------------------------------
(* The steps of a loop over attributes without Code among them.            *)

(* What the parser can do in each kind of loop.                            *)
AttributeSteps ==
    \/ ParseAttributeHead \/ AttributeWithoutName
    \/ ParseIndexAttribute \/ ParseNestMembers \/ SkipAttribute \/ ParseCode
    \/ StartTable("StackMapTable") \/ StartTable("BootstrapMethods")
    \/ ReturnToCode \/ ReturnToMember \/ ReturnClassFile

SectionSteps ==
    \/ ParseVersion \/ ParseAccess
    \/ StartMembers("fields") \/ StartMembers("methods") \/ StartClassAttributes

LEMMA LenOfFile ==
    ASSUME FileOK
    PROVE  Len(file) \in Nat
BY DEF FileOK

LEMMA StepsByLoop ==
    ASSUME outcome = "parsing", FileOK, cursor \in Nat, cursor <= Len(file), ParserNext
    PROVE  /\ Top.do = "attributes" => AttributeSteps
           /\ Top.do = "StackMapTable" => ParseFrame \/ ReturnTable("StackMapTable")
           /\ Top.do = "parse" => SectionSteps
           /\ Top.do = "constants" => ParseConstant \/ ReturnFromLoop
           /\ \A members \in {"fields", "methods"} :
                Top.do = members => ParseMember(members) \/ ReturnFromLoop
<1>1. Tables = {"StackMapTable", "BootstrapMethods"}  BY DEF Tables
<1>2. ~Overrun  BY LenOfFile DEF Overrun
<1>d. PICK d : d = Top.do  OBVIOUS
<1>3. /\ ParseVersion \/ ParseAccess \/ StartClassAttributes => d = "parse"
      /\ \A members \in {"fields", "methods"} :
            (StartMembers(members) => d = "parse") /\ (ParseMember(members) => d = members)
      /\ ParseConstant => d = "constants"
  BY <1>d DEF Doing, ParseVersion, ParseAccess, StartClassAttributes, StartMembers, ParseMember,
              ParseConstant
<1>4. /\ ParseAttributeHead \/ AttributeWithoutName \/ ParseIndexAttribute \/ ParseNestMembers
         \/ SkipAttribute \/ ParseCode => d = "attributes"
      /\ \A name \in Tables : StartTable(name) => d = "attributes"
  BY <1>d DEF Doing, Attribute, ParseAttributeHead, AttributeWithoutName, ParseIndexAttribute,
              ParseNestMembers, SkipAttribute, ParseCode, StartTable
<1>5. /\ \A name \in Tables : ReturnTable(name) => d = name
      /\ ParseFrame => d = "StackMapTable"
      /\ ParseBootstrapMethod => d = "BootstrapMethods"
      /\ ReturnToCode \/ ReturnToMember \/ ReturnClassFile => d = "attributes"
      /\ ReturnFromLoop => d \in {"constants", "fields", "methods"}
  BY <1>d DEF Doing, Returning, ReturnTable, ParseFrame, ParseBootstrapMethod, ReturnToCode,
              ReturnToMember, ReturnClassFile, ReturnFromLoop
<1>6. \/ ParseVersion \/ ParseConstant \/ ParseAccess
      \/ StartMembers("fields") \/ ParseMember("fields")
      \/ StartMembers("methods") \/ ParseMember("methods")
      \/ StartClassAttributes
      \/ ParseAttributeHead \/ AttributeWithoutName
      \/ ParseIndexAttribute \/ ParseNestMembers \/ SkipAttribute \/ ParseCode
      \/ StartTable("StackMapTable") \/ ReturnTable("StackMapTable")
      \/ StartTable("BootstrapMethods") \/ ReturnTable("BootstrapMethods")
      \/ ParseFrame \/ ParseBootstrapMethod
      \/ ReturnFromLoop \/ ReturnToCode \/ ReturnToMember \/ ReturnClassFile
  BY <1>1, <1>2 DEF ParserNext
<1> QED  BY <1>1, <1>3, <1>4, <1>5, <1>6, <1>d DEF AttributeSteps, SectionSteps

(* The loop n has made all its turns.                                      *)
AtEnd(n, attrs, ctx) ==
    /\ Len(tasks) = n /\ IsAttributesTask(tasks[n], attrs) /\ tasks[n].i = Len(attrs)
    /\ Follows(cursor, ctx)
    /\ ReturnToCode \/ ReturnToMember \/ ReturnClassFile

LEMMA BetweenStep ==
    ASSUME NEW cs, NEW attrs, NEW ctx, Setting(cs, attrs, ctx), NEW n \in Nat, Len(tasks) = n, n > 0,
           IsAttributesTask(tasks[n], attrs), Between(tasks[n], cs, attrs, ctx),
           outcome = "parsing", ParserNext
    PROVE  (GoesOn(n) /\ AtSimple(n, cs, attrs, ctx)') \/ AtEnd(n, attrs, ctx)
<1>t. PICK t : t = tasks[n]  OBVIOUS
<1>c. PICK at, i : at = cursor /\ i = t.i  OBVIOUS
<1>1. Top = t  BY <1>t DEF Top
<1>2. /\ t.do = "attributes" /\ t.n = Len(attrs) /\ i \in 0 .. Len(attrs) /\ t.name = NoName
      /\ Follows(at, Rest(AttributeBytes(cs, attrs), i) \o ctx)
  BY <1>c, <1>t DEF IsAttributesTask, Between
<1>3. /\ at \in Nat /\ FileOK /\ PoolOK(cs) /\ AttributesOK(cs, attrs) /\ IsBytes(ctx)
      /\ classFile.constantPool = PoolOf(cs)
  BY <1>c DEF Setting
<1>4. /\ AreBytes(AttributeBytes(cs, attrs)) /\ Len(AttributeBytes(cs, attrs)) = Len(attrs)
      /\ Len(attrs) \in Nat /\ i \in Nat /\ IsBytes(Rest(AttributeBytes(cs, attrs), i) \o ctx)
  BY <1>2, <1>3, ContextBytes
<1>5. cursor <= Len(file)  BY <1>2, <1>3, <1>4, <1>c, FollowsInFile
<1>6. AttributeSteps  BY <1>1, <1>2, <1>3, <1>5, <1>c, StepsByLoop
<1>7. ASSUME i < Len(attrs) PROVE NameIsThere /\ ~LoopDone(t)
  <2>1. i \in 0 .. Len(attrs) - 1  BY <1>4, <1>7
  <2>2. U2At(at) \in DOMAIN PoolOf(cs) /\ PoolOf(cs)[U2At(at)].kind = "Utf8"
    BY <1>2, <1>3, <2>1, AttributeNext
  <2>3. ~(t.i >= t.n)  BY <1>2, <1>4, <1>7, <1>c
  <2> QED  BY <1>3, <1>c, <2>2, <2>3 DEF NameIsThere, LoopDone
<1>8. i < Len(attrs) \/ i = Len(attrs)  BY <1>2, <1>4
<1>9. LoopDone(t) => i = Len(attrs)  BY <1>7, <1>8
<1>10. ~LoopDone(t) => i < Len(attrs)  BY <1>2, <1>4, <1>8, <1>c DEF LoopDone
<1>11. /\ ~ParseIndexAttribute /\ ~ParseNestMembers /\ ~SkipAttribute /\ ~ParseCode
       /\ ~StartTable("StackMapTable") /\ ~StartTable("BootstrapMethods")
  <2>2. NoName \notin KnownNames /\ NoName \notin IndexNames  BY NameOrMark, NamesApart
  <2>3. /\ AttributeName.NestMembers # NoName /\ AttributeName.Code # NoName
        /\ AttributeName.StackMapTable # NoName /\ AttributeName.BootstrapMethods # NoName
    BY NameOrMark, NamesNamed
  <2> QED  BY <1>1, <1>2, <2>2, <2>3 DEF ParseIndexAttribute, ParseNestMembers, SkipAttribute,
                                        ParseCode, StartTable, Attribute
<1>12. CASE ParseAttributeHead  BY <1>12, HeadRead
<1>13. CASE AttributeWithoutName
  BY <1>1, <1>7, <1>10, <1>13 DEF AttributeWithoutName
<1>14. CASE ReturnToCode \/ ReturnToMember \/ ReturnClassFile
  <2>1. LoopDone(t)  BY <1>1, <1>14 DEF ReturnToCode, ReturnToMember, ReturnClassFile, Returning
  <2>2. i = Len(attrs)  BY <1>9, <2>1
  <2>3. Follows(at, ctx)  BY <1>2, <1>3, <1>4, <2>2, FollowsEnd
  <2> QED  BY <1>14, <1>c, <1>t, <2>2, <2>3 DEF AtEnd
<1> QED  BY <1>6, <1>11, <1>12, <1>13, <1>14 DEF AttributeSteps

LEMMA ContentStep ==
    ASSUME NEW cs, NEW attrs, NEW ctx, Setting(cs, attrs, ctx), NEW n \in Nat, Len(tasks) = n, n > 0,
           IsAttributesTask(tasks[n], attrs), Within(tasks[n], cs, attrs, ctx),
           AtContent(tasks[n], cs, attrs, ctx), AnyOK(cs, attrs[tasks[n].i + 1]),
           outcome = "parsing", ParserNext
    PROVE  /\ GoesOn(n)
           /\ \/ AtSimple(n, cs, attrs, ctx)'
              \/ AtAny(n, cs, attrs, ctx)' /\ attrs[tasks[n].i + 1].name = AttributeName.Code
<1>t. PICK t : t = tasks[n]  OBVIOUS
<1>c. PICK at, i : at = cursor /\ i = t.i  OBVIOUS
<1>a. PICK a : a = attrs[i + 1]  OBVIOUS
<1>x. PICK next : next = ContextOf(t, cs, attrs, ctx)  OBVIOUS
<1>1. Top = t  BY <1>t DEF Top
<1>2. t.do = "attributes" /\ t.n = Len(attrs)  BY <1>t DEF IsAttributesTask
<1>3. IsBytes(next) /\ IsBytes(Content(cs, a)) /\ t.name = a.name /\ a.name # NoName /\ i \in Nat
  BY <1>a, <1>c, <1>t, <1>x, ContentFacts
<1>4. at \in Nat /\ FileOK  BY <1>c DEF Setting
<1>5. IsBytes(Content(cs, a) \o next) /\ Follows(at, Content(cs, a) \o next)
  BY <1>3, <1>a, <1>c, <1>t, <1>x, Parts2 DEF AtContent
<1>6. cursor <= Len(file)  BY <1>4, <1>5, <1>c, FollowsInFile
<1>7. AttributeSteps  BY <1>1, <1>2, <1>4, <1>6, <1>c, StepsByLoop
<1>8. ~LoopDone(t)
  <2>1. Len(attrs) \in Nat  BY AttributesWritten DEF Setting
  <2>2. ~(t.i >= t.n)  BY <1>2, <1>3, <1>c, <1>t, <2>1 DEF Within
  <2> QED  BY <2>2 DEF LoopDone
<1>9. ~ParseAttributeHead /\ ~AttributeWithoutName /\ ~ReturnToCode /\ ~ReturnToMember /\ ~ReturnClassFile
  BY <1>1, <1>3, <1>8 DEF ParseAttributeHead, AttributeWithoutName, ReturnToCode, ReturnToMember,
                         ReturnClassFile, Returning
<1>10. a.name # AttributeName.Code => SimpleOK(a)  BY <1>a, <1>c, <1>t DEF AnyOK
<1>11. CASE ParseIndexAttribute
  <2>1. a.name \in IndexNames  BY <1>1, <1>3, <1>11 DEF ParseIndexAttribute
  <2>2. SimpleOK(a)  BY <1>10, <2>1, NamesApart
  <2> QED  BY <1>11, <1>a, <1>c, <1>t, <2>2, IndexRead
<1>12. CASE SkipAttribute  BY <1>12, AttributeSkipped
<1>13. CASE StartTable("StackMapTable")
  <2>1. a.name = AttributeName.StackMapTable  BY <1>1, <1>3, <1>13 DEF StartTable, Attribute
  <2>2. SimpleOK(a)  BY <1>10, <2>1, NamesApart
  <2> QED  BY <1>13, <1>a, <1>c, <1>t, <2>2, FramesStart
<1>14. CASE ParseNestMembers \/ StartTable("BootstrapMethods")
  <2>1. a.name \in {AttributeName.NestMembers, AttributeName.BootstrapMethods}
    BY <1>1, <1>3, <1>14 DEF ParseNestMembers, StartTable, Attribute
  <2>2. a.name # AttributeName.Code  BY <2>1, NamesNamed, NamesDiffer
  <2> QED  BY <1>10, <2>1, <2>2 DEF SimpleOK
<1>15. CASE ParseCode
  <2>1. a.name = AttributeName.Code  BY <1>1, <1>3, <1>15 DEF ParseCode, Attribute
  <2> QED  BY <1>15, <1>a, <1>c, <1>t, <2>1, CodeStarts
<1> QED  BY <1>7, <1>9, <1>11, <1>12, <1>13, <1>14, <1>15 DEF AttributeSteps

-----------------------------------------------------------------------------
(* A loop over attributes that are simple stays one.                       *)

(* In a loop over attributes, the parser goes on as it should or is done.  *)
FoundCode(attrs) == \E k \in DOMAIN attrs : attrs[k].name = AttributeName.Code

LEMMA FramesStep ==
    ASSUME NEW cs, NEW attrs, NEW ctx, Setting(cs, attrs, ctx), NEW n \in Nat, n > 0,
           NEW l \in Nat, l = n + 1, Len(tasks) = l,
           IsAttributesTask(tasks[n], attrs), Within(tasks[n], cs, attrs, ctx),
           tasks[n].name = AttributeName.StackMapTable,
           NEW i, i = tasks[n].i, NEW a, a = attrs[i + 1],
           NEW next, next = ContextOf(tasks[n], cs, attrs, ctx),
           AtFrames(tasks[l], a.info.entries, next),
           SimpleOK(a), outcome = "parsing", ParserNext
    PROVE  GoesOn(n) /\ AtSimple(n, cs, attrs, ctx)'
<1>t. PICK u : u = tasks[l]  OBVIOUS
<1>f. PICK fs : fs = a.info.entries  OBVIOUS
<1>1. Top = u  BY <1>t DEF Top
<1>2. u.do = "StackMapTable"  BY SMTT(20), <1>f, <1>t DEF AtFrames
<1>3. cursor \in Nat /\ FileOK  BY DEF Setting
<1>4. IsBytes(next) /\ a.name = AttributeName.StackMapTable  BY ContentFacts
<1>5. IsTable(fs) /\ \A k \in DOMAIN fs : IsFrame(fs[k])
  BY <1>4, <1>f, SimpleInfoWritten DEF SimpleOK
<1>6. /\ AreBytes(FrameBytes(fs)) /\ Len(FrameBytes(fs)) = Len(fs)
      /\ u.i \in 0 .. Len(fs) /\ Follows(cursor, Rest(FrameBytes(fs), u.i) \o next)
  BY <1>5, <1>f, <1>t, FramesWritten DEF AtFrames
<1>7. IsBytes(Rest(FrameBytes(fs), u.i))  BY <1>6, RestFacts
<1>8. IsBytes(Rest(FrameBytes(fs), u.i) \o next)  BY <1>4, <1>7, Parts2
<1>9. cursor <= Len(file)  BY <1>3, <1>6, <1>8, FollowsInFile
<1>10. ParseFrame \/ ReturnTable("StackMapTable")  BY <1>1, <1>2, <1>3, <1>9, StepsByLoop
<1>11. CASE ParseFrame  BY <1>11, FrameRead
<1>12. CASE ReturnTable("StackMapTable")  BY <1>12, FramesReturn
<1> QED  BY <1>10, <1>11, <1>12

LEMMA SimpleStep ==
    ASSUME NEW cs, NEW attrs, NEW ctx, Setting(cs, attrs, ctx), NEW n \in Nat, n > 0,
           AtSimple(n, cs, attrs, ctx), \A k \in DOMAIN attrs : AnyOK(cs, attrs[k]),
           outcome = "parsing", ParserNext
    PROVE  \/ /\ GoesOn(n)
              /\ AtSimple(n, cs, attrs, ctx)' \/ (AtAny(n, cs, attrs, ctx)' /\ FoundCode(attrs))
           \/ AtEnd(n, attrs, ctx)
<1>1. IsAttributesTask(tasks[n], attrs)  BY DEF AtSimple
<1>2. CASE Len(tasks) = n /\ Between(tasks[n], cs, attrs, ctx)
  BY <1>1, <1>2, BetweenStep
<1>3. ASSUME Within(tasks[n], cs, attrs, ctx)
      PROVE  tasks[n].i + 1 \in DOMAIN attrs /\ AnyOK(cs, attrs[tasks[n].i + 1])
  BY <1>1, <1>3, ContentFacts
<1>4. CASE Within(tasks[n], cs, attrs, ctx) /\ Len(tasks) = n /\ AtContent(tasks[n], cs, attrs, ctx)
  BY <1>1, <1>3, <1>4, ContentStep DEF FoundCode
<1>5. CASE /\ Within(tasks[n], cs, attrs, ctx)
           /\ Len(tasks) = n + 1 /\ tasks[n].name = AttributeName.StackMapTable
           /\ AtFrames(tasks[n + 1], attrs[tasks[n].i + 1].info.entries,
                       ContextOf(tasks[n], cs, attrs, ctx))
  <2>1. AnyOK(cs, attrs[tasks[n].i + 1])  BY <1>3, <1>5
  <2>2. attrs[tasks[n].i + 1].name # AttributeName.Code  BY <1>5, NamesApart DEF Within
  <2>3. SimpleOK(attrs[tasks[n].i + 1])  BY <2>1, <2>2 DEF AnyOK
  <2> QED  BY <1>1, <1>5, <2>3, FramesStep
<1> QED  BY <1>2, <1>4, <1>5 DEF AtSimple

-----------------------------------------------------------------------------
(* A loop over any attributes stays one, or is done.                       *)

(* All attributes have been found: the map is what should be kept of them. *)
LEMMA MapComplete ==
    ASSUME NEW attrs, IsStack(attrs), NEW found, IsMapOf(found, attrs, Len(attrs))
    PROVE  found = KeptAnys(attrs)
<1>d. PICK Known : Known = {k \in DOMAIN attrs : attrs[k].name \in KnownNames}  OBVIOUS
<1>i. PICK infos : infos = [k \in DOMAIN attrs |-> KeptAny(attrs[k])]  OBVIOUS
<1>1. Known = KnownAmong(attrs, Len(attrs))  BY <1>d, StackDomain DEF KnownAmong
<1>2. KeptAnys(attrs) = [name \in {attrs[k].name : k \in Known} |->
                            infos[CHOOSE k \in Known : attrs[k].name = name]]
  BY <1>d, <1>i DEF KeptAnys, KeptAs
<1>3. /\ found = [name \in DOMAIN found |-> found[name]]
      /\ DOMAIN found = {attrs[k].name : k \in Known}
      /\ \A k \in Known : found[attrs[k].name] = KeptAny(attrs[k])
  BY <1>1 DEF IsMapOf
<1>4. ASSUME NEW name \in {attrs[k].name : k \in Known}
      PROVE  found[name] = infos[CHOOSE k \in Known : attrs[k].name = name]
  <2>1. PICK j : j = CHOOSE k \in Known : attrs[k].name = name  OBVIOUS
  <2>2. j \in Known /\ attrs[j].name = name  BY <1>4, <2>1
  <2>3. j \in DOMAIN attrs  BY <1>d, <2>2
  <2>4. infos[j] = KeptAny(attrs[j])  BY <1>i, <2>3
  <2> QED  BY <1>3, <2>1, <2>2, <2>4
<1>n. PICK Names : Names = {attrs[k].name : k \in Known}  OBVIOUS
<1>g. PICK g : g = [name \in Names |-> infos[CHOOSE k \in Known : attrs[k].name = name]]  OBVIOUS
<1>5. KeptAnys(attrs) = g  BY <1>2, <1>g, <1>n
<1>6. DOMAIN g = Names /\ \A name \in Names : found[name] = g[name]  BY <1>4, <1>g, <1>n
<1>7. found = [name \in Names |-> found[name]]  BY <1>3, <1>n
<1>8. g = [name \in Names |-> g[name]]  BY <1>g
<1> QED  BY <1>5, <1>6, <1>7, <1>8

LEMMA KeptWithoutCode ==
    ASSUME NEW attrs, ~FoundCode(attrs)
    PROVE  KeptAnys(attrs) = KeptInfos(attrs)
<1>1. \A k \in DOMAIN attrs : KeptAny(attrs[k]) = KeptInfo(attrs[k])  BY DEF FoundCode, KeptAny
<1>2. [k \in DOMAIN attrs |-> KeptAny(attrs[k])] = [k \in DOMAIN attrs |-> KeptInfo(attrs[k])]
  BY <1>1
<1> QED  BY <1>2 DEF KeptAnys, KeptInfos

LEMMA CodeComplete ==
    ASSUME NEW code, NEW found, found = KeptInfos(code.attributes)
    PROVE  [CodeSoFar(code) EXCEPT !.attributes = found] = KeptCode(code)
<1>k. PICK k : k = KeptCode(code)  OBVIOUS
<1>1. k = [maxStack |-> k.maxStack, maxLocals |-> k.maxLocals, code |-> k.code,
           exceptionTable |-> k.exceptionTable, attributes |-> found]
  BY <1>k DEF KeptCode
<1>m. PICK m : m = [k EXCEPT !.attributes = <<>>]  OBVIOUS
<1>2. m = [maxStack |-> k.maxStack, maxLocals |-> k.maxLocals, code |-> k.code,
           exceptionTable |-> k.exceptionTable, attributes |-> <<>>]
  BY <1>1, <1>m
<1>3. [m EXCEPT !.attributes = found] =
          [maxStack |-> k.maxStack, maxLocals |-> k.maxLocals, code |-> k.code,
           exceptionTable |-> k.exceptionTable, attributes |-> found]
  BY <1>2
<1> QED  BY <1>1, <1>3, <1>k, <1>m DEF CodeSoFar

-----------------------------------------------------------------------------
(* Each attribute that a loop around n or the loop n is done with ends     *)
(* where its length says.                                                  *)
Keeps(n) ==
    \A k \in DOMAIN tasks \cap DOMAIN tasks' :
        /\ k >= n /\ tasks[k].do = "attributes" /\ tasks'[k].do = "attributes"
        /\ tasks'[k].i = tasks[k].i + 1
        => cursor' = tasks[k].bodyEnd

LEMMA AboveSimple ==
    ASSUME NEW cs, NEW attrs, NEW ctx, NEW n \in Nat, IsStack(tasks), AtSimple(n, cs, attrs, ctx)
    PROVE  /\ Len(tasks) \in {n, n + 1} /\ tasks[n].do = "attributes" /\ tasks[n].i \in Nat
           /\ \A k \in DOMAIN tasks : k > n => tasks[k].do # "attributes"
<1>1. Len(tasks) = n \/ (Len(tasks) = n + 1 /\ tasks[n + 1].do = "StackMapTable")
  <2>1. CASE Len(tasks) = n  BY <2>1
  <2>2. ASSUME NEW fs, NEW next, AtFrames(tasks[n + 1], fs, next)
        PROVE  tasks[n + 1].do = "StackMapTable"
    BY <2>2 DEF AtFrames
  <2> QED  BY <2>1, <2>2 DEF AtSimple
<1>2. IsAttributesTask(tasks[n], attrs)  BY DEF AtSimple
<1>3. tasks[n].do = "attributes" /\ tasks[n].i \in Nat  BY <1>2 DEF IsAttributesTask
<1>4. ASSUME NEW k \in DOMAIN tasks, k > n PROVE tasks[k].do # "attributes"
  <2>1. k \in 1 .. Len(tasks)  BY StackDomain
  <2>2. k = n + 1 /\ Len(tasks) = n + 1  BY <1>1, <1>4, <2>1
  <2> QED  BY <1>1, <2>2
<1> QED  BY <1>1, <1>3, <1>4

LEMMA SimpleKeeps ==
    ASSUME NEW cs, NEW attrs, NEW ctx, NEW n \in Nat, IsStack(tasks), AtSimple(n, cs, attrs, ctx),
           GoesOn(n)
    PROVE  Keeps(n)
<1>1. \A k \in DOMAIN tasks : k \in Int  BY StackDomain
<1>2. \A k \in DOMAIN tasks : k >= n /\ tasks[k].do = "attributes" => k = n
  BY <1>1, AboveSimple
<1> QED  BY <1>2 DEF Keeps, GoesOn

(* The attributes of code are parsed as the others are.                    *)
LEMMA InnerSetting ==
    ASSUME NEW cs, NEW attrs, NEW ctx, Setting(cs, attrs, ctx), NEW n \in Nat, n > 0,
           IsAttributesTask(tasks[n], attrs), Within(tasks[n], cs, attrs, ctx),
           tasks[n].name = AttributeName.Code,
           NEW a, a = attrs[tasks[n].i + 1], AnyOK(cs, a),
           NEW inner, inner = a.info.attributes,
           NEW next, next = ContextOf(tasks[n], cs, attrs, ctx)
    PROVE  /\ Setting(cs, inner, next) /\ a.name = AttributeName.Code
           /\ \A k \in DOMAIN inner : SimpleOK(inner[k]) /\ AnyOK(cs, inner[k])
           /\ ~FoundCode(inner)
<1>1. a.name = AttributeName.Code /\ IsBytes(next)  BY ContentFacts
<1>2. IsCode(cs, a.info) /\ \A k \in DOMAIN inner : SimpleOK(inner[k])  BY <1>1 DEF AnyOK
<1>3. AttributesOK(cs, inner)  BY <1>2, CodeWritten DEF Setting
<1>4. \A k \in DOMAIN inner : inner[k].name # AttributeName.Code /\ AnyOK(cs, inner[k])
  BY ZenonT(40), <1>2 DEF SimpleOK, AnyOK
<1> QED  BY <1>1, <1>2, <1>3, <1>4 DEF Setting, FoundCode

-----------------------------------------------------------------------------
(* Attributes keep to their length.                                        *)

LEMMA LengthKeeps ==
    ASSUME NEW n \in Nat, GoesOn(n), Len(tasks') = n
    PROVE  Keeps(n)
<1>1. IsStack(tasks')  BY DEF GoesOn
<1>2. \A k \in DOMAIN tasks' : k \in 1 .. n  BY <1>1, StackDomain
<1>3. \A k \in DOMAIN tasks' : k >= n => k = n  BY <1>2
<1> QED  BY <1>3 DEF Keeps, GoesOn

(* The loop over the attributes of code is left: the code is complete.     *)
LEMMA CodeEnds ==
    ASSUME NEW cs, NEW attrs, NEW ctx, Setting(cs, attrs, ctx), NEW n \in Nat, n > 0,
           NEW l \in Nat, l = n + 1,
           IsAttributesTask(tasks[n], attrs), Within(tasks[n], cs, attrs, ctx),
           tasks[n].name = AttributeName.Code,
           NEW a, a = attrs[tasks[n].i + 1], AnyOK(cs, a),
           tasks[n].body = <<CodeSoFar(a.info)>>,
           NEW inner, inner = a.info.attributes,
           NEW next, next = ContextOf(tasks[n], cs, attrs, ctx),
           AtEnd(l, inner, next)
    PROVE  GoesOn(n) /\ AtSimple(n, cs, attrs, ctx)' /\ Keeps(n)
<1>1. /\ Setting(cs, inner, next) /\ a.name = AttributeName.Code /\ ~FoundCode(inner)
  BY InnerSetting
<1>2. IsStack(inner)  BY <1>1, AttributesWritten DEF Setting
<1>3. /\ Len(tasks) = l /\ IsMapOf(tasks[l].found, inner, Len(inner)) /\ Follows(cursor, next)
      /\ ReturnToCode \/ ReturnToMember \/ ReturnClassFile
  BY DEF AtEnd, IsAttributesTask
<1>4. tasks[l].found = KeptInfos(inner)  BY <1>1, <1>2, <1>3, MapComplete, KeptWithoutCode
<1>5. n = Len(tasks) - 1 /\ IsStack(tasks)  BY SMTT(20), <1>3 DEF Setting
<1>6. Top = tasks[l] /\ Caller = tasks[n]  BY <1>5, TasksReturn
<1>7. tasks[n].do = "attributes"  BY DEF IsAttributesTask
<1>8. ReturnToCode  BY <1>3, <1>6, <1>7 DEF ReturnToMember, ReturnClassFile
<1>b. PICK b : b = CodeSoFar(a.info)  OBVIOUS
<1>9. Caller.body[1] = b  BY <1>6, <1>b
<1>10. [Caller.body[1] EXCEPT !.attributes = Top.found] = KeptAny(a)
  BY <1>1, <1>4, <1>6, <1>9, <1>b, CodeComplete DEF KeptAny
<1>k. PICK kept : kept = KeptAny(a)  OBVIOUS
<1>11. /\ tasks' = CallerWith(kept)
       /\ outcome' = IF tasks[n].name \in DOMAIN tasks[n].found THEN "aborted" ELSE outcome
       /\ file' = file /\ cursor' = cursor /\ classFile' = classFile
  BY <1>6, <1>8, <1>10, <1>k DEF ReturnToCode, AssertNotFound
<1>12. /\ IsStack(CallerWith(kept)) /\ Len(CallerWith(kept)) = n
       /\ CallerWith(kept)[n] = Found(tasks[n], kept)
       /\ \A k \in 1 .. n - 1 : CallerWith(kept)[k] = tasks[k]
  BY <1>5, <1>6, TasksReturn
<1>13. IsStack(tasks') /\ Len(tasks') = n /\ tasks'[n] = Found(tasks[n], kept)
  BY <1>11, <1>12
<1>14. \A k \in 1 .. n - 1 : tasks'[k] = tasks[k]  BY <1>11, <1>12
<1>15. tasks[n].name \in KnownNames  BY NamesApart
<1>p. PICK p \in Nat : p = cursor  BY DEF Setting
<1>16. cursor' = p /\ Follows(p, ContextOf(tasks[n], cs, attrs, ctx))  BY <1>3, <1>11, <1>p
<1>17. GoesOn(n) /\ AtSimple(n, cs, attrs, ctx)'
  BY <1>11, <1>13, <1>14, <1>15, <1>16, <1>k, AttributeFound
<1> QED  BY <1>13, <1>17, LengthKeeps

(* While the attributes of code are parsed, its own loop waits.            *)
LEMMA InnerGoesOn ==
    ASSUME NEW cs, NEW attrs, NEW ctx, Setting(cs, attrs, ctx), NEW n \in Nat, n > 0,
           NEW l \in Nat, l = n + 1,
           IsAttributesTask(tasks[n], attrs), Within(tasks[n], cs, attrs, ctx),
           tasks[n].name = AttributeName.Code,
           NEW a, a = attrs[tasks[n].i + 1],
           tasks[n].body = <<CodeSoFar(a.info)>>,
           NEW inner, inner = a.info.attributes,
           NEW next, next = ContextOf(tasks[n], cs, attrs, ctx),
           AtSimple(l, cs, inner, next), GoesOn(l), AtSimple(l, cs, inner, next)', file' = file
    PROVE  GoesOn(n) /\ AtAny(n, cs, attrs, ctx)' /\ Keeps(n)
<1>1. /\ IsStack(tasks)' /\ \A k \in 1 .. n : tasks'[k] = tasks[k]
      /\ cursor' \in Nat /\ classFile' = classFile /\ outcome' = outcome
  BY DEF GoesOn
<1>t. PICK t : t = tasks[n]  OBVIOUS
<1>2. tasks'[n] = t /\ \A k \in 1 .. n - 1 : tasks'[k] = tasks[k]  BY <1>1, <1>t
<1>3. t.i \in Nat  BY <1>t DEF IsAttributesTask
<1>4. t.i # t.i + 1  BY <1>3
<1>5. GoesOn(n)  BY <1>1, <1>2, <1>4, <1>t DEF GoesOn
<1>6. Keeps(n)
  <2>1. IsStack(tasks)  BY DEF Setting
  <2>2. Keeps(l)  BY <2>1, SimpleKeeps
  <2>3. \A k \in DOMAIN tasks : k \in Int  BY <2>1, StackDomain
  <2>4. \A k \in DOMAIN tasks : k >= n => k = n \/ k >= l  BY <2>3
  <2> QED  BY <1>2, <1>4, <1>t, <2>2, <2>4 DEF Keeps
<1>7. IsAttributesTask(t, attrs)' /\ Within(t, cs, attrs, ctx)' /\ t.name = AttributeName.Code
  BY <1>t DEF IsAttributesTask, Within, ContextOf
<1>8. t.body = <<CodeSoFar(attrs[t.i + 1].info)>>  BY <1>t
<1>9. AtSimple(l, cs, attrs[t.i + 1].info.attributes, ContextOf(t, cs, attrs, ctx))'
  BY <1>t DEF ContextOf
<1>10. AtAny(n, cs, attrs, ctx)'  BY <1>2, <1>7, <1>8, <1>9 DEF AtAny
<1> QED  BY <1>5, <1>6, <1>10

-----------------------------------------------------------------------------
(* The file stays, and what is read of attributes goes on.                 *)

LEMMA FileStays ==
    ASSUME ParserNext
    PROVE  file' = file /\ written' = written
BY DEF ParserNext, ParseVersion, ParseConstant, ParseAccess, StartMembers, ParseMember,
       StartClassAttributes, ParseAttributeHead, AttributeWithoutName, ParseIndexAttribute,
       ParseNestMembers, SkipAttribute, ParseCode, StartTable, ReturnTable, ParseFrame,
       ParseBootstrapMethod, ReturnFromLoop, ReturnToCode, ReturnToMember, ReturnClassFile, Overrun

(* A step in a loop over attributes, also in those of code.                *)
LEMMA AnyStep ==
    ASSUME NEW cs, NEW attrs, NEW ctx, Setting(cs, attrs, ctx), NEW n \in Nat, n > 0,
           AtAny(n, cs, attrs, ctx), \A k \in DOMAIN attrs : AnyOK(cs, attrs[k]),
           outcome = "parsing", ParserNext
    PROVE  \/ GoesOn(n) /\ AtAny(n, cs, attrs, ctx)' /\ Keeps(n)
           \/ AtEnd(n, attrs, ctx)
<1>1. IsStack(tasks) /\ n + 1 \in Nat /\ n + 1 > 0  BY DEF Setting
<1>2. CASE AtSimple(n, cs, attrs, ctx)
  <2>1. \/ GoesOn(n) /\ AtAny(n, cs, attrs, ctx)'
        \/ AtEnd(n, attrs, ctx)
    BY <1>2, SimpleStep DEF AtAny
  <2>2. GoesOn(n) => Keeps(n)  BY <1>1, <1>2, SimpleKeeps
  <2> QED  BY <2>1, <2>2
<1>3. CASE /\ IsAttributesTask(tasks[n], attrs) /\ Within(tasks[n], cs, attrs, ctx)
           /\ tasks[n].name = AttributeName.Code
           /\ tasks[n].body = <<CodeSoFar(attrs[tasks[n].i + 1].info)>>
           /\ AtSimple(n + 1, cs, attrs[tasks[n].i + 1].info.attributes,
                       ContextOf(tasks[n], cs, attrs, ctx))
  <2>a. PICK a : a = attrs[tasks[n].i + 1]  OBVIOUS
  <2>i. PICK inner : inner = a.info.attributes  OBVIOUS
  <2>x. PICK next : next = ContextOf(tasks[n], cs, attrs, ctx)  OBVIOUS
  <2>l. PICK l \in Nat : l = n + 1  BY <1>1
  <2>1. AtSimple(l, cs, inner, next)  BY <1>3, <2>a, <2>i, <2>x, <2>l
  <2>2. AnyOK(cs, a)  BY <1>3, <2>a, ContentFacts
  <2>3. /\ Setting(cs, inner, next) /\ ~FoundCode(inner)
        /\ \A k \in DOMAIN inner : AnyOK(cs, inner[k])
    BY <1>3, <2>2, <2>a, <2>i, <2>x, InnerSetting
  <2>4. (GoesOn(l) /\ AtSimple(l, cs, inner, next)') \/ AtEnd(l, inner, next)
    BY <1>1, <2>1, <2>3, <2>l, SimpleStep
  <2>5. CASE GoesOn(l) /\ AtSimple(l, cs, inner, next)'
    <3>1. file' = file  BY FileStays
    <3> QED  BY <1>3, <2>1, <2>5, <2>a, <2>i, <2>x, <2>l, <3>1, InnerGoesOn
  <2>6. CASE AtEnd(l, inner, next)
    <3>1. GoesOn(n) /\ AtSimple(n, cs, attrs, ctx)' /\ Keeps(n)
      BY <1>3, <2>2, <2>6, <2>a, <2>i, <2>x, <2>l, CodeEnds
    <3> QED  BY <3>1 DEF AtAny
  <2> QED  BY <2>4, <2>5, <2>6
<1> QED  BY <1>2, <1>3 DEF AtAny

-----------------------------------------------------------------------------
(* What is kept of attributes.                                             *)

(* A readable class file has attributes that can be kept.                  *)
AttributesKept(cs, attrs) == \A k \in DOMAIN attrs : AnyOK(cs, attrs[k])

LEMMA InRange ==
    ASSUME NEW s, NEW k \in DOMAIN s
    PROVE  s[k] \in Range(s)
BY DEF Range

LEMMA SimplesKept ==
    ASSUME NEW cs, NEW attrs, NEW kinds,
           kinds \in SUBSET {"ConstantValue", "StackMapTable", "SourceFile",
                             "BootstrapMethods", "NestHost", "NestMembers"},
           AreSimpleAttributes(cs, attrs, kinds), PoolOK(cs),
           \A k \in DOMAIN attrs :
                attrs[k].name \notin {AttributeName.NestMembers, AttributeName.BootstrapMethods},
           \A k \in DOMAIN attrs : attrs[k].name = AttributeName.StackMapTable =>
                \A j \in DOMAIN attrs[k].info.entries : attrs[k].info.entries[j].tag # 247
    PROVE  \A k \in DOMAIN attrs : SimpleOK(attrs[k]) /\ AnyOK(cs, attrs[k])
<1>1. \A k \in DOMAIN attrs : attrs[k].name # AttributeName.Code /\ IsSimpleInfo(attrs[k])
  BY SimpleAttributes
<1>2. \A k \in DOMAIN attrs : SimpleOK(attrs[k])  BY <1>1 DEF SimpleOK
<1> QED  BY <1>1, <1>2 DEF AnyOK

LEMMA KindAbsent ==
    ASSUME NEW cs, NEW attrs, NEW kinds, AreAttributes(cs, attrs, kinds),
           NEW k \in DOMAIN attrs, NEW kind \in DOMAIN AttributeName, kind \notin kinds,
           kinds \subseteq DOMAIN AttributeName
    PROVE  attrs[k].name # AttributeName[kind]
<1>1. \A j, l \in DOMAIN AttributeName : AttributeName[j] = AttributeName[l] => j = l
  <2>1. DOMAIN AttributeName = {"ConstantValue", "Code", "StackMapTable", "SourceFile",
                                "BootstrapMethods", "NestHost", "NestMembers"}
    BY DEF AttributeName
  <2> QED  BY <2>1, NamesNamed, NamesDiffer
<1>2. AttributeName[kind] \in KnownNames  BY DEF KnownNames
<1>3. AttributeName[kind] \notin NamesOf(kinds)  BY <1>1 DEF NamesOf
<1> QED  BY <1>2, <1>3 DEF AreAttributes

LEMMA FieldsKept ==
    ASSUME NEW cf, IsClassFile(cf), NEW k \in DOMAIN cf.fields
    PROVE  AttributesKept(cf.constants, cf.fields[k].attributes)
<1>c. PICK cs, attrs : cs = cf.constants /\ attrs = cf.fields[k].attributes  OBVIOUS
<1>1. AreSimpleAttributes(cs, attrs, {"ConstantValue"})  BY <1>c DEF IsClassFile
<1>2. PoolOK(cs)  BY <1>c, ClassFileOK DEF ClassOK
<1>3. AreAttributes(cs, attrs, {"ConstantValue"})  BY <1>1 DEF AreSimpleAttributes
<1>4. {"ConstantValue", "NestMembers", "BootstrapMethods", "StackMapTable"} \subseteq DOMAIN AttributeName
  BY DEF AttributeName
<1>5. \A j \in DOMAIN attrs :
        /\ attrs[j].name # AttributeName.NestMembers /\ attrs[j].name # AttributeName.BootstrapMethods
        /\ attrs[j].name # AttributeName.StackMapTable
  BY <1>3, <1>4, KindAbsent
<1> QED  BY <1>1, <1>2, <1>5, <1>c, SimplesKept DEF AttributesKept

LEMMA ClassAttributesKept ==
    ASSUME NEW cf, IsClassFile(cf), Readable(cf)
    PROVE  AttributesKept(cf.constants, cf.attributes) /\ ~FoundCode(cf.attributes)
<1>k. PICK kinds : kinds = {"SourceFile", "BootstrapMethods", "NestHost", "NestMembers"}  OBVIOUS
<1>c. PICK cs, attrs : cs = cf.constants /\ attrs = cf.attributes  OBVIOUS
<1>1. AreSimpleAttributes(cs, attrs, kinds)  BY <1>c, <1>k DEF IsClassFile
<1>2. PoolOK(cs)  BY <1>c, ClassFileOK DEF ClassOK
<1>3. AreAttributes(cs, attrs, kinds)  BY <1>1 DEF AreSimpleAttributes
<1>4. kinds \cup {"Code", "StackMapTable"} \subseteq DOMAIN AttributeName
  BY <1>k DEF AttributeName
<1>5. \A j \in DOMAIN attrs :
        attrs[j].name # AttributeName.Code /\ attrs[j].name # AttributeName.StackMapTable
  BY <1>3, <1>4, <1>k, KindAbsent
<1>6. \A j \in DOMAIN attrs :
        attrs[j].name \notin {AttributeName.NestMembers, AttributeName.BootstrapMethods}
  BY <1>c DEF Readable, Range
<1> QED  BY <1>1, <1>2, <1>5, <1>6, <1>c, <1>k, SimplesKept DEF AttributesKept, FoundCode

LEMMA MethodsKept ==
    ASSUME NEW cf, IsClassFile(cf), Readable(cf), NEW k \in DOMAIN cf.methods
    PROVE  AttributesKept(cf.constants, cf.methods[k].attributes)
<1>c. PICK cs, attrs : cs = cf.constants /\ attrs = cf.methods[k].attributes  OBVIOUS
<1>1. AreMethodAttributes(cs, attrs)  BY <1>c DEF IsClassFile
<1>2. PoolOK(cs)  BY <1>c, ClassFileOK DEF ClassOK
<1>3. AreAttributes(cs, attrs, {"Code"})  BY <1>1 DEF AreMethodAttributes
<1>4. {"Code", "NestMembers", "BootstrapMethods", "StackMapTable"} \subseteq DOMAIN AttributeName
  BY DEF AttributeName
<1>5. \A j \in DOMAIN attrs :
        /\ attrs[j].name # AttributeName.NestMembers /\ attrs[j].name # AttributeName.BootstrapMethods
        /\ attrs[j].name # AttributeName.StackMapTable
  BY <1>3, <1>4, KindAbsent
<1>6. ASSUME NEW j \in DOMAIN attrs PROVE AnyOK(cs, attrs[j])
  <2>a. PICK a : a = attrs[j]  OBVIOUS
  <2>1. CASE a.name # AttributeName.Code
    <3>1. IsSimpleInfo(a)  BY <1>1, <2>1, <2>a DEF AreMethodAttributes
    <3> QED  BY <1>5, <2>1, <2>a, <3>1 DEF AnyOK, SimpleOK
  <2>2. CASE a.name = AttributeName.Code
    <3>b. PICK inner : inner = a.info.attributes  OBVIOUS
    <3>1. IsCode(cs, a.info)  BY <1>1, <2>2, <2>a DEF AreMethodAttributes
    <3>2. AreSimpleAttributes(cs, inner, {"StackMapTable"})  BY <3>1, <3>b DEF IsCode
    <3>3. AreAttributes(cs, inner, {"StackMapTable"})  BY <3>2 DEF AreSimpleAttributes
    <3>4. \A l \in DOMAIN inner :
            inner[l].name # AttributeName.NestMembers /\ inner[l].name # AttributeName.BootstrapMethods
      BY <1>4, <3>3, KindAbsent
    <3>5. \A l \in DOMAIN inner : inner[l].name = AttributeName.StackMapTable =>
            \A f \in DOMAIN inner[l].info.entries : inner[l].info.entries[f].tag # 247
      <4>1. cf.methods[k] \in Range(cf.methods) /\ a \in Range(cf.methods[k].attributes)
        BY <1>c, <2>a, InRange
      <4>2. \A b \in Range(inner) :
                b.name = AttributeName.StackMapTable => \A f \in Range(b.info.entries) : f.tag # 247
        BY <2>2, <3>b, <4>1 DEF Readable
      <4> QED  BY <4>2, InRange
    <3>6. \A l \in DOMAIN inner : SimpleOK(inner[l])
      BY <1>2, <3>2, <3>4, <3>5, SimplesKept
    <3> QED  BY <2>2, <2>a, <3>1, <3>6, <3>b DEF AnyOK
  <2> QED  BY <2>1, <2>2, <2>a
<1> QED  BY <1>6, <1>c DEF AttributesKept

-----------------------------------------------------------------------------
(* The stages of parsing a class file.                                     *)

(* What has been parsed of a class file, member by member.                 *)
ClassAt(version, access, pool, interfaces, fields, ms, attrs) ==
    [version |-> version, access |-> access, constantPool |-> pool, interfaces |-> interfaces,
     fields |-> fields, methods |-> ms, attributes |-> attrs]

Sections == {"fields", "methods"}
AfterMembers(cf, members) == IF members = "fields" THEN AfterFields(cf) ELSE AfterMethods(cf)
TurnOf(members) == IF members = "fields" THEN 2 ELSE 3
KeptMembers(ms) == [k \in DOMAIN ms |-> KeptMember(ms[k])]

ClassWith(cf, members, ms) ==
    ClassAt(cf.version, cf.access, PoolOf(cf.constants), cf.interfaces,
            IF members = "fields" THEN ms ELSE KeptMembers(cf.fields),
            IF members = "fields" THEN <<>> ELSE ms, <<>>)

IsPoolSoFar(pool, cs, j) ==
    /\ pool = [index \in DOMAIN pool |-> pool[index]]
    /\ DOMAIN pool = {PoolIndices(cs)[k] : k \in 1 .. j}
    /\ \A k \in 1 .. j : pool[PoolIndices(cs)[k]] = cs[k]

AreKept(ms, items, m) == IsStack(ms) /\ \A k \in 1 .. m : ms[k] = KeptMember(items[k])

NewMember(item) == [KeptMember(item) EXCEPT !.attributes = <<>>]

-----------------------------------------------------------------------------
(* Where the parser of a readable class file is.                           *)
Sectioned(i, class) == tasks = <<Loop("parse", i, 5)>> /\ classFile = class

AtVersion == Sectioned(0, ClassAt(<<>>, <<>>, <<>>, <<>>, <<>>, <<>>, <<>>)) /\ cursor = 0

AtConstants(cf, j) ==
    /\ tasks = <<Loop("parse", 1, 5),
                 Loop("constants", PoolIndices(cf.constants)[j + 1], PoolCount(cf.constants))>>
    /\ classFile = ClassAt(cf.version, <<>>, classFile.constantPool, <<>>, <<>>, <<>>, <<>>)
    /\ IsPoolSoFar(classFile.constantPool, cf.constants, j)
    /\ Follows(cursor, Rest(ConstantBytes(cf.constants), j) \o AfterConstants(cf))

AtAccess(cf) ==
    /\ Sectioned(1, ClassAt(cf.version, <<>>, PoolOf(cf.constants), <<>>, <<>>, <<>>, <<>>))
    /\ Follows(cursor, AfterConstants(cf))

MembersOf(cf, members) == TableBytes(MemberBytes(cf.constants, cf[members]))

AtMembers(cf, members) ==
    /\ Sectioned(TurnOf(members), ClassWith(cf, members, <<>>))
    /\ Follows(cursor, MembersOf(cf, members) \o AfterMembers(cf, members))

AfterMember(cf, members, m) ==
    Rest(MemberBytes(cf.constants, cf[members]), m) \o AfterMembers(cf, members)

AtMember(cf, members, m) ==
    /\ tasks = <<Loop("parse", TurnOf(members) + 1, 5), Loop(members, m, Len(cf[members]))>>
    /\ \E ms : /\ classFile = ClassWith(cf, members, ms)
               /\ AreKept(ms, cf[members], m) /\ Len(ms) = m
    /\ Follows(cursor, AfterMember(cf, members, m))

InMember(cf, members, m) ==
    /\ IsStack(tasks) /\ tasks[1] = Loop("parse", TurnOf(members) + 1, 5)
    /\ tasks[2] = Loop(members, m, Len(cf[members]))
    /\ \E ms : /\ classFile = ClassWith(cf, members, ms)
               /\ AreKept(ms, cf[members], m - 1) /\ Len(ms) = m /\ ms[m] = NewMember(cf[members][m])
    /\ AtAny(3, cf.constants, cf[members][m].attributes, AfterMember(cf, members, m))

AtAttributes(cf) ==
    /\ Sectioned(4, ClassWith(cf, "methods", KeptMembers(cf.methods)))
    /\ Follows(cursor, AfterMethods(cf))

InAttributes(cf) ==
    /\ IsStack(tasks) /\ tasks[1] = Loop("parse", 5, 5)
    /\ classFile = ClassWith(cf, "methods", KeptMembers(cf.methods))
    /\ AtAny(2, cf.constants, cf.attributes, <<>>)

Stages(cf) ==
    \/ AtVersion
    \/ \E j \in 0 .. Len(cf.constants) : AtConstants(cf, j)
    \/ AtAccess(cf)
    \/ \E members \in Sections :
        \/ AtMembers(cf, members)
        \/ \E m \in 0 .. Len(cf[members]) : AtMember(cf, members, m)
        \/ \E m \in 1 .. Len(cf[members]) : InMember(cf, members, m)
    \/ AtAttributes(cf)
    \/ InAttributes(cf)

-----------------------------------------------------------------------------
LEMMA ClassParts ==
    ASSUME NEW cf, NEW members \in Sections, NEW ms, NEW y, classFile = ClassWith(cf, members, ms)
    PROVE  /\ classFile[members] = ms /\ classFile.constantPool = PoolOf(cf.constants)
           /\ [classFile EXCEPT ![members] = y] = ClassWith(cf, members, y)
<1>k. PICK fields, pool : fields = KeptMembers(cf.fields) /\ pool = PoolOf(cf.constants)  OBVIOUS
<1>1. CASE members = "fields"
  <2>1. classFile = [version |-> cf.version, access |-> cf.access, constantPool |-> pool,
                     interfaces |-> cf.interfaces, fields |-> ms, methods |-> <<>>,
                     attributes |-> <<>>]
    BY <1>1, <1>k DEF ClassWith, ClassAt
  <2>2. ClassWith(cf, members, y) =
                    [version |-> cf.version, access |-> cf.access, constantPool |-> pool,
                     interfaces |-> cf.interfaces, fields |-> y, methods |-> <<>>,
                     attributes |-> <<>>]
    BY <1>1, <1>k DEF ClassWith, ClassAt
  <2> QED  BY <1>1, <1>k, <2>1, <2>2
<1>2. CASE members = "methods"
  <2>1. classFile = [version |-> cf.version, access |-> cf.access, constantPool |-> pool,
                     interfaces |-> cf.interfaces, fields |-> fields, methods |-> ms,
                     attributes |-> <<>>]
    BY <1>2, <1>k DEF ClassWith, ClassAt
  <2>2. ClassWith(cf, members, y) =
                    [version |-> cf.version, access |-> cf.access, constantPool |-> pool,
                     interfaces |-> cf.interfaces, fields |-> fields, methods |-> y,
                     attributes |-> <<>>]
    BY <1>2, <1>k DEF ClassWith, ClassAt
  <2> QED  BY <1>2, <1>k, <2>1, <2>2
<1> QED  BY <1>1, <1>2 DEF Sections

(* Calls and returns between short stacks of loops.                        *)
LEMMA ShortStacks ==
    /\ \A x : IsStack(<<x>>) /\ Len(<<x>>) = 1 /\ <<x>>[1] = x
    /\ \A x, y : IsStack(<<x, y>>) /\ Len(<<x, y>>) = 2 /\ <<x, y>>[1] = x /\ <<x, y>>[2] = y
    /\ \A s : IsStack(s) /\ Len(s) = 1 => s = <<s[1]>>
    /\ \A s : IsStack(s) /\ Len(s) = 2 => s = <<s[1], s[2]>>
<1>1. \A x : IsStack(<<x>>) /\ Len(<<x>>) = 1 /\ <<x>>[1] = x  BY DEF IsStack
<1>2. \A x, y : IsStack(<<x, y>>) /\ Len(<<x, y>>) = 2 /\ <<x, y>>[1] = x /\ <<x, y>>[2] = y
  BY DEF IsStack
<1>3. ASSUME NEW s, IsStack(s), Len(s) = 1 PROVE s = <<s[1]>>
  <2>t. PICK t : t = <<s[1]>>  OBVIOUS
  <2>1. IsStack(t) /\ Len(t) = 1 /\ t[1] = s[1]  BY <1>1, <2>t
  <2>2. \A k \in 1 .. Len(s) : k = 1  BY <1>3
  <2>3. \A k \in 1 .. Len(s) : s[k] = t[k]  BY <2>1, <2>2
  <2>4. Len(s) = Len(t)  BY <1>3, <2>1
  <2>5. s = t  BY <1>3, <2>1, <2>3, <2>4, StackEqual
  <2> QED  BY <2>5, <2>t
<1>4. ASSUME NEW s, IsStack(s), Len(s) = 2 PROVE s = <<s[1], s[2]>>
  <2>t. PICK t : t = <<s[1], s[2]>>  OBVIOUS
  <2>1. IsStack(t) /\ Len(t) = 2 /\ t[1] = s[1] /\ t[2] = s[2]  BY <1>2, <2>t
  <2>2. \A k \in 1 .. Len(s) : k = 1 \/ k = 2  BY <1>4
  <2>3. \A k \in 1 .. Len(s) : s[k] = t[k]  BY <2>1, <2>2
  <2>4. Len(s) = Len(t)  BY <1>4, <2>1
  <2>5. s = t  BY <1>4, <2>1, <2>3, <2>4, StackEqual
  <2> QED  BY <2>5, <2>t
<1> QED  BY <1>1, <1>2, <1>3, <1>4

LEMMA LoopTurns ==
    ASSUME NEW do, NEW i, NEW n
    PROVE  /\ TurnOver(Loop(do, i, n)) = Loop(do, i + 1, n)
           /\ \A j : [Loop(do, i, n) EXCEPT !.i = j] = Loop(do, j, n)
           /\ Loop(do, i, n).do = do /\ Loop(do, i, n).i = i /\ Loop(do, i, n).n = n
BY DEF TurnOver, Loop

LEMMA FirstCall ==
    ASSUME NEW x, tasks = <<x>>, NEW y, NEW z
    PROVE  Top = x /\ WithTop(y) = <<y>> /\ Calling(y, z) = <<y, z>>
<1>1. IsStack(tasks) /\ Len(tasks) = 1 /\ tasks[1] = x  BY ShortStacks
<1>2. Top = x  BY <1>1 DEF Top
<1>3. IsStack(WithTop(y)) /\ Len(WithTop(y)) = 1 /\ WithTop(y)[1] = y  BY <1>1, TopChanges
<1>4. WithTop(y) = <<y>>  BY <1>3, ShortStacks
<1>5. Append(<<y>>, z) = <<y, z>>
  <2>s. PICK s : s = <<y>>  OBVIOUS
  <2>1. IsStack(s) /\ Len(s) = 1 /\ s[1] = y  BY <2>s, ShortStacks
  <2>a. PICK t : t = Append(s, z)  OBVIOUS
  <2>b. IsStack(t) /\ Len(t) = Len(s) + 1 /\ t[Len(s) + 1] = z  BY <2>1, <2>a, AppendStack
  <2>c. Len(s) + 1 = 2  BY <2>1
  <2>2. IsStack(Append(s, z)) /\ Len(Append(s, z)) = 2 /\ Append(s, z)[2] = z
    BY <2>a, <2>b, <2>c
  <2>3. 1 \in 1 .. Len(s)  BY <2>1
  <2>4. Append(s, z)[1] = y  BY <2>1, <2>3, AppendStack
  <2>5. Append(s, z) = <<Append(s, z)[1], Append(s, z)[2]>>  BY <2>2, ShortStacks
  <2> QED  BY <2>2, <2>4, <2>5, <2>s
<1>6. Calling(y, z) = <<y, z>>  BY <1>4, <1>5 DEF Calling
<1> QED  BY <1>2, <1>4, <1>6

LEMMA SecondCall ==
    ASSUME NEW x, NEW w, tasks = <<x, w>>, NEW y
    PROVE  /\ Top = w /\ Caller = x /\ WithTop(y) = <<x, y>> /\ Callers = <<x>>
<1>1. IsStack(tasks) /\ Len(tasks) = 2 /\ tasks[1] = x /\ tasks[2] = w  BY ShortStacks
<1>2. Top = w /\ Caller = x  BY <1>1 DEF Top, Caller
<1>3. IsStack(WithTop(y)) /\ Len(WithTop(y)) = 2 /\ WithTop(y)[1] = x /\ WithTop(y)[2] = y
  <2>n. PICK n \in Nat : n = 2  OBVIOUS
  <2>1. /\ IsStack(WithTop(y)) /\ Len(WithTop(y)) = n /\ WithTop(y)[n] = y
        /\ \A k \in 1 .. n - 1 : WithTop(y)[k] = tasks[k]
    BY <1>1, <2>n, TopChanges
  <2>2. 1 \in 1 .. n - 1  BY <2>n
  <2> QED  BY <1>1, <2>1, <2>2, <2>n
<1>4. WithTop(y) = <<x, y>>  BY <1>3, ShortStacks
<1>6. IsStack(Callers) /\ Len(Callers) = 1 /\ Callers[1] = x
  <2>s. PICK s : s = tasks  OBVIOUS
  <2>1. IsStack(s) /\ Len(s) > 0 /\ 1 \in 1 .. Len(s) - 1  BY <1>1, <2>s
  <2>2. IsStack(Front(s)) /\ Len(Front(s)) = Len(s) - 1 /\ Front(s)[1] = s[1]
    BY <2>1, FrontStack
  <2> QED  BY <1>1, <2>2, <2>s DEF Callers
<1>7. Callers = <<x>>  BY <1>6, ShortStacks
<1> QED  BY <1>2, <1>4, <1>7

-----------------------------------------------------------------------------
(* At the version.                                                         *)

Parsing(cf) ==
    /\ outcome = "parsing" /\ cursor \in Nat
    /\ IsClassFile(cf) /\ Readable(cf) /\ file = WriteClassFile(cf)

(* What a step of the parser leads to.                                     *)
Reaches(cf) == Stages(cf)' /\ cursor' \in Nat /\ outcome' = "parsing" /\ Keeps(1)

LEMMA ParsingFacts ==
    ASSUME NEW cf, Parsing(cf), NEW cs, cs = cf.constants
    PROVE  /\ FileOK /\ Len(file) \in Nat /\ PoolOK(cs) /\ IsTable(cs) /\ ClassOK(cf)
           /\ \A i \in DOMAIN cs : IsConstant(cs[i])
           /\ IsBytes(AfterConstants(cf)) /\ IsBytes(AfterAccess(cf)) /\ IsBytes(AfterFields(cf))
           /\ IsBytes(AfterMethods(cf))
<1>1. FileOK  BY ClassFileWritten DEF Parsing
<1>2. ClassOK(cf)  BY ClassFileOK DEF Parsing
<1>3. IsClassFile(cf)  BY DEF Parsing
<1> QED  BY <1>1, <1>2, <1>3, LenOfFile, SectionBytes DEF ClassOK, PoolOK

LEMMA NothingKept ==
    ASSUME \A k \in DOMAIN tasks : tasks[k].do # "attributes"
    PROVE  Keeps(1)
BY DEF Keeps

LEMMA OneLoop ==
    ASSUME NEW x, tasks = <<x>>, x.do # "attributes"
    PROVE  Keeps(1)
<1>1. IsStack(tasks) /\ Len(tasks) = 1 /\ tasks[1] = x  BY ShortStacks
<1>2. \A k \in DOMAIN tasks : k = 1  BY <1>1, StackDomain
<1> QED  BY <1>1, <1>2, NothingKept

LEMMA TwoLoops ==
    ASSUME NEW x, NEW y, tasks = <<x, y>>, x.do # "attributes", y.do # "attributes"
    PROVE  Keeps(1)
<1>1. IsStack(tasks) /\ Len(tasks) = 2 /\ tasks[1] = x /\ tasks[2] = y  BY ShortStacks
<1>2. \A k \in DOMAIN tasks : k = 1 \/ k = 2  BY <1>1, StackDomain
<1> QED  BY <1>1, <1>2, NothingKept

LEMMA VersionStep ==
    ASSUME NEW cf, Parsing(cf), AtVersion, ParserNext
    PROVE  Reaches(cf)
<1>c. PICK cs : cs = cf.constants  OBVIOUS
<1>1. FileOK /\ Len(file) \in Nat /\ PoolOK(cs) /\ IsTable(cs)  BY <1>c, ParsingFacts
<1>2. /\ tasks = <<Loop("parse", 0, 5)>> /\ cursor = 0
      /\ classFile = ClassAt(<<>>, <<>>, <<>>, <<>>, <<>>, <<>>, <<>>)
  BY DEF AtVersion, Sectioned
<1>t. PICK t : t = Loop("parse", 0, 5)  OBVIOUS
<1>3. Top = Loop("parse", 0, 5) /\ Top.do = "parse" /\ Top.i = 0
  <2>1. t.do = "parse" /\ t.i = 0  BY <1>t, LoopTurns
  <2>2. Top = t  BY <1>2, <1>t, FirstCall
  <2> QED  BY <1>t, <2>1, <2>2
<1>4. SectionSteps  BY <1>1, <1>2, <1>3, StepsByLoop DEF Parsing
<1>5. ParseVersion
  BY <1>3, <1>4 DEF SectionSteps, ParseAccess, StartMembers, StartClassAttributes
<1>6. /\ HalvesAt(0, 4) = cf.version /\ U2At(8) = PoolCount(cs)
      /\ Follows(10, Rest(ConstantBytes(cs), 0) \o AfterConstants(cf))
  BY <1>c, ClassFileWritten DEF Parsing
<1>7. PoolIndices(cs)[1] = 1  BY <1>1, TableIsStack, IndicesIncrease
<1>8. tasks' = <<Loop("parse", 1, 5), Loop("constants", PoolIndices(cs)[0 + 1], PoolCount(cs))>>
  <2>1. tasks' = Calling(TurnOver(Loop("parse", 0, 5)), Loop("constants", 1, PoolCount(cs)))
    BY <1>2, <1>3, <1>5, <1>6 DEF ParseVersion, FirstIndex
  <2>2. TurnOver(Loop("parse", 0, 5)) = Loop("parse", 0 + 1, 5)  BY LoopTurns
  <2>3. 0 + 1 = 1  OBVIOUS
  <2> QED  BY <1>2, <1>7, <2>1, <2>2, <2>3, FirstCall
<1>9. classFile' = ClassAt(cf.version, <<>>, <<>>, <<>>, <<>>, <<>>, <<>>)
  BY <1>2, <1>5, <1>6 DEF ParseVersion, ClassAt
<1>10. classFile'.constantPool = <<>>  BY <1>9 DEF ClassAt
<1>11. IsPoolSoFar(<<>>, cs, 0)
  <2>1. 1 .. 0 = {}  OBVIOUS
  <2> QED  BY <2>1 DEF IsPoolSoFar
<1>12. cursor' = 10 /\ file' = file /\ outcome' = "parsing"
  BY <1>2, <1>5 DEF ParseVersion, Parsing
<1>13. Follows(cursor, Rest(ConstantBytes(cs), 0) \o AfterConstants(cf))'
  BY <1>6, <1>12, FollowsLater
<1>14. AtConstants(cf, 0)'  BY <1>8, <1>9, <1>10, <1>11, <1>13, <1>c DEF AtConstants
<1>15. 0 \in 0 .. Len(cf.constants)  BY <1>1, <1>c, TableIsStack
<1>16. Keeps(1)  BY <1>2, LoopTurns, OneLoop
<1> QED  BY <1>12, <1>14, <1>15, <1>16 DEF Reaches, Stages

-----------------------------------------------------------------------------
(* At the constants.                                                       *)

LEMMA PoolGrows ==
    ASSUME NEW cs, IsTable(cs), NEW j \in Nat, j < Len(cs), NEW pool, IsPoolSoFar(pool, cs, j),
           NEW index, index = PoolIndices(cs)[j + 1]
    PROVE  IsPoolSoFar(Entered(pool, index, cs[j + 1]), cs, j + 1)
<1>1. Len(cs) \in Nat  BY TableIsStack
<1>g. PICK g : g = Entered(pool, index, cs[j + 1])  OBVIOUS
<1>2. 1 .. j + 1 = 1 .. j \cup {j + 1}  OBVIOUS
<1>3. DOMAIN g = DOMAIN pool \cup {index}  BY <1>g DEF Entered
<1>4. DOMAIN g = {PoolIndices(cs)[k] : k \in 1 .. j + 1}  BY <1>2, <1>3 DEF IsPoolSoFar
<1>5. \A k \in DOMAIN g : g[k] = IF k = index THEN cs[j + 1] ELSE pool[k]
  BY <1>3, <1>g DEF Entered
<1>6. \A k \in 1 .. j : PoolIndices(cs)[k] # index /\ PoolIndices(cs)[k] \in DOMAIN g
  <2>1. \A k \in 1 .. j : k \in 1 .. Len(cs) /\ j + 1 \in 1 .. Len(cs) /\ k # j + 1  BY <1>1
  <2>2. \A k \in 1 .. j : PoolIndices(cs)[k] # index  BY <2>1, IndexOfOne
  <2> QED  BY <1>2, <1>4, <2>2
<1>7. \A k \in 1 .. j : g[PoolIndices(cs)[k]] = cs[k]  BY <1>5, <1>6 DEF IsPoolSoFar
<1>8. g[PoolIndices(cs)[j + 1]] = cs[j + 1]  BY <1>3, <1>5
<1>9. \A k \in 1 .. j + 1 : g[PoolIndices(cs)[k]] = cs[k]  BY <1>2, <1>7, <1>8
<1>10. g = [k \in DOMAIN g |-> g[k]]  BY <1>g DEF Entered
<1> QED  BY <1>4, <1>9, <1>10, <1>g DEF IsPoolSoFar

LEMMA PoolDone ==
    ASSUME NEW cs, IsTable(cs), NEW pool, IsPoolSoFar(pool, cs, Len(cs))
    PROVE  pool = PoolOf(cs)
<1>p. PICK p : p = PoolOf(cs)  OBVIOUS
<1>1. /\ DOMAIN p = {PoolIndices(cs)[i] : i \in 1 .. Len(cs)}
      /\ \A i \in 1 .. Len(cs) : p[PoolIndices(cs)[i]] = cs[i]
      /\ p = [k \in DOMAIN p |-> p[k]]
  BY <1>p, PoolFacts
<1>2. DOMAIN pool = DOMAIN p /\ \A k \in DOMAIN p : pool[k] = p[k]  BY <1>1 DEF IsPoolSoFar
<1> QED  BY <1>1, <1>2, <1>p DEF IsPoolSoFar

LEMMA NamedKinds ==
    ASSUME NEW c, IsConstant(c)
    PROVE  c.kind # "unrecognized" /\ Advance(c.kind) = IndicesOf(c)
<1>1. c.kind \in Kinds  BY DEF IsConstant
<1> QED  BY <1>1, KindsNamed DEF Advance, IndicesOf

LEMMA ConstantStep ==
    ASSUME NEW cf, Parsing(cf), NEW j \in 0 .. Len(cf.constants), AtConstants(cf, j), ParserNext
    PROVE  Reaches(cf)
<1>c. PICK cs : cs = cf.constants  OBVIOUS
<1>p. PICK pool : pool = classFile.constantPool  OBVIOUS
<1>i. PICK index : index = PoolIndices(cs)[j + 1]  OBVIOUS
<1>l. PICK loop : loop = Loop("constants", index, PoolCount(cs))  OBVIOUS
<1>t. PICK at : at = cursor  OBVIOUS
<1>1. /\ FileOK /\ Len(file) \in Nat /\ IsTable(cs) /\ IsBytes(AfterConstants(cf))
      /\ \A i \in DOMAIN cs : IsConstant(cs[i])
  BY <1>c, ParsingFacts
<1>2. /\ tasks = <<Loop("parse", 1, 5), loop>>
      /\ classFile = ClassAt(cf.version, <<>>, pool, <<>>, <<>>, <<>>, <<>>)
      /\ IsPoolSoFar(pool, cs, j)
      /\ Follows(at, Rest(ConstantBytes(cs), j) \o AfterConstants(cf))
  BY <1>c, <1>i, <1>l, <1>p, <1>t DEF AtConstants
<1>3. AreBytes(ConstantBytes(cs)) /\ Len(ConstantBytes(cs)) = Len(cs) /\ Len(cs) \in Nat /\ j \in Nat
  BY <1>1, <1>c, ConstantsWritten, TableIsStack
<1>4. at \in Nat /\ cursor <= Len(file)
  <2>1. at \in Nat  BY <1>t DEF Parsing
  <2>2. IsBytes(Rest(ConstantBytes(cs), j))  BY <1>3, <1>c, RestFacts
  <2>3. IsBytes(Rest(ConstantBytes(cs), j) \o AfterConstants(cf))  BY <1>1, <2>2, Parts2
  <2> QED  BY <1>1, <1>2, <1>t, <2>1, <2>3, FollowsInFile
<1>5. loop.do = "constants" /\ loop.i = index /\ loop.n = PoolCount(cs)  BY <1>l, LoopTurns
<1>6. Top = loop /\ Callers = <<Loop("parse", 1, 5)>> /\ \A y : WithTop(y) = <<Loop("parse", 1, 5), y>>
  BY <1>2, SecondCall
<1>7. ParseConstant \/ ReturnFromLoop  BY <1>1, <1>4, <1>5, <1>6, StepsByLoop DEF Parsing
<1>8. /\ index \in Nat /\ PoolCount(cs) \in Nat
      /\ j < Len(cs) => index < PoolCount(cs)
      /\ j = Len(cs) => index = PoolCount(cs)
  <2>1. /\ \A k \in 1 .. Len(cs) + 1 : PoolIndices(cs)[k] \in Nat
        /\ \A k, l \in 1 .. Len(cs) + 1 : k < l => PoolIndices(cs)[k] < PoolIndices(cs)[l]
    BY <1>3, IndicesIncrease
  <2>2. /\ j + 1 \in 1 .. Len(cs) + 1 /\ Len(cs) + 1 \in 1 .. Len(cs) + 1
        /\ j < Len(cs) => j + 1 < Len(cs) + 1
    BY <1>3, <1>c
  <2> QED  BY <1>i, <2>1, <2>2 DEF PoolCount
<1>9. LoopDone(loop) <=> j = Len(cs)
  BY <1>3, <1>5, <1>8, <1>c DEF LoopDone
<1>10. Keeps(1)
  <2>1. Loop("parse", 1, 5).do = "parse"  BY LoopTurns
  <2> QED  BY <1>2, <1>5, <2>1, TwoLoops
<1>11. CASE ParseConstant
  <2>1. j < Len(cs) /\ j + 1 \in DOMAIN cs /\ j \in 0 .. Len(ConstantBytes(cs)) - 1
    BY <1>1, <1>3, <1>6, <1>9, <1>11, <1>c, TableIsStack DEF ParseConstant
  <2>c. PICK c : c = cs[j + 1]  OBVIOUS
  <2>2. IsConstant(c) /\ ConstantBytes(cs)[j + 1] = WriteConstant(c)
    BY <1>1, <2>1, <2>c DEF ConstantBytes
  <2>3. /\ Holds(at, WriteConstant(c)) /\ IsBytes(WriteConstant(c))
        /\ Follows(at + Size(WriteConstant(c)), Rest(ConstantBytes(cs), j + 1) \o AfterConstants(cf))
    BY <1>1, <1>2, <1>3, <1>4, <2>1, <2>2, FollowsNext
  <2>4. /\ KindOf(ByteAt(at)) = c.kind /\ ConstantAt(at, c.kind) = c
        /\ ConstantWidth(at, c.kind) = Size(WriteConstant(c))
    BY <1>1, <1>4, <2>2, <2>3, ConstantWritten
  <2>5. c.kind # "unrecognized" /\ Advance(c.kind) = IndicesOf(c)  BY <2>2, NamedKinds
  <2>q. PICK q : q = at + Size(WriteConstant(c))  OBVIOUS
  <2>6. q \in Nat  BY <1>4, <2>3, <2>q, Sizes
  <2>7. /\ cursor' = q /\ file' = file /\ outcome' = "parsing"
        /\ tasks' = WithTop([loop EXCEPT !.i = @ + IndicesOf(c)])
        /\ classFile' = [classFile EXCEPT !.constantPool = Entered(@, index, c)]
    BY <1>5, <1>6, <1>11, <1>t, <2>4, <2>5, <2>q DEF ParseConstant, Parsing
  <2>8. index + IndicesOf(c) = PoolIndices(cs)[(j + 1) + 1]
    BY <1>3, <1>i, <2>1, <2>c, IndicesIncrease
  <2>9. [loop EXCEPT !.i = @ + IndicesOf(c)] = Loop("constants", PoolIndices(cs)[(j + 1) + 1], PoolCount(cs))
    BY <1>l, <2>8 DEF Loop
  <2>10. tasks' = <<Loop("parse", 1, 5), Loop("constants", PoolIndices(cs)[(j + 1) + 1], PoolCount(cs))>>
    BY <1>6, <2>7, <2>9
  <2>g. PICK g : g = Entered(pool, index, c)  OBVIOUS
  <2>11. classFile' = ClassAt(cf.version, <<>>, g, <<>>, <<>>, <<>>, <<>>)
    BY <1>2, <2>7, <2>g DEF ClassAt
  <2>12. classFile'.constantPool = g  BY <2>11 DEF ClassAt
  <2>13. IsPoolSoFar(g, cs, j + 1)  BY <1>1, <1>2, <1>3, <1>i, <2>1, <2>c, <2>g, PoolGrows
  <2>14. Follows(cursor, Rest(ConstantBytes(cs), j + 1) \o AfterConstants(cf))'
    BY <2>3, <2>7, <2>q, FollowsLater
  <2>15. AtConstants(cf, j + 1)'  BY <1>c, <2>10, <2>11, <2>12, <2>13, <2>14 DEF AtConstants
  <2>16. j + 1 \in 0 .. Len(cf.constants)  BY <1>3, <1>c, <2>1
  <2> QED  BY <1>10, <2>6, <2>7, <2>15, <2>16 DEF Reaches, Stages
<1>12. CASE ReturnFromLoop
  <2>1. j = Len(cs)  BY <1>6, <1>9, <1>12 DEF ReturnFromLoop, Returning
  <2>2. pool = PoolOf(cs)  BY <1>1, <1>2, <2>1, PoolDone
  <2>3. Follows(at, AfterConstants(cf))  BY <1>1, <1>2, <1>3, <1>4, <2>1, FollowsEnd
  <2>4. /\ tasks' = <<Loop("parse", 1, 5)>> /\ cursor' = cursor /\ file' = file
        /\ classFile' = classFile /\ outcome' = "parsing"
    BY <1>6, <1>12 DEF ReturnFromLoop, Parsing
  <2>5. Follows(cursor, AfterConstants(cf))'  BY <1>t, <2>3, <2>4, FollowsLater
  <2>6. AtAccess(cf)'  BY <1>2, <1>c, <2>2, <2>4, <2>5 DEF AtAccess, Sectioned
  <2> QED  BY <1>4, <1>10, <1>t, <2>4, <2>6 DEF Reaches, Stages
<1> QED  BY <1>7, <1>11, <1>12

-----------------------------------------------------------------------------
(* At the access flags and between sections.                               *)

(* Between two sections, the class file's loop takes its next turn.        *)
LEMMA SectionTurn ==
    ASSUME NEW cf, Parsing(cf), NEW i, NEW class, Sectioned(i, class),
           NEW s, IsBytes(s), Follows(cursor, s), ParserNext
    PROVE  /\ Top = Loop("parse", i, 5) /\ Top.i = i /\ SectionSteps /\ Keeps(1)
           /\ TurnOver(Top) = Loop("parse", i + 1, 5)
           /\ \A y, z : WithTop(y) = <<y>> /\ Calling(y, z) = <<y, z>>
<1>t. PICK t : t = Loop("parse", i, 5)  OBVIOUS
<1>1. t.do = "parse" /\ t.i = i /\ TurnOver(t) = Loop("parse", i + 1, 5)  BY <1>t, LoopTurns
<1>2. tasks = <<t>>  BY <1>t DEF Sectioned
<1>3. Top = t  BY <1>2, FirstCall
<1>4. \A y, z : WithTop(y) = <<y>> /\ Calling(y, z) = <<y, z>>  BY <1>2, FirstCall
<1>5. FileOK /\ cursor \in Nat  BY ParsingFacts DEF Parsing
<1>6. cursor <= Len(file)  BY <1>5, FollowsInFile
<1>7. SectionSteps  BY <1>1, <1>3, <1>5, <1>6, StepsByLoop DEF Parsing
<1>8. Keeps(1)  BY <1>1, <1>2, OneLoop
<1> QED  BY <1>1, <1>3, <1>4, <1>7, <1>8, <1>t

LEMMA AccessRead ==
    ASSUME NEW cf, Parsing(cf), NEW at \in Nat, Follows(at, AfterConstants(cf))
    PROVE  LET count == U2At(at + 6)
           IN  /\ HalvesAt(at, 3) = cf.access /\ HalvesAt(at + 8, count) = cf.interfaces
               /\ count \in Nat /\ Follows(at + 8 + 2 * count, AfterAccess(cf))
<1>a. PICK a : a = WriteAll(U2, cf.access)  OBVIOUS
<1>h. PICK hs : hs = HalfBytes(cf.interfaces)  OBVIOUS
<1>n. PICK n : n = Len(cf.interfaces)  OBVIOUS
<1>b. PICK b : b = AfterAccess(cf)  OBVIOUS
<1>1. FileOK /\ IsClassFile(cf) /\ IsBytes(b)  BY <1>b, ParsingFacts DEF Parsing
<1>2. /\ IsBytes(a) /\ IsBytes(TableBytes(hs))
      /\ IsStack(cf.interfaces) /\ n \in Half /\ n \in Nat
      /\ \A k \in 1 .. n : cf.interfaces[k] \in Half
      /\ IsStack(cf.access) /\ Len(cf.access) = 3 /\ \A k \in 1 .. Len(cf.access) : cf.access[k] \in Half
  <2>1. /\ IsBytes(a) /\ IsBytes(TableBytes(hs))
        /\ IsStack(cf.interfaces) /\ n \in Half
        /\ \A k \in 1 .. n : cf.interfaces[k] \in Half
    BY <1>1, <1>a, <1>h, <1>n, SectionBytes
  <2>2. IsStack(cf.access) /\ Len(cf.access) = 3 /\ \A k \in 1 .. 3 : cf.access[k] \in Half
    BY <1>1, SectionBytes
  <2>3. n \in Nat  BY <2>1 DEF Half
  <2> QED  BY <2>1, <2>2, <2>3
<1>3. AfterConstants(cf) = a \o (TableBytes(hs) \o b)  BY <1>a, <1>b, <1>h DEF AfterConstants
<1>4. IsBytes(TableBytes(hs) \o b)  BY <1>1, <1>2, Parts2
<1>5. Holds(at, a) /\ Follows(at + Size(a), TableBytes(hs) \o b)
  BY <1>1, <1>2, <1>3, <1>4, FollowsConcat
<1>6. HalvesAt(at, Len(cf.access)) = cf.access /\ Size(a) = 2 * Len(cf.access)
  BY <1>1, <1>2, <1>5, <1>a, ReadHalves
<1>7. HalvesAt(at, 3) = cf.access /\ Size(a) = 6  BY <1>2, <1>6
<1>8. /\ WriteAll(U2, cf.interfaces) = Flat(hs) /\ AreBytes(hs) /\ Len(hs) = n
      /\ Flat(hs) = Rest(hs, 0) /\ IsBytes(Flat(hs))
  BY <1>2, <1>h, <1>n, HalvesWritten, RestFacts
<1>9. U2At(at + 6) = n /\ Follows(at + 6 + 2, Flat(hs) \o b)
  BY <1>1, <1>2, <1>5, <1>7, <1>8, FollowsTable
<1>10. Holds(at + 8, Flat(hs)) /\ Follows(at + 8 + Size(Flat(hs)), b)
  <2>1. at + 6 + 2 = at + 8 /\ at + 8 \in Nat  OBVIOUS
  <2> QED  BY <1>1, <1>8, <1>9, <2>1, FollowsConcat
<1>11. HalvesAt(at + 8, n) = cf.interfaces /\ Size(Flat(hs)) = 2 * n
  <2>1. at + 8 \in Nat  OBVIOUS
  <2>i. PICK is : is = cf.interfaces  OBVIOUS
  <2>2. IsStack(is) /\ Len(is) = n /\ \A k \in 1 .. Len(is) : is[k] \in Half
    BY <1>2, <1>n, <2>i
  <2>3. WriteAll(U2, is) = Flat(hs)  BY <1>8, <2>i
  <2>4. Holds(at + 8, WriteAll(U2, is))  BY <1>10, <2>3
  <2>5. HalvesAt(at + 8, Len(is)) = is /\ Size(WriteAll(U2, is)) = 2 * Len(is)
    BY <1>1, <2>1, <2>2, <2>4, ReadHalves
  <2> QED  BY <2>2, <2>3, <2>5, <2>i
<1> QED  BY <1>2, <1>7, <1>9, <1>10, <1>11, <1>b

LEMMA AccessStep ==
    ASSUME NEW cf, Parsing(cf), AtAccess(cf), ParserNext
    PROVE  Reaches(cf)
<1>p. PICK pool : pool = PoolOf(cf.constants)  OBVIOUS
<1>t. PICK at \in Nat : at = cursor  BY DEF Parsing
<1>x. PICK class : class = ClassAt(cf.version, <<>>, pool, <<>>, <<>>, <<>>, <<>>)  OBVIOUS
<1>n. PICK count : count = U2At(at + 6)  OBVIOUS
<1>1. Sectioned(1, class) /\ Follows(cursor, AfterConstants(cf))  BY <1>p, <1>x DEF AtAccess
<1>2. IsBytes(AfterConstants(cf))  BY ParsingFacts
<1>3. /\ Top.i = 1 /\ SectionSteps /\ Keeps(1) /\ TurnOver(Top) = Loop("parse", 1 + 1, 5)
      /\ \A y, z : WithTop(y) = <<y>> /\ Calling(y, z) = <<y, z>>
  BY <1>1, <1>2, SectionTurn
<1>4. ParseAccess
  BY <1>3 DEF SectionSteps, ParseVersion, StartMembers, StartClassAttributes
<1>5. /\ HalvesAt(at, 3) = cf.access /\ HalvesAt(at + 8, count) = cf.interfaces
      /\ count \in Nat /\ Follows(at + 8 + 2 * count, AfterAccess(cf))
  BY <1>1, <1>n, <1>t, AccessRead
<1>q. PICK q : q = at + 8 + 2 * count  OBVIOUS
<1>6. /\ cursor' = q /\ file' = file /\ outcome' = "parsing" /\ q \in Nat
      /\ tasks' = <<Loop("parse", 2, 5)>>
  BY <1>3, <1>4, <1>5, <1>n, <1>q, <1>t DEF ParseAccess, Parsing
<1>7. classFile' = ClassWith(cf, "fields", <<>>)
  <2>1. classFile' = [classFile EXCEPT !.access = cf.access, !.interfaces = cf.interfaces]
    BY <1>4, <1>5, <1>n, <1>t DEF ParseAccess
  <2>2. classFile = [version |-> cf.version, access |-> <<>>, constantPool |-> pool,
                     interfaces |-> <<>>, fields |-> <<>>, methods |-> <<>>, attributes |-> <<>>]
    BY <1>1, <1>x DEF Sectioned, ClassAt
  <2>e. PICK e : e = [classFile EXCEPT !.access = cf.access]  OBVIOUS
  <2>3. e = [version |-> cf.version, access |-> cf.access, constantPool |-> pool,
             interfaces |-> <<>>, fields |-> <<>>, methods |-> <<>>, attributes |-> <<>>]
    BY <2>2, <2>e
  <2>4. classFile' = [e EXCEPT !.interfaces = cf.interfaces]  BY <2>1, <2>e
  <2>5. classFile' = [version |-> cf.version, access |-> cf.access, constantPool |-> pool,
                      interfaces |-> cf.interfaces, fields |-> <<>>, methods |-> <<>>,
                      attributes |-> <<>>]
    BY <2>3, <2>4
  <2> QED  BY <1>p, <2>5 DEF ClassWith, ClassAt
<1>8. Follows(cursor, AfterAccess(cf))'  BY <1>5, <1>6, <1>q, FollowsLater
<1>9. AtMembers(cf, "fields")'
  BY <1>6, <1>7, <1>8 DEF AtMembers, Sectioned, TurnOf, AfterAccess, AfterMembers, MembersOf
<1> QED  BY <1>3, <1>6, <1>9 DEF Reaches, Stages, Sections

-----------------------------------------------------------------------------
(* At a member.                                                            *)

LEMMA MemberFacts ==
    ASSUME NEW cf, Parsing(cf), NEW members \in Sections,
           NEW items, items = cf[members], NEW bs, bs = MemberBytes(cf.constants, items)
    PROVE  /\ AreBytes(bs) /\ Len(bs) = Len(items) /\ Len(items) \in Half /\ Len(items) \in Nat
           /\ \A k \in 1 .. Len(items) : bs[k] = WriteMember(cf.constants, items[k])
           /\ \A k \in 1 .. Len(items) : MemberOK(cf.constants, items[k])
           /\ IsBytes(AfterMembers(cf, members)) /\ DOMAIN items = 1 .. Len(items) /\ IsStack(items)
<1>1. ClassOK(cf) /\ PoolOK(cf.constants) /\ IsBytes(AfterFields(cf)) /\ IsBytes(AfterMethods(cf))
  BY ParsingFacts
<1>2. IsTable(items) /\ \A k \in DOMAIN items : MemberOK(cf.constants, items[k])
  BY <1>1 DEF ClassOK, Sections
<1>3. IsStack(items) /\ Len(items) \in Half /\ Len(items) \in Nat /\ DOMAIN items = 1 .. Len(items)
  BY <1>2, TableIsStack
<1>4. /\ AreBytes(bs) /\ Len(bs) = Len(items)
      /\ \A k \in 1 .. Len(items) : bs[k] = WriteMember(cf.constants, items[k])
  BY <1>1, <1>2, MembersWritten
<1>5. IsBytes(AfterMembers(cf, members))  BY <1>1 DEF AfterMembers
<1> QED  BY <1>2, <1>3, <1>4, <1>5

LEMMA MembersStep ==
    ASSUME NEW cf, Parsing(cf), NEW members \in Sections, AtMembers(cf, members), ParserNext
    PROVE  Reaches(cf)
<1>i. PICK items : items = cf[members]  OBVIOUS
<1>s. PICK bs : bs = MemberBytes(cf.constants, items)  OBVIOUS
<1>a. PICK after : after = AfterMembers(cf, members)  OBVIOUS
<1>n. PICK turn : turn = TurnOf(members)  OBVIOUS
<1>t. PICK at \in Nat : at = cursor  BY DEF Parsing
<1>1. /\ AreBytes(bs) /\ Len(bs) = Len(items) /\ Len(items) \in Half /\ Len(items) \in Nat
      /\ IsBytes(after)
  BY <1>a, <1>i, <1>s, MemberFacts
<1>2. FileOK  BY ParsingFacts
<1>3. /\ Sectioned(turn, ClassWith(cf, members, <<>>))
      /\ Follows(at, TableBytes(bs) \o after)
  BY <1>a, <1>i, <1>n, <1>s, <1>t DEF AtMembers, MembersOf
<1>4. IsBytes(TableBytes(bs) \o after)  BY <1>1, TableBytesFacts, Parts2
<1>5. /\ Top.i = turn /\ SectionSteps /\ Keeps(1) /\ TurnOver(Top) = Loop("parse", turn + 1, 5)
      /\ \A y, z : Calling(y, z) = <<y, z>>
  BY <1>3, <1>4, <1>t, SectionTurn
<1>6. StartMembers(members)
  <2>1. CASE members = "fields"
    <3>1. turn = 2  BY <1>n, <2>1 DEF TurnOf
    <3> QED  BY <1>5, <2>1, <3>1 DEF SectionSteps, ParseVersion, ParseAccess, StartMembers,
                                      StartClassAttributes
  <2>2. CASE members = "methods"
    <3>1. turn = 3  BY <1>n, <2>2 DEF TurnOf
    <3> QED  BY <1>5, <2>2, <3>1 DEF SectionSteps, ParseVersion, ParseAccess, StartMembers,
                                      StartClassAttributes
  <2> QED  BY <2>1, <2>2 DEF Sections
<1>7. U2At(at) = Len(items) /\ Follows(at + 2, Rest(bs, 0) \o after)
  BY <1>1, <1>2, <1>3, FollowsTable
<1>q. PICK q \in Nat : q = at + 2  OBVIOUS
<1>8. /\ cursor' = q /\ file' = file /\ outcome' = "parsing" /\ classFile' = classFile
      /\ tasks' = <<Loop("parse", turn + 1, 5), Loop(members, 0, Len(items))>>
  BY <1>5, <1>6, <1>7, <1>q, <1>t DEF StartMembers, Parsing
<1>9. classFile' = ClassWith(cf, members, <<>>)  BY <1>3, <1>8 DEF Sectioned
<1>10. AreKept(<<>>, items, 0) /\ Len(<<>>) = 0
  <2>1. 1 .. 0 = {} /\ Len(<<>>) = 0  OBVIOUS
  <2> QED  BY <2>1 DEF AreKept, IsStack
<1>11. Follows(cursor, Rest(bs, 0) \o after)'  BY <1>7, <1>8, <1>q, FollowsLater
<1>12. AtMember(cf, members, 0)'
  BY <1>8, <1>9, <1>10, <1>11, <1>a, <1>i, <1>n, <1>s DEF AtMember, AfterMember
<1>13. 0 \in 0 .. Len(cf[members])  BY <1>1, <1>i
<1> QED  BY <1>5, <1>8, <1>12, <1>13 DEF Reaches, Stages

(* A loop over attributes starts, which l - 1 loops are around.            *)
LEMMA AttributesStart ==
    ASSUME NEW cs, NEW attrs, AttributesOK(cs, attrs), PoolOK(cs), NEW ctx, NEW l,
           Len(tasks') = l, tasks'[l] = Loop("attributes", 0, Len(attrs)), file' = file,
           NEW q, cursor' = q, Follows(q, Rest(AttributeBytes(cs, attrs), 0) \o ctx)
    PROVE  AtAny(l, cs, attrs, ctx)'
<1>t. PICK t : t = tasks'[l]  OBVIOUS
<1>1. Len(attrs) \in Nat  BY AttributesWritten
<1>2. IsAttributesTask(t, attrs) /\ t.i = 0 /\ t.name = NoName  BY <1>1, <1>t, LoopStarts
<1>3. Follows(cursor, Rest(AttributeBytes(cs, attrs), 0) \o ctx)'  BY FollowsLater
<1>4. Between(t, cs, attrs, ctx)'  BY <1>2, <1>3 DEF Between
<1>5. AtSimple(l, cs, attrs, ctx)'  BY <1>2, <1>4, <1>t DEF AtSimple
<1> QED  BY <1>5 DEF AtAny

LEMMA AttributesStep ==
    ASSUME NEW cf, Parsing(cf), AtAttributes(cf), ParserNext
    PROVE  Reaches(cf)
<1>c. PICK cs, attrs : cs = cf.constants /\ attrs = cf.attributes  OBVIOUS
<1>b. PICK bs : bs = AttributeBytes(cs, attrs)  OBVIOUS
<1>t. PICK at \in Nat : at = cursor  BY DEF Parsing
<1>1. FileOK /\ PoolOK(cs) /\ AttributesOK(cs, attrs) /\ IsBytes(AfterMethods(cf))
  BY <1>c, ParsingFacts DEF ClassOK
<1>2. AreBytes(bs) /\ Len(bs) = Len(attrs) /\ Len(attrs) \in Half /\ IsBytes(<<>>)
  BY <1>1, <1>b, AttributesWritten, Sizes
<1>3. /\ Sectioned(4, ClassWith(cf, "methods", KeptMembers(cf.methods)))
      /\ Follows(at, TableBytes(bs) \o <<>>)
  BY <1>b, <1>c, <1>t DEF AtAttributes, AfterMethods
<1>4. /\ Top.i = 4 /\ SectionSteps /\ Keeps(1) /\ TurnOver(Top) = Loop("parse", 4 + 1, 5)
      /\ \A y, z : Calling(y, z) = <<y, z>>
  BY <1>1, <1>3, <1>b, <1>c, <1>t, SectionTurn DEF AfterMethods
<1>5. StartClassAttributes
  BY <1>4 DEF SectionSteps, ParseVersion, ParseAccess, StartMembers
<1>6. U2At(at) = Len(attrs) /\ Follows(at + 2, Rest(bs, 0) \o <<>>)
  BY <1>1, <1>2, <1>3, FollowsTable
<1>q. PICK q \in Nat : q = at + 2  OBVIOUS
<1>7. /\ cursor' = q /\ file' = file /\ outcome' = "parsing" /\ classFile' = classFile
      /\ tasks' = <<Loop("parse", 5, 5), Loop("attributes", 0, Len(attrs))>>
  BY <1>4, <1>5, <1>6, <1>q, <1>t DEF StartClassAttributes, Parsing
<1>8. /\ IsStack(tasks') /\ Len(tasks') = 2 /\ tasks'[1] = Loop("parse", 5, 5)
      /\ tasks'[2] = Loop("attributes", 0, Len(attrs))
  BY <1>7, ShortStacks
<1>9. AtAny(2, cs, attrs, <<>>)'
  BY <1>1, <1>6, <1>7, <1>8, <1>b, <1>q, AttributesStart
<1>10. classFile' = ClassWith(cf, "methods", KeptMembers(cf.methods))  BY <1>3, <1>7 DEF Sectioned
<1>11. InAttributes(cf)'  BY <1>8, <1>9, <1>10, <1>c DEF InAttributes
<1> QED  BY <1>4, <1>7, <1>11 DEF Reaches, Stages

-----------------------------------------------------------------------------
(* What is kept of members.                                                *)

LEMMA NewMembers ==
    ASSUME NEW item, NEW attrs
    PROVE  /\ NewMember(item) = [accessFlags |-> item.accessFlags, nameIndex |-> item.nameIndex,
                                 descriptorIndex |-> item.descriptorIndex, attributes |-> <<>>]
           /\ attrs = KeptAnys(item.attributes) =>
                [NewMember(item) EXCEPT !.attributes = attrs] = KeptMember(item)
<1>k. PICK kept : kept = KeptAnys(item.attributes)  OBVIOUS
<1>m. PICK m : m = KeptMember(item)  OBVIOUS
<1>1. m = [accessFlags |-> item.accessFlags, nameIndex |-> item.nameIndex,
           descriptorIndex |-> item.descriptorIndex, attributes |-> kept]
  BY <1>k, <1>m DEF KeptMember
<1>n. PICK new : new = [m EXCEPT !.attributes = <<>>]  OBVIOUS
<1>2. new = [accessFlags |-> item.accessFlags, nameIndex |-> item.nameIndex,
             descriptorIndex |-> item.descriptorIndex, attributes |-> <<>>]
  BY <1>1, <1>n
<1>3. [new EXCEPT !.attributes = kept] = m  BY <1>1, <1>2
<1> QED  BY <1>2, <1>3, <1>k, <1>m, <1>n DEF NewMember

(* A member's numbers, and where its attributes begin.                     *)
LEMMA MemberRead ==
    ASSUME NEW cf, Parsing(cf), NEW members \in Sections, NEW items, items = cf[members],
           NEW m \in Nat, m < Len(items), NEW at \in Nat, Follows(at, AfterMember(cf, members, m)),
           NEW item, item = items[m + 1]
    PROVE  /\ NewMember(item) = [accessFlags |-> U2At(at), nameIndex |-> U2At(at + 2),
                                 descriptorIndex |-> U2At(at + 4), attributes |-> <<>>]
           /\ U2At(at + 6) = Len(item.attributes)
           /\ Follows(at + 8, Rest(AttributeBytes(cf.constants, item.attributes), 0)
                              \o AfterMember(cf, members, m + 1))
           /\ AttributesOK(cf.constants, item.attributes)
<1>c. PICK cs : cs = cf.constants  OBVIOUS
<1>s. PICK bs : bs = MemberBytes(cs, items)  OBVIOUS
<1>a. PICK after : after = AfterMembers(cf, members)  OBVIOUS
<1>e. PICK es : es = AttributeBytes(cs, item.attributes)  OBVIOUS
<1>w. PICK w : w = WriteMember(cs, item)  OBVIOUS
<1>1. FileOK /\ PoolOK(cs)  BY <1>c, ParsingFacts
<1>2. /\ AreBytes(bs) /\ Len(bs) = Len(items) /\ Len(items) \in Nat /\ IsBytes(after)
      /\ \A k \in 1 .. Len(items) : bs[k] = WriteMember(cs, items[k])
      /\ \A k \in 1 .. Len(items) : MemberOK(cs, items[k])
  <2>1. AreBytes(bs) /\ Len(bs) = Len(items) /\ Len(items) \in Nat /\ IsBytes(after)
    BY <1>a, <1>c, <1>s, MemberFacts
  <2>2. \A k \in 1 .. Len(items) : bs[k] = WriteMember(cs, items[k])  BY <1>c, <1>s, MemberFacts
  <2>3. \A k \in 1 .. Len(items) : MemberOK(cs, items[k])  BY <1>c, <1>s, MemberFacts
  <2> QED  BY <2>1, <2>2, <2>3
<1>3. m + 1 \in 1 .. Len(items) /\ m \in 0 .. Len(bs) - 1  BY <1>2
<1>4. bs[m + 1] = w /\ MemberOK(cs, item)  BY <1>2, <1>3, <1>w
<1>5. AttributesOK(cs, item.attributes)  BY <1>4 DEF MemberOK
<1>6. Follows(at, Rest(bs, m) \o after)  BY <1>a, <1>c, <1>s DEF AfterMember
<1>7. Holds(at, w) /\ IsBytes(w) /\ Follows(at + Size(w), Rest(bs, m + 1) \o after)
  BY <1>1, <1>2, <1>3, <1>4, <1>6, FollowsNext
<1>8. /\ Size(w) = 8 + Size(Flat(es))
      /\ U2At(at) = item.accessFlags /\ U2At(at + 2) = item.nameIndex
      /\ U2At(at + 4) = item.descriptorIndex /\ U2At(at + 6) = Len(item.attributes)
      /\ Holds(at + 8, Flat(es))
  BY <1>1, <1>4, <1>7, <1>e, <1>w, MemberWritten
<1>9. AreBytes(es) /\ Flat(es) = Rest(es, 0) /\ IsBytes(Flat(es)) /\ Size(Flat(es)) \in Nat
  BY <1>1, <1>5, <1>e, AttributesWritten, RestFacts, Sizes
<1>n. PICK next : next = Rest(bs, m + 1) \o after  OBVIOUS
<1>10. IsBytes(next)
  <2>1. m + 1 \in 0 .. Len(bs)  BY <1>3
  <2>2. IsBytes(Rest(bs, m + 1))  BY <1>2, <2>1, RestFacts
  <2> QED  BY <1>2, <1>n, <2>2, Parts2
<1>11. Follows(at + 8, Rest(es, 0) \o next)
  <2>x. PICK x \in Nat : x = Size(Flat(es))  BY <1>9
  <2>y. Size(w) = 8 + x /\ Size(Rest(es, 0)) = x  BY <1>8, <1>9, <2>x
  <2>1. at + Size(w) = (at + 8) + Size(Rest(es, 0)) /\ at + 8 \in Nat  BY <2>y
  <2>2. Follows((at + 8) + Size(Rest(es, 0)), next)  BY <1>7, <1>n, <2>1
  <2> QED  BY <1>1, <1>8, <1>9, <1>10, <2>1, <2>2, FollowsConcat
<1>12. NewMember(item) = [accessFlags |-> U2At(at), nameIndex |-> U2At(at + 2),
                          descriptorIndex |-> U2At(at + 4), attributes |-> <<>>]
  BY <1>8, NewMembers
<1>13. next = AfterMember(cf, members, m + 1)  BY <1>a, <1>c, <1>n, <1>s DEF AfterMember
<1> QED  BY <1>5, <1>8, <1>11, <1>12, <1>13, <1>c, <1>e

LEMMA KeptMembersDone ==
    ASSUME NEW ms, NEW items, IsStack(items), AreKept(ms, items, Len(items)), Len(ms) = Len(items)
    PROVE  ms = KeptMembers(items)
<1>k. PICK ks : ks = KeptMembers(items)  OBVIOUS
<1>1. DOMAIN items = 1 .. Len(items) /\ Len(items) \in Nat  BY StackDomain DEF IsStack
<1>2. ks = [k \in 1 .. Len(items) |-> ks[k]] /\ \A k \in 1 .. Len(items) : ks[k] = KeptMember(items[k])
  BY <1>1, <1>k DEF KeptMembers
<1>3. IsStack(ks) /\ Len(ks) = Len(items)  BY <1>1, <1>2, ComputedStack
<1>4. IsStack(ms) /\ \A k \in 1 .. Len(items) : ms[k] = KeptMember(items[k])  BY DEF AreKept
<1>5. ms = ks  BY <1>2, <1>3, <1>4, StackEqual
<1> QED  BY <1>5, <1>k

-----------------------------------------------------------------------------
(* From a member to the next.                                              *)

LEMMA MemberStarts ==
    ASSUME NEW cf, Parsing(cf), NEW members \in Sections, NEW m \in Nat, m < Len(cf[members]),
           AtMember(cf, members, m), ParseMember(members)
    PROVE  Stages(cf)' /\ cursor' \in Nat /\ outcome' = "parsing"
<1>i. PICK items : items = cf[members]  OBVIOUS
<1>a. PICK item : item = items[m + 1]  OBVIOUS
<1>r. PICK attrs : attrs = item.attributes  OBVIOUS
<1>n. PICK n : n = Len(items)  OBVIOUS
<1>p. PICK p : p = Loop("parse", TurnOf(members) + 1, 5)  OBVIOUS
<1>l. PICK l : l = Loop(members, m, n)  OBVIOUS
<1>k. PICK k : k = m + 1  OBVIOUS
<1>t. PICK at \in Nat : at = cursor  BY DEF Parsing
<1>x. PICK next : next = AfterMember(cf, members, k)  OBVIOUS
<1>1. /\ tasks = <<p, l>> /\ Follows(at, AfterMember(cf, members, m))
      /\ \E ms : classFile = ClassWith(cf, members, ms) /\ AreKept(ms, items, m) /\ Len(ms) = m
  BY <1>i, <1>l, <1>n, <1>p, <1>t DEF AtMember
<1>ms. PICK ms : classFile = ClassWith(cf, members, ms) /\ AreKept(ms, items, m) /\ Len(ms) = m
  BY <1>1
<1>2. /\ NewMember(item) = [accessFlags |-> U2At(at), nameIndex |-> U2At(at + 2),
                            descriptorIndex |-> U2At(at + 4), attributes |-> <<>>]
      /\ U2At(at + 6) = Len(attrs)
      /\ Follows(at + 8, Rest(AttributeBytes(cf.constants, attrs), 0) \o next)
      /\ AttributesOK(cf.constants, attrs)
  BY <1>1, <1>a, <1>i, <1>k, <1>r, <1>x, MemberRead
<1>3. Top = l /\ WithTop(TurnOver(l)) = <<p, TurnOver(l)>>  BY <1>1, SecondCall
<1>u. PICK u : u = Loop(members, k, n)  OBVIOUS
<1>v. PICK v : v = Loop("attributes", 0, Len(attrs))  OBVIOUS
<1>4. TurnOver(l) = u  BY <1>k, <1>l, <1>u, LoopTurns
<1>q. PICK q \in Nat : q = at + 8  OBVIOUS
<1>5. /\ cursor' = q /\ file' = file /\ outcome' = "parsing"
      /\ tasks' = Append(<<p, u>>, v)
  BY <1>2, <1>3, <1>4, <1>q, <1>t, <1>v DEF ParseMember, Parsing, Calling
<1>6. classFile' = [classFile EXCEPT ![members] = Append(@, NewMember(item))]
  BY <1>2, <1>t DEF ParseMember
<1>7. classFile[members] = ms  BY <1>ms, ClassParts
<1>z. PICK z : z = Append(ms, NewMember(item))  OBVIOUS
<1>8. classFile' = ClassWith(cf, members, z)
  <2>1. classFile' = [classFile EXCEPT ![members] = z]  BY <1>6, <1>7, <1>z
  <2> QED  BY <1>ms, <2>1, ClassParts
<1>9. IsStack(z) /\ Len(z) = k /\ z[k] = NewMember(item) /\ \A j \in 1 .. m : z[j] = ms[j]
  BY <1>ms, <1>k, <1>z, AppendStack DEF AreKept
<1>10. AreKept(z, items, k - 1) /\ Len(z) = k /\ z[k] = NewMember(items[k])
  <2>1. k - 1 = m  BY <1>k
  <2>2. \A j \in 1 .. m : z[j] = KeptMember(items[j])  BY <1>ms, <1>9 DEF AreKept
  <2> QED  BY <1>9, <1>a, <1>k, <2>1, <2>2 DEF AreKept
<1>11. /\ IsStack(tasks') /\ Len(tasks') = 3 /\ tasks'[1] = p /\ tasks'[2] = u /\ tasks'[3] = v
  <2>s. PICK s : s = <<p, u>>  OBVIOUS
  <2>1. IsStack(s) /\ Len(s) = 2 /\ s[1] = p /\ s[2] = u  BY <2>s, ShortStacks
  <2>2. 1 \in 1 .. Len(s) /\ 2 \in 1 .. Len(s) /\ Len(s) + 1 = 3  BY <2>1
  <2>g. PICK g : g = Append(s, v)  OBVIOUS
  <2>3. IsStack(g) /\ Len(g) = Len(s) + 1 /\ g[Len(s) + 1] = v  BY <2>1, <2>g, AppendStack
  <2>4. g[1] = s[1]  BY <2>1, <2>2, <2>g, AppendStack
  <2>5. g[2] = s[2]  BY <2>1, <2>2, <2>g, AppendStack
  <2> QED  BY <1>5, <2>1, <2>2, <2>3, <2>4, <2>5, <2>g, <2>s
<1>12. AtAny(3, cf.constants, attrs, next)'
  <2>1. PoolOK(cf.constants)  BY ParsingFacts
  <2> QED  BY <1>2, <1>5, <1>11, <1>q, <1>v, <2>1, AttributesStart
<1>13. InMember(cf, members, k)'
  <2>1. attrs = cf[members][k].attributes  BY <1>a, <1>i, <1>k, <1>r
  <2> QED  BY <1>8, <1>10, <1>11, <1>12, <1>i, <1>n, <1>p, <1>u, <1>x, <2>1 DEF InMember
<1>14. k \in 1 .. Len(cf[members])
  <2>1. Len(cf[members]) \in Nat  BY MemberFacts
  <2> QED  BY <1>k, <2>1
<1> QED  BY <1>5, <1>13, <1>14 DEF Stages

LEMMA MembersEnd ==
    ASSUME NEW cf, Parsing(cf), NEW members \in Sections,
           AtMember(cf, members, Len(cf[members])), ReturnFromLoop
    PROVE  Stages(cf)' /\ cursor' \in Nat /\ outcome' = "parsing"
<1>i. PICK items : items = cf[members]  OBVIOUS
<1>s. PICK bs : bs = MemberBytes(cf.constants, items)  OBVIOUS
<1>p. PICK p : p = Loop("parse", TurnOf(members) + 1, 5)  OBVIOUS
<1>a. PICK after : after = AfterMembers(cf, members)  OBVIOUS
<1>t. PICK at \in Nat : at = cursor  BY DEF Parsing
<1>1. /\ tasks = <<p, Loop(members, Len(items), Len(items))>>
      /\ Follows(at, Rest(bs, Len(items)) \o after)
      /\ \E ms : /\ classFile = ClassWith(cf, members, ms)
                 /\ AreKept(ms, items, Len(items)) /\ Len(ms) = Len(items)
  BY <1>a, <1>i, <1>p, <1>s, <1>t DEF AtMember, AfterMember
<1>2. /\ AreBytes(bs) /\ Len(bs) = Len(items) /\ IsBytes(after) /\ IsStack(items)
  BY <1>a, <1>i, <1>s, MemberFacts
<1>3. classFile = ClassWith(cf, members, KeptMembers(items))  BY <1>1, <1>2, KeptMembersDone
<1>4. FileOK  BY ParsingFacts
<1>5. Follows(at, after)  BY <1>1, <1>2, <1>4, FollowsEnd
<1>6. Callers = <<p>>  BY <1>1, SecondCall
<1>7. /\ tasks' = <<p>> /\ cursor' = at /\ file' = file /\ classFile' = classFile
      /\ outcome' = "parsing"
  BY <1>6, <1>t DEF ReturnFromLoop, Parsing
<1>8. Follows(cursor, after)'  BY <1>5, <1>7, FollowsLater
<1>9. CASE members = "fields"
  <2>1. classFile' = ClassWith(cf, "methods", <<>>)
    BY <1>3, <1>7, <1>9, <1>i DEF ClassWith
  <2>2. p = Loop("parse", TurnOf("methods"), 5)  BY <1>9, <1>p DEF TurnOf
  <2>3. after = MembersOf(cf, "methods") \o AfterMembers(cf, "methods")
    BY <1>9, <1>a DEF AfterMembers, AfterFields, MembersOf
  <2>4. AtMembers(cf, "methods")'  BY <1>7, <1>8, <2>1, <2>2, <2>3 DEF AtMembers, Sectioned
  <2> QED  BY <1>7, <2>4 DEF Stages, Sections
<1>10. CASE members = "methods"
  <2>1. p = Loop("parse", 4, 5)  BY <1>10, <1>p DEF TurnOf
  <2>2. after = AfterMethods(cf)  BY <1>10, <1>a DEF AfterMembers
  <2>3. AtAttributes(cf)'
    BY <1>3, <1>7, <1>8, <1>10, <1>i, <2>1, <2>2 DEF AtAttributes, Sectioned
  <2> QED  BY <1>7, <2>3 DEF Stages
<1> QED  BY <1>9, <1>10 DEF Sections

LEMMA MemberStep ==
    ASSUME NEW cf, Parsing(cf), NEW members \in Sections, NEW m \in 0 .. Len(cf[members]),
           AtMember(cf, members, m), ParserNext
    PROVE  Reaches(cf)
<1>i. PICK items : items = cf[members]  OBVIOUS
<1>n. PICK n : n = Len(items)  OBVIOUS
<1>s. PICK bs : bs = MemberBytes(cf.constants, items)  OBVIOUS
<1>p. PICK p : p = Loop("parse", TurnOf(members) + 1, 5)  OBVIOUS
<1>l. PICK l : l = Loop(members, m, n)  OBVIOUS
<1>t. PICK at \in Nat : at = cursor  BY DEF Parsing
<1>a. PICK after : after = AfterMembers(cf, members)  OBVIOUS
<1>1. tasks = <<p, l>> /\ Follows(at, Rest(bs, m) \o after)
  BY <1>a, <1>i, <1>l, <1>n, <1>p, <1>s, <1>t DEF AtMember, AfterMember
<1>2. AreBytes(bs) /\ Len(bs) = n /\ n \in Nat /\ IsBytes(after)
  BY <1>a, <1>i, <1>n, <1>s, MemberFacts
<1>3. FileOK  BY ParsingFacts
<1>4. m \in Nat /\ m \in 0 .. Len(bs) /\ m <= n  BY <1>2, <1>i, <1>n
<1>5. cursor <= Len(file)
  <2>1. IsBytes(Rest(bs, m) \o after)  BY <1>2, <1>4, RestFacts, Parts2
  <2> QED  BY <1>1, <1>3, <1>t, <2>1, FollowsInFile
<1>6. Top = l /\ l.do = members /\ l.i = m /\ l.n = n
  <2>1. Top = l  BY <1>1, SecondCall
  <2> QED  BY <1>l, <2>1, LoopTurns
<1>7. ParseMember(members) \/ ReturnFromLoop  BY <1>3, <1>5, <1>6, <1>t, StepsByLoop DEF Parsing, Sections
<1>8. LoopDone(l) <=> m = n  BY <1>2, <1>4, <1>6 DEF LoopDone, Sections
<1>9. Keeps(1)
  <2>1. p.do = "parse"  BY <1>p, LoopTurns
  <2> QED  BY <1>1, <1>6, <2>1, TwoLoops DEF Sections
<1>10. CASE ParseMember(members)
  <2>1. m < Len(cf[members])  BY <1>2, <1>4, <1>6, <1>8, <1>10, <1>i, <1>n DEF ParseMember
  <2> QED  BY <1>4, <1>9, <1>10, <2>1, MemberStarts DEF Reaches
<1>11. CASE ReturnFromLoop
  <2>1. m = Len(cf[members])  BY <1>6, <1>8, <1>11, <1>i, <1>n DEF ReturnFromLoop, Returning
  <2> QED  BY <1>9, <1>11, <2>1, MembersEnd DEF Reaches
<1> QED  BY <1>7, <1>10, <1>11

-----------------------------------------------------------------------------
(* In the attributes of a member.                                          *)

LEMMA AfterMemberBytes ==
    ASSUME NEW cf, Parsing(cf), NEW members \in Sections, NEW m \in 0 .. Len(cf[members])
    PROVE  IsBytes(AfterMember(cf, members, m))
<1>s. PICK bs : bs = MemberBytes(cf.constants, cf[members])  OBVIOUS
<1>a. PICK after : after = AfterMembers(cf, members)  OBVIOUS
<1>1. AreBytes(bs) /\ Len(bs) = Len(cf[members]) /\ IsBytes(after)  BY <1>a, <1>s, MemberFacts
<1>2. IsBytes(Rest(bs, m))  BY <1>1, RestFacts
<1>3. IsBytes(Rest(bs, m) \o after)  BY <1>1, <1>2, Parts2
<1> QED  BY <1>3, <1>a, <1>s DEF AfterMember

LEMMA SectionsKept ==
    ASSUME NEW cf, Parsing(cf), NEW members \in Sections, NEW k \in DOMAIN cf[members]
    PROVE  AttributesKept(cf.constants, cf[members][k].attributes)
BY FieldsKept, MethodsKept DEF Parsing, Sections

(* A member is complete.                                                   *)
LEMMA MemberEnds ==
    ASSUME NEW cf, NEW members \in Sections, NEW m \in Nat \ {0}, NEW ms, NEW attrs,
           classFile = ClassWith(cf, members, ms), AreKept(ms, cf[members], m - 1), Len(ms) = m,
           ms[m] = NewMember(cf[members][m]), attrs = KeptAnys(cf[members][m].attributes),
           NEW class, class = [classFile EXCEPT ![members][m].attributes = attrs]
    PROVE  \E z : class = ClassWith(cf, members, z) /\ AreKept(z, cf[members], m) /\ Len(z) = m
<1>i. PICK item : item = cf[members][m]  OBVIOUS
<1>n. PICK new : new = [ms[m] EXCEPT !.attributes = attrs]  OBVIOUS
<1>z. PICK z : z = [ms EXCEPT ![m] = new]  OBVIOUS
<1>1. new = KeptMember(item)  BY <1>i, <1>n, NewMembers
<1>2. classFile[members] = ms  BY ClassParts
<1>3. class = [classFile EXCEPT ![members] = z]  BY <1>2, <1>n, <1>z
<1>4. class = ClassWith(cf, members, z)  BY <1>3, ClassParts
<1>5. IsStack(ms) /\ m \in 1 .. Len(ms)  BY DEF AreKept
<1>6. IsStack(z) /\ Len(z) = m /\ z[m] = new
  <2>a. IsStack([ms EXCEPT ![m] = new])  BY <1>5, ExceptStack
  <2>b. Len([ms EXCEPT ![m] = new]) = Len(ms)  BY <1>5, ExceptStack
  <2>1. IsStack(z) /\ Len(z) = Len(ms)  BY <1>z, <2>a, <2>b
  <2>2. z[m] = new  BY <1>5, <1>z, ExceptStack
  <2> QED  BY <2>1, <2>2
<1>7. \A k \in 1 .. Len(ms) : k # m => z[k] = ms[k]  BY <1>5, <1>z, ExceptStack
<1>8. \A k \in 1 .. m : k = m \/ (k \in 1 .. m - 1 /\ k \in 1 .. Len(ms) /\ k # m)  OBVIOUS
<1>9. \A k \in 1 .. m - 1 : ms[k] = KeptMember(cf[members][k])  BY DEF AreKept
<1>10. \A k \in 1 .. m : z[k] = KeptMember(cf[members][k])
  BY <1>1, <1>6, <1>7, <1>8, <1>9, <1>i
<1> QED  BY <1>4, <1>6, <1>10 DEF AreKept

LEMMA InMemberStep ==
    ASSUME NEW cf, Parsing(cf), NEW members \in Sections, NEW m \in 1 .. Len(cf[members]),
           InMember(cf, members, m), ParserNext
    PROVE  Reaches(cf)
<1>c. PICK cs : cs = cf.constants  OBVIOUS
<1>r. PICK attrs : attrs = cf[members][m].attributes  OBVIOUS
<1>x. PICK next : next = AfterMember(cf, members, m)  OBVIOUS
<1>p. PICK p : p = Loop("parse", TurnOf(members) + 1, 5)  OBVIOUS
<1>l. PICK l : l = Loop(members, m, Len(cf[members]))  OBVIOUS
<1>1. /\ IsStack(tasks) /\ tasks[1] = p /\ tasks[2] = l
      /\ AtAny(3, cs, attrs, next)
      /\ \E ms : /\ classFile = ClassWith(cf, members, ms)
                 /\ AreKept(ms, cf[members], m - 1) /\ Len(ms) = m
                 /\ ms[m] = NewMember(cf[members][m])
  BY <1>c, <1>l, <1>p, <1>r, <1>x DEF InMember
<1>ms. PICK ms : /\ classFile = ClassWith(cf, members, ms)
                 /\ AreKept(ms, cf[members], m - 1) /\ Len(ms) = m
                 /\ ms[m] = NewMember(cf[members][m])
  BY <1>1
<1>2. m \in Nat \ {0} /\ m \in DOMAIN cf[members] /\ m \in 0 .. Len(cf[members])  BY MemberFacts
<1>3. p.do = "parse" /\ l.do = members /\ l.i = m  BY <1>l, <1>p, LoopTurns
<1>4. Setting(cs, attrs, next)
  <2>1. FileOK /\ PoolOK(cs) /\ cursor \in Nat  BY <1>c, ParsingFacts DEF Parsing
  <2>2. AttributesOK(cs, attrs)  BY <1>2, <1>c, <1>r, MemberFacts DEF MemberOK
  <2>3. IsBytes(next)  BY <1>2, <1>x, AfterMemberBytes
  <2>4. classFile.constantPool = PoolOf(cs)  BY <1>c, <1>ms, ClassParts
  <2> QED  BY <1>1, <2>1, <2>2, <2>3, <2>4 DEF Setting
<1>5. \A k \in DOMAIN attrs : AnyOK(cs, attrs[k])
  BY <1>2, <1>c, <1>r, SectionsKept DEF AttributesKept
<1>6. \/ GoesOn(3) /\ AtAny(3, cs, attrs, next)' /\ Keeps(3)
      \/ AtEnd(3, attrs, next)
  BY <1>1, <1>4, <1>5, AnyStep DEF Parsing
<1>7. \A k \in DOMAIN tasks : k = 1 \/ k = 2 \/ k >= 3  BY <1>1, StackDomain
<1>8. CASE GoesOn(3) /\ AtAny(3, cs, attrs, next)' /\ Keeps(3)
  <2>1. /\ IsStack(tasks') /\ cursor' \in Nat /\ classFile' = classFile /\ outcome' = "parsing"
        /\ \A k \in 1 .. 3 - 1 : tasks'[k] = tasks[k]
    BY <1>8 DEF GoesOn, Parsing
  <2>2. tasks'[1] = p /\ tasks'[2] = l  BY <1>1, <2>1
  <2>3. Keeps(1)  BY <1>1, <1>3, <1>7, <1>8 DEF Keeps, Sections
  <2>4. \E z : /\ classFile' = ClassWith(cf, members, z)
               /\ AreKept(z, cf[members], m - 1) /\ Len(z) = m /\ z[m] = NewMember(cf[members][m])
    BY <1>1, <2>1
  <2>5. InMember(cf, members, m)'
    BY <1>8, <1>c, <1>l, <1>p, <1>r, <1>x, <2>1, <2>2, <2>4 DEF InMember
  <2> QED  BY <2>1, <2>3, <2>5 DEF Reaches, Stages
<1>9. CASE AtEnd(3, attrs, next)
  <2>1. /\ Len(tasks) = 3 /\ IsMapOf(tasks[3].found, attrs, Len(attrs)) /\ Follows(cursor, next)
        /\ ReturnToCode \/ ReturnToMember \/ ReturnClassFile
    BY <1>9 DEF AtEnd, IsAttributesTask
  <2>2. IsStack(attrs)  BY <1>4, AttributesWritten DEF Setting
  <2>f. PICK found : found = tasks[3].found  OBVIOUS
  <2>3. found = KeptAnys(attrs)  BY <2>1, <2>2, <2>f, MapComplete
  <2>4. Top = tasks[3] /\ Caller = l  BY <1>1, <2>1 DEF Top, Caller
  <2>5. ReturnToMember  BY <1>3, <2>1, <2>4 DEF ReturnToCode, ReturnClassFile, Sections
  <2>6. /\ tasks' = Callers /\ cursor' = cursor /\ file' = file /\ outcome' = "parsing"
        /\ classFile' = [classFile EXCEPT ![members][m].attributes = found]
    BY <1>3, <2>4, <2>5, <2>f DEF ReturnToMember, Parsing
  <2>7. tasks' = <<p, l>>
    <3>s. PICK s : s = tasks  OBVIOUS
    <3>0. IsStack(s) /\ Len(s) = 3 /\ s[1] = p /\ s[2] = l  BY <1>1, <2>1, <3>s
    <3>1. /\ IsStack(s) /\ Len(s) > 0 /\ Len(s) - 1 = 2 /\ s[1] = p /\ s[2] = l
          /\ 1 \in 1 .. Len(s) - 1 /\ 2 \in 1 .. Len(s) - 1
      BY <3>0
    <3>2. IsStack(Front(s)) /\ Len(Front(s)) = Len(s) - 1  BY <3>1, FrontStack
    <3>3. Front(s)[1] = p  BY <3>1, FrontStack
    <3>4. Front(s)[2] = l  BY <3>1, FrontStack
    <3>5. Front(s) = <<p, l>>  BY <3>1, <3>2, <3>3, <3>4, ShortStacks
    <3> QED  BY <2>6, <3>5, <3>s DEF Callers
  <2>8. \E z : classFile' = ClassWith(cf, members, z) /\ AreKept(z, cf[members], m) /\ Len(z) = m
    <3>c. PICK class : class = classFile'  OBVIOUS
    <3>1. class = [classFile EXCEPT ![members][m].attributes = found]  BY <2>6, <3>c
    <3>2. found = KeptAnys(cf[members][m].attributes)  BY <1>r, <2>3
    <3>3. \E z : class = ClassWith(cf, members, z) /\ AreKept(z, cf[members], m) /\ Len(z) = m
      BY SMTT(20), <1>2, <1>ms, <3>1, <3>2, MemberEnds
    <3> QED  BY <3>3, <3>c
  <2>9. Follows(cursor, next)'  BY <2>1, <2>6, FollowsStill
  <2>10. AtMember(cf, members, m)'  BY <1>l, <1>p, <1>x, <2>7, <2>8, <2>9 DEF AtMember
  <2>11. Keeps(1)
    <3>1. IsStack(tasks') /\ Len(tasks') = 2  BY <2>7, ShortStacks
    <3>2. \A k \in DOMAIN tasks' : k = 1 \/ k = 2  BY <3>1, StackDomain
    <3> QED  BY <1>1, <1>3, <3>2 DEF Keeps, Sections
  <2> QED  BY <1>2, <2>6, <2>10, <2>11 DEF Reaches, Stages, Parsing
<1> QED  BY <1>6, <1>8, <1>9

-----------------------------------------------------------------------------
(* In the attributes of the class, and every stage together.               *)

LEMMA ClassComplete ==
    ASSUME NEW cf, NEW found, found = KeptInfos(cf.attributes),
           NEW class, class = [ClassWith(cf, "methods", KeptMembers(cf.methods)) EXCEPT !.attributes = found]
    PROVE  class = Kept(cf)
<1>k. PICK fields, ms, pool : /\ fields = KeptMembers(cf.fields) /\ ms = KeptMembers(cf.methods)
                              /\ pool = PoolOf(cf.constants)
  OBVIOUS
<1>w. PICK w : w = ClassWith(cf, "methods", KeptMembers(cf.methods))  OBVIOUS
<1>1. w = [version |-> cf.version, access |-> cf.access, constantPool |-> pool,
           interfaces |-> cf.interfaces, fields |-> fields, methods |-> ms, attributes |-> <<>>]
  BY <1>k, <1>w DEF ClassWith, ClassAt
<1>2. class = [version |-> cf.version, access |-> cf.access, constantPool |-> pool,
               interfaces |-> cf.interfaces, fields |-> fields, methods |-> ms, attributes |-> found]
  BY <1>1, <1>w
<1>3. Kept(cf) = [version |-> cf.version, access |-> cf.access, constantPool |-> pool,
                  interfaces |-> cf.interfaces, fields |-> fields, methods |-> ms,
                  attributes |-> found]
  BY <1>k DEF Kept, KeptMembers
<1> QED  BY <1>2, <1>3

IsParsed(cf) == outcome' = "parsed" /\ classFile' = Kept(cf) /\ tasks' = <<>> /\ Keeps(1)

LEMMA InAttributesStep ==
    ASSUME NEW cf, Parsing(cf), InAttributes(cf), ParserNext
    PROVE  Reaches(cf) \/ IsParsed(cf)
<1>c. PICK cs : cs = cf.constants  OBVIOUS
<1>r. PICK attrs : attrs = cf.attributes  OBVIOUS
<1>p. PICK p : p = Loop("parse", 5, 5)  OBVIOUS
<1>w. PICK class : class = ClassWith(cf, "methods", KeptMembers(cf.methods))  OBVIOUS
<1>1. IsStack(tasks) /\ tasks[1] = p /\ classFile = class /\ AtAny(2, cs, attrs, <<>>)
  BY <1>c, <1>p, <1>r, <1>w DEF InAttributes
<1>2. p.do = "parse"  BY <1>p, LoopTurns
<1>3. Setting(cs, attrs, <<>>)
  <2>1. FileOK /\ PoolOK(cs) /\ AttributesOK(cs, attrs) /\ cursor \in Nat
    BY <1>c, <1>r, ParsingFacts DEF Parsing, ClassOK
  <2>2. classFile.constantPool = PoolOf(cs)
    <3>1. "methods" \in Sections  BY DEF Sections
    <3> QED  BY <1>1, <1>c, <1>w, <3>1, ClassParts
  <2> QED  BY <1>1, <2>1, <2>2, Sizes DEF Setting
<1>4. (\A k \in DOMAIN attrs : AnyOK(cs, attrs[k])) /\ ~FoundCode(attrs)
  BY <1>c, <1>r, ClassAttributesKept DEF Parsing, AttributesKept
<1>5. \/ GoesOn(2) /\ AtAny(2, cs, attrs, <<>>)' /\ Keeps(2)
      \/ AtEnd(2, attrs, <<>>)
  BY <1>1, <1>3, <1>4, AnyStep DEF Parsing
<1>6. \A k \in DOMAIN tasks : k = 1 \/ k >= 2  BY <1>1, StackDomain
<1>7. CASE GoesOn(2) /\ AtAny(2, cs, attrs, <<>>)' /\ Keeps(2)
  <2>1. /\ IsStack(tasks') /\ cursor' \in Nat /\ classFile' = classFile /\ outcome' = "parsing"
        /\ \A k \in 1 .. 2 - 1 : tasks'[k] = tasks[k]
    BY <1>7 DEF GoesOn, Parsing
  <2>2. tasks'[1] = p  BY <1>1, <2>1
  <2>3. Keeps(1)  BY <1>1, <1>2, <1>6, <1>7 DEF Keeps
  <2>4. InAttributes(cf)'  BY <1>1, <1>7, <1>c, <1>p, <1>r, <1>w, <2>1, <2>2 DEF InAttributes
  <2> QED  BY <2>1, <2>3, <2>4 DEF Reaches, Stages
<1>8. CASE AtEnd(2, attrs, <<>>)
  <2>1. /\ Len(tasks) = 2 /\ IsMapOf(tasks[2].found, attrs, Len(attrs)) /\ Follows(cursor, <<>>)
        /\ ReturnToCode \/ ReturnToMember \/ ReturnClassFile
    BY <1>8 DEF AtEnd, IsAttributesTask
  <2>2. IsStack(attrs)  BY <1>3, AttributesWritten DEF Setting
  <2>f. PICK found : found = tasks[2].found  OBVIOUS
  <2>3. found = KeptInfos(attrs)  BY <1>4, <2>1, <2>2, <2>f, MapComplete, KeptWithoutCode
  <2>4. Top = tasks[2] /\ Caller = p  BY <1>1, <2>1 DEF Top, Caller
  <2>5. ReturnClassFile  BY <1>2, <2>1, <2>4 DEF ReturnToCode, ReturnToMember
  <2>6. cursor = Len(file)  BY <2>1, FollowsNothing DEF Parsing
  <2>7. tasks' = <<>> /\ outcome' = "parsed" /\ classFile' = [class EXCEPT !.attributes = found]
    BY <1>1, <2>4, <2>5, <2>6, <2>f DEF ReturnClassFile
  <2>8. classFile' = Kept(cf)
    <3>c. PICK parsed : parsed = classFile'  OBVIOUS
    <3>1. parsed = Kept(cf)  BY <1>r, <1>w, <2>3, <2>7, <3>c, ClassComplete
    <3> QED  BY <3>1, <3>c
  <2>9. Keeps(1)
    <3>1. DOMAIN tasks' = {}  BY <2>7
    <3> QED  BY <3>1 DEF Keeps
  <2> QED  BY <2>7, <2>8, <2>9 DEF IsParsed
<1> QED  BY <1>5, <1>7, <1>8

LEMMA StageStep ==
    ASSUME NEW cf, Parsing(cf), Stages(cf), ParserNext
    PROVE  Reaches(cf) \/ IsParsed(cf)
<1>1. CASE AtVersion  BY <1>1, VersionStep
<1>2. ASSUME NEW j \in 0 .. Len(cf.constants), AtConstants(cf, j) PROVE Reaches(cf)
  BY <1>2, ConstantStep
<1>3. CASE AtAccess(cf)  BY <1>3, AccessStep
<1>4. ASSUME NEW members \in Sections, AtMembers(cf, members) PROVE Reaches(cf)
  BY <1>4, MembersStep
<1>5. ASSUME NEW members \in Sections, NEW m \in 0 .. Len(cf[members]), AtMember(cf, members, m)
      PROVE  Reaches(cf)
  BY <1>5, MemberStep
<1>6. ASSUME NEW members \in Sections, NEW m \in 1 .. Len(cf[members]), InMember(cf, members, m)
      PROVE  Reaches(cf)
  BY <1>6, InMemberStep
<1>7. CASE AtAttributes(cf)  BY <1>7, AttributesStep
<1>8. CASE InAttributes(cf)  BY <1>8, InAttributesStep
<1> QED  BY <1>1, <1>2, <1>3, <1>4, <1>5, <1>6, <1>7, <1>8 DEF Stages

-----------------------------------------------------------------------------
(* The parser reads back what was written.                                 *)

(* A readable class file is parsed from stage to stage, and then kept.     *)
ParsedSoFar ==
    /\ written \in ClassFiles /\ file = WriteClassFile(written)
    /\ Readable(written) =>
        IF outcome = "parsing" THEN cursor \in Nat /\ Stages(written)
        ELSE tasks = <<>> /\ classFile = Kept(written)

LEMMA OnlyParsing ==
    ASSUME ParserNext
    PROVE  outcome = "parsing"
BY DEF ParserNext, ParseVersion, ParseConstant, ParseAccess, StartMembers, ParseMember,
       StartClassAttributes, ParseAttributeHead, AttributeWithoutName, ParseIndexAttribute,
       ParseNestMembers, SkipAttribute, ParseCode, StartTable, ReturnTable, ParseFrame,
       ParseBootstrapMethod, ReturnFromLoop, ReturnToCode, ReturnToMember, ReturnClassFile, Overrun,
       Returning, Attribute, Doing

LEMMA StagesStack ==
    ASSUME NEW cf, Stages(cf)
    PROVE  IsStack(tasks)
<1>1. (\E x : tasks = <<x>>) \/ (\E x, y : tasks = <<x, y>>) \/ IsStack(tasks)
  BY DEF Stages, AtVersion, AtConstants, AtAccess, AtMembers, AtMember, InMember, AtAttributes,
         InAttributes, Sectioned
<1> QED  BY <1>1, ShortStacks

LEMMA DecoderSteps ==
    ASSUME StartMethod \/ MethodFails \/ ParseType \/ AddMethod \/ ReturnProgram
    PROVE  /\ outcome = "parsed" /\ outcome' # "parsing"
           /\ UNCHANGED <<written, file, cursor, tasks, classFile>>
BY DEF Starting, StartMethod, MethodFails, ParseType, AddMethod, ReturnProgram

(* A step of the parser in a readable class file.                          *)
LEMMA ReadableStep ==
    ASSUME ParsedSoFar, Readable(written), ParserNext
    PROVE  /\ ParsedSoFar' /\ Keeps(1) /\ IsStack(tasks)
           /\ written' = written /\ outcome' \in {"parsing", "parsed"}
<1>c. PICK cf : cf = written  OBVIOUS
<1>1. outcome = "parsing"  BY OnlyParsing
<1>2. Parsing(cf) /\ Stages(cf)  BY <1>1, <1>c, WellFormedFiles DEF ParsedSoFar, Parsing
<1>3. file' = file /\ written' = cf  BY <1>c, FileStays
<1>4. Reaches(cf) \/ IsParsed(cf)  BY <1>2, StageStep
<1>5. CASE Reaches(cf)  BY <1>2, <1>3, <1>5, <1>c, StagesStack DEF Reaches, ParsedSoFar
<1>6. CASE IsParsed(cf)  BY <1>2, <1>3, <1>6, <1>c, StagesStack DEF IsParsed, ParsedSoFar
<1> QED  BY <1>4, <1>5, <1>6

LEMMA AttributesStay ==
    ASSUME UNCHANGED <<file, cursor, tasks>>, NEW n, NEW cs, NEW attrs, NEW ctx,
           AtAny(n, cs, attrs, ctx)
    PROVE  AtAny(n, cs, attrs, ctx)'
<1>1. ASSUME NEW at, NEW s, Follows(at, s) PROVE Follows(at, s)'
  BY <1>1 DEF Follows, Holds
<1>2. ASSUME NEW k, NEW es, NEW next, AtSimple(k, cs, es, next) PROVE AtSimple(k, cs, es, next)'
  <2>1. \A t : /\ Between(t, cs, es, next) => Between(t, cs, es, next)'
               /\ Within(t, cs, es, next) => Within(t, cs, es, next)'
               /\ AtContent(t, cs, es, next) => AtContent(t, cs, es, next)'
    BY <1>1 DEF Between, Within, AtContent, ContextOf
  <2>2. \A u, fs, x : AtFrames(u, fs, x) => AtFrames(u, fs, x)'  BY <1>1 DEF AtFrames
  <2>3. \A t : IsAttributesTask(t, es)' <=> IsAttributesTask(t, es)  BY DEF IsAttributesTask
  <2> QED  BY <1>2, <2>1, <2>2, <2>3 DEF AtSimple, ContextOf
<1>3. CASE AtSimple(n, cs, attrs, ctx)  BY <1>2, <1>3 DEF AtAny
<1>t. PICK t : t = tasks[n]  OBVIOUS
<1>4. CASE /\ IsAttributesTask(t, attrs) /\ Within(t, cs, attrs, ctx)
           /\ t.name = AttributeName.Code
           /\ t.body = <<CodeSoFar(attrs[t.i + 1].info)>>
           /\ AtSimple(n + 1, cs, attrs[t.i + 1].info.attributes, ContextOf(t, cs, attrs, ctx))
  <2>1. IsAttributesTask(t, attrs)'  BY <1>4 DEF IsAttributesTask
  <2>2. Within(t, cs, attrs, ctx)'  BY <1>4 DEF Within, ContextOf
  <2>3. AtSimple(n + 1, cs, attrs[t.i + 1].info.attributes, ContextOf(t, cs, attrs, ctx))'
    BY <1>2, <1>4
  <2>4. tasks'[n] = t  BY <1>t
  <2> QED  BY <1>4, <2>1, <2>2, <2>3, <2>4 DEF AtAny
<1> QED  BY <1>3, <1>4, <1>t DEF AtAny

LEMMA StagesStay ==
    ASSUME UNCHANGED <<file, cursor, tasks, classFile>>, NEW cf, Stages(cf)
    PROVE  Stages(cf)'
<1>1. ASSUME NEW s, Follows(cursor, s) PROVE Follows(cursor, s)'  BY <1>1 DEF Follows, Holds
<1>2. ASSUME NEW n, NEW cs, NEW attrs, NEW ctx, AtAny(n, cs, attrs, ctx)
      PROVE  AtAny(n, cs, attrs, ctx)'
  BY <1>2, AttributesStay
<1>3. AtVersion => AtVersion'  BY DEF AtVersion, Sectioned
<1>4. \A j : AtConstants(cf, j) => AtConstants(cf, j)'  BY <1>1 DEF AtConstants
<1>5. AtAccess(cf) => AtAccess(cf)'  BY <1>1 DEF AtAccess, Sectioned
<1>6. \A members : AtMembers(cf, members) => AtMembers(cf, members)'
  BY <1>1 DEF AtMembers, Sectioned
<1>7. \A members, m : AtMember(cf, members, m) => AtMember(cf, members, m)'
  BY <1>1 DEF AtMember
<1>8. \A members, m : InMember(cf, members, m) => InMember(cf, members, m)'
  BY <1>2 DEF InMember
<1>9. AtAttributes(cf) => AtAttributes(cf)'  BY <1>1 DEF AtAttributes, Sectioned
<1>10. InAttributes(cf) => InAttributes(cf)'  BY <1>2 DEF InAttributes
<1> QED  BY <1>3, <1>4, <1>5, <1>6, <1>7, <1>8, <1>9, <1>10 DEF Stages

LEMMA StartsParsing == DecoderInit => ParsedSoFar
<1> SUFFICES ASSUME DecoderInit PROVE ParsedSoFar  OBVIOUS
<1>1. AtVersion /\ cursor = 0 /\ outcome = "parsing"
  BY DEF DecoderInit, ParserInit, AtVersion, Sectioned, ClassAt
<1>2. Stages(written)  BY <1>1 DEF Stages
<1> QED  BY <1>1, <1>2 DEF DecoderInit, ParserInit, ParsedSoFar

LEMMA ParsedOn == ParsedSoFar /\ [Next]_vars => ParsedSoFar'
<1> SUFFICES ASSUME ParsedSoFar, [Next]_vars PROVE ParsedSoFar'  OBVIOUS
<1>1. CASE ParserNext
  <2>1. CASE Readable(written)  BY <1>1, <2>1, ReadableStep
  <2>2. CASE ~Readable(written)  BY <1>1, <2>2, FileStays DEF ParsedSoFar
  <2> QED  BY <2>1, <2>2
<1>2. CASE StartMethod \/ MethodFails \/ ParseType \/ AddMethod \/ ReturnProgram
  BY <1>2, DecoderSteps DEF ParsedSoFar
<1>3. CASE UNCHANGED vars
  <2>1. UNCHANGED <<written, file, cursor, tasks, classFile, outcome>>  BY <1>3 DEF vars
  <2>2. Stages(written) => Stages(written)'  BY <2>1, StagesStay
  <2> QED  BY <2>1, <2>2 DEF ParsedSoFar
<1> QED  BY <1>1, <1>2, <1>3 DEF Next, Stop

(* Of a readable class file the parser has always kept, section by section, *)
(* just what it should of the part it has read, and it is never aborted.    *)
THEOREM ReadableParsed == Spec => []ParsedSoFar
BY StartsParsing, ParsedOn, PTL DEF Spec

(* Once a readable class file is parsed, what is stored of it is what was   *)
(* written, as far as the parser keeps it.                                  *)
THEOREM ParsingKeeps == Spec => []ParsedAsWritten
<1>1. ParsedSoFar => ParsedAsWritten  BY DEF ParsedSoFar, ParsedAsWritten
<1> QED  BY <1>1, ReadableParsed, PTL

(* In a readable class file every attribute is left at the end of the       *)
(* length that its head states, however it was read.                        *)
THEOREM LengthsKept == Spec => AttributesKeepToTheirLength
<1>1. ParsedSoFar /\ [Next]_vars =>
        [Readable(written) =>
            \A k \in DOMAIN tasks \cap DOMAIN tasks' :
                /\ tasks[k].do = "attributes" /\ tasks'[k].do = "attributes"
                /\ tasks'[k].i = tasks[k].i + 1
                => cursor' = tasks[k].bodyEnd]_vars
  <2> SUFFICES ASSUME ParsedSoFar, Next, Readable(written),
                      NEW k \in DOMAIN tasks \cap DOMAIN tasks',
                      tasks[k].do = "attributes", tasks'[k].do = "attributes",
                      tasks'[k].i = tasks[k].i + 1, ~(UNCHANGED vars)
               PROVE  cursor' = tasks[k].bodyEnd
    OBVIOUS
  <2>1. CASE ParserNext
    <3>1. Keeps(1) /\ IsStack(tasks)  BY <2>1, ReadableStep
    <3>2. k >= 1  BY <3>1, StackDomain
    <3> QED  BY <3>1, <3>2 DEF Keeps
  <2>2. CASE StartMethod \/ MethodFails \/ ParseType \/ AddMethod \/ ReturnProgram
    <3>1. tasks = <<>>  BY <2>2, DecoderSteps DEF ParsedSoFar
    <3> QED  BY <3>1
  <2> QED  BY <2>1, <2>2 DEF Next, Stop
<1> QED  BY <1>1, ReadableParsed, PTL DEF AttributesKeepToTheirLength, Spec

=============================================================================
