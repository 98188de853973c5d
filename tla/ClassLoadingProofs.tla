------------------------- MODULE ClassLoadingProofs -------------------------
(***************************************************************************)
(* Proofs about loading a class.  First the decoder: a readable class is   *)
(* loaded, with the methods it was written with.  Then what holds of every *)
(* file, readable or not: the loops the parser is in fit those they were   *)
(* called from, what it has stored is well-typed, and every step reads on  *)
(* or gets nearer to the end of a loop.                                    *)
(***************************************************************************)
EXTENDS ParsingProofs

-----------------------------------------------------------------------------
(* Descriptors as they are written.                                        *)

(* The first place of a sequence with what is looked for.                  *)
LEMMA LeastPlace ==
    ASSUME NEW n \in Nat, NEW S, S \subseteq Nat, n \in S, \A k \in S : k >= n
    PROVE  Min(S) = n
<1>1. \A x \in S : (\A y \in S : x <= y) => x = n  OBVIOUS
<1>2. n \in S /\ \A y \in S : n <= y  OBVIOUS
<1> QED  BY <1>1, <1>2 DEF Min

LEMMA FirstPlace ==
    ASSUME NEW s, Len(s) \in Nat, NEW n \in 1 .. Len(s),
           s[n] # Characters.array, \A k \in 1 .. n - 1 : s[k] = Characters.array
    PROVE  SelectInSeq(s, LAMBDA c : c # Characters.array) = n
<1> DEFINE I == {i \in 1 .. Len(s) : s[i] # Characters.array}
<1>1. I \subseteq Nat /\ n \in I /\ \A k \in I : k >= n  OBVIOUS
<1>2. Min(I) = n  BY <1>1, LeastPlace
<1>3. I # {}  BY <1>1
<1> QED  BY <1>2, <1>3 DEF SelectInSeq

LEMMA NoDollar ==
    ASSUME NEW s, \A k \in 1 .. Len(s) : s[k] # Characters.dollar
    PROVE  SelectInSeq(s, LAMBDA c : c = Characters.dollar) = 0
BY DEF SelectInSeq

(* The characters of types.                                                *)
TypeCharacters == Byte \ {Characters.close, Characters.dollar}

LEMMA ConcatTwo ==
    ASSUME NEW S, NEW s \in Seq(S), NEW t \in Seq(S), Len(s) >= 1
    PROVE  /\ s \o t \in Seq(S) /\ Len(s \o t) = Len(s) + Len(t) /\ Len(s) \in Nat \ {0}
           /\ (s \o t)[1] = s[1]
<1>1. Len(s) \in Nat /\ Len(t) \in Nat  OBVIOUS
<1>2. s \o t \in Seq(S) /\ Len(s \o t) = Len(s) + Len(t)  OBVIOUS
<1>3. (s \o t)[1] = s[1]  BY <1>1
<1> QED  BY <1>1, <1>2, <1>3

LEMMA Enclosed ==
    ASSUME NEW S, NEW h \in Seq(S), NEW s \in Seq(S), NEW e \in Seq(S), Len(h) >= 1
    PROVE  /\ h \o s \o e \in Seq(S) /\ Len(h \o s \o e) = Len(h) + Len(s) + Len(e)
           /\ (h \o s \o e)[1] = h[1]
<1>1. PICK t : t = h \o s  OBVIOUS
<1>2. t \in Seq(S) /\ Len(t) = Len(h) + Len(s) /\ t[1] = h[1] /\ Len(t) >= 1
  <2>1. Len(s) \in Nat  OBVIOUS
  <2> QED  BY <1>1, <2>1, ConcatTwo
<1>3. t \o e \in Seq(S) /\ Len(t \o e) = Len(t) + Len(e) /\ (t \o e)[1] = t[1]
  BY ZenonT(40), <1>2, ConcatTwo
<1> QED  BY <1>1, <1>2, <1>3

LEMMA BasesWritten ==
    ASSUME NEW base \in JavaTypes \cup {"Void"}
    PROVE  /\ BaseCharacters(base) \in Seq(TypeCharacters) /\ Len(BaseCharacters(base)) >= 1
           /\ BaseCharacters(base)[1] # Characters.array
           /\ base \in BaseTypes =>
                /\ BaseTypeOf(BaseCharacters(base)[1]) = base
                /\ Len(BaseCharacters(base)) = IF base = "String" THEN 18 ELSE 1
<1>0. {73, 74, 70, 68, 86, 90, 76, 59, 97} \subseteq TypeCharacters
  BY DEF TypeCharacters, Byte, Characters
<1>1. NameOfString \in Seq(TypeCharacters) /\ Len(NameOfString) = 16
  BY <1>0 DEF NameOfString, Characters
<1>2. CASE base = "String"
  <2>1. PICK s : s = NameOfString  OBVIOUS
  <2>2. BaseCharacters(base) = <<76>> \o s \o <<59>>  BY <1>2, <2>1 DEF BaseCharacters, Characters
  <2>a. /\ <<76>> \in Seq(TypeCharacters) /\ Len(<<76>>) = 1 /\ <<76>>[1] = 76
        /\ <<59>> \in Seq(TypeCharacters) /\ Len(<<59>>) = 1
    BY <1>0
  <2>h. PICK h : h = <<76>>  OBVIOUS
  <2>e. PICK e : e = <<59>>  OBVIOUS
  <2>3. h \in Seq(TypeCharacters) /\ Len(h) >= 1 /\ e \in Seq(TypeCharacters)
    BY <2>a, <2>h, <2>e
  <2>s. s \in Seq(TypeCharacters)  BY <1>1, <2>1
  <2>6. /\ h \o s \o e \in Seq(TypeCharacters)
        /\ Len(h \o s \o e) = Len(h) + Len(s) + Len(e)
        /\ (h \o s \o e)[1] = h[1]
    BY <2>3, <2>s, Enclosed
  <2>7. BaseCharacters(base) = h \o s \o e  BY <2>2, <2>h, <2>e
  <2>8. BaseTypeOf(76) = "String" /\ Characters.array # 76  BY DEF BaseTypeOf, Characters
  <2>b. PICK b : b = h \o s \o e  OBVIOUS
  <2>c. h[1] = 76  BY <2>h
  <2>9. b \in Seq(TypeCharacters) /\ Len(b) = 18 /\ b[1] = 76  
    <3>1. Len(b) = Len(h) + Len(s) + Len(e)  BY <2>6, <2>b
    <3>2. Len(h) = 1 /\ Len(e) = 1 /\ Len(s) = 16  BY <1>1, <2>1, <2>a, <2>h, <2>e
    <3>3. Len(b) = 18  BY <3>1, <3>2
    <3> QED  BY <2>6, <2>b, <2>c, <3>3
  <2>10. BaseCharacters(base) = b  BY <2>7, <2>b
  <2> QED  BY <1>2, <2>8, <2>9, <2>10
<1>3. CASE base = "Object"
  <2>1. BaseCharacters(base) = <<76, 97, 59>>  BY <1>3 DEF BaseCharacters, Characters
  <2>2. <<76, 97, 59>> \in Seq(TypeCharacters)  BY <1>0
  <2>3. Len(<<76, 97, 59>>) = 3 /\ <<76, 97, 59>>[1] = 76 /\ Characters.array # 76
    BY DEF Characters
  <2>b. PICK b : b = <<76, 97, 59>>  OBVIOUS
  <2>4. b \in Seq(TypeCharacters) /\ Len(b) = 3 /\ b[1] = 76  BY <2>2, <2>3, <2>b
  <2>5. BaseCharacters(base) = b /\ base \notin BaseTypes  BY <1>3, <2>1, <2>b DEF BaseTypes
  <2> QED  BY <2>3, <2>4, <2>5
<1>4. CASE base \notin {"String", "Object"}
  <2>1. \E c \in {73, 74, 70, 68, 86, 90} :
            BaseCharacters(base) = <<c>> /\ (base \in BaseTypes => BaseTypeOf(c) = base)
    BY <1>4 DEF BaseCharacters, Characters, BaseTypeOf, BaseTypes, JavaTypes
  <2>2. PICK c \in {73, 74, 70, 68, 86, 90} :
            BaseCharacters(base) = <<c>> /\ (base \in BaseTypes => BaseTypeOf(c) = base)
    BY <2>1
  <2>3. <<c>> \in Seq(TypeCharacters) /\ Len(<<c>>) = 1 /\ <<c>>[1] = c /\ c # 91  BY <1>0, <2>2
  <2> QED  BY <1>4, <2>2, <2>3 DEF Characters
<1> QED  BY <1>2, <1>3, <1>4

(* The type of a parameter, or of what a method returns.                   *)
TypeOK(type) == IsType(type) \/ type = <<"Void">>

LEMMA TypeShape ==
    ASSUME NEW type, TypeOK(type)
    PROVE  \E n \in Nat :
             /\ Len(type) = n + 1 /\ IsStack(type) /\ Last(type) = type[n + 1]
             /\ type[n + 1] \in JavaTypes \cup {"Void"} /\ \A k \in 1 .. n : type[k] = "List"
<1>1. CASE type = <<"Void">>
  <2>1. type \in Seq({"Void"})  BY <1>1
  <2>2. IsStack(type)  BY <2>1, SeqIsStack
  <2> QED  BY <1>1, <2>2 DEF Last
<1>2. CASE IsType(type)
  <2>1. type \in Seq({"List"} \cup JavaTypes) /\ type # <<>>  BY <1>2 DEF IsType
  <2>2. IsStack(type) /\ Len(type) \in Nat \ {0} /\ DOMAIN type = 1 .. Len(type)
    BY <2>1, SeqIsStack, EmptyStack, StackDomain DEF IsStack
  <2>b. Len(type) \in Nat \ {0}  BY <2>2
  <2>3. PICK n \in Nat : Len(type) = n + 1
    <3>1. Len(type) - 1 \in Nat /\ Len(type) = (Len(type) - 1) + 1  BY <2>b
    <3> QED  BY <3>1
  <2>4. n + 1 \in DOMAIN type /\ \A k \in 1 .. n : k \in DOMAIN type /\ k # Len(type)
    BY <2>2, <2>3
  <2>5. type[n + 1] # "List" /\ \A k \in 1 .. n : type[k] = "List"
    BY <1>2, <2>3, <2>4 DEF IsType
  <2>6. type[n + 1] \in {"List"} \cup JavaTypes  BY <2>1, <2>4
  <2> QED  BY <2>2, <2>3, <2>5, <2>6 DEF Last
<1> QED  BY <1>1, <1>2 DEF TypeOK

LEMMA TypeWritten ==
    ASSUME NEW type, TypeOK(type)
    PROVE  /\ CharactersOf(type) \in Seq(TypeCharacters) /\ Len(CharactersOf(type)) >= 1
           /\ Last(type) \in BaseTypes =>
                /\ Len(CharactersOf(type)) = TypeStringLength(type)
                /\ \A rest \in Seq(Byte) : TypeFromString(CharactersOf(type) \o rest) = type
<1>1. PICK n \in Nat :
             /\ Len(type) = n + 1 /\ IsStack(type) /\ Last(type) = type[n + 1]
             /\ type[n + 1] \in JavaTypes \cup {"Void"} /\ \A k \in 1 .. n : type[k] = "List"
  BY TypeShape
<1>2. PICK base : base = type[n + 1]  OBVIOUS
<1>3. PICK b : b = BaseCharacters(base)  OBVIOUS
<1>4. PICK a : a = [k \in 1 .. n |-> 91]  OBVIOUS
<1>5. CharactersOf(type) = a \o b
  BY <1>1, <1>2, <1>3, <1>4 DEF CharactersOf, Characters
<1>6. b \in Seq(TypeCharacters) /\ Len(b) \in Nat \ {0}  BY <1>1, <1>2, <1>3, BasesWritten
<1>7. a \in Seq(TypeCharacters) /\ Len(a) = n /\ \A k \in 1 .. n : a[k] = 91
  BY <1>4 DEF TypeCharacters, Byte, Characters
<1>8. /\ a \o b \in Seq(TypeCharacters) /\ Len(a \o b) = n + Len(b)
      /\ (a \o b)[n + 1] = b[1] /\ \A k \in 1 .. n : (a \o b)[k] = 91
  BY <1>6, <1>7
<1>9. ASSUME Last(type) \in BaseTypes, NEW rest \in Seq(Byte)
      PROVE  /\ Len(a \o b) = TypeStringLength(type)
             /\ TypeFromString((a \o b) \o rest) = type
  <2>1. /\ BaseTypeOf(b[1]) = base /\ b[1] # 91
        /\ Len(b) = IF base = "String" THEN 18 ELSE 1
    BY <1>1, <1>2, <1>3, <1>9, BasesWritten DEF Characters
  <2>2. Len(a \o b) = TypeStringLength(type)
    BY <1>1, <1>2, <1>8, <2>1 DEF TypeStringLength
  <2>3. PICK t : t = (a \o b) \o rest  OBVIOUS
  <2>4. a \o b \in Seq(Byte)  BY <1>8 DEF TypeCharacters
  <2>5. /\ Len(t) \in Nat /\ n + 1 \in 1 .. Len(t)
        /\ t[n + 1] = b[1] /\ \A k \in 1 .. n : t[k] = 91
    BY <1>6, <1>8, <2>3, <2>4
  <2>6. SelectInSeq(t, LAMBDA c : c # Characters.array) = n + 1
    BY <2>1, <2>5, FirstPlace DEF Characters
  <2>7. TypeFromString(t) = [k \in 1 .. n |-> "List"] \o <<base>>
    <3>1. PICK m : m = SelectInSeq(t, LAMBDA c : c # Characters.array)  OBVIOUS
    <3>2. m = n + 1 /\ m # 0 /\ m - 1 = n  BY <2>6, <3>1
    <3>3. TypeFromString(t) = [k \in 1 .. m - 1 |-> "List"] \o <<BaseTypeOf(t[m])>>
      BY <3>1, <3>2 DEF TypeFromString
    <3> QED  BY <2>1, <2>5, <3>2, <3>3
  <2>8. PICK u : u = [k \in 1 .. n |-> "List"] \o <<base>>  OBVIOUS
  <2>9. /\ u \in Seq({"List", base}) /\ Len(u) = n + 1 /\ u[n + 1] = base
        /\ \A k \in 1 .. n : u[k] = "List"
    BY <2>8
  <2>10. IsStack(u)  BY <2>9, SeqIsStack
  <2>11. u = type
    <3>1. \A k \in 1 .. n + 1 : u[k] = type[k]  BY <1>1, <1>2, <2>9
    <3> QED  BY <1>1, <2>9, <2>10, <3>1, StackEqual
  <2> QED  BY <2>2, <2>3, <2>7, <2>8, <2>11
<1>10. CharactersOf(type) \in Seq(TypeCharacters) /\ Len(CharactersOf(type)) >= 1
  BY <1>5, <1>6, <1>8
<1>11. <<>> \in Seq(Byte)  OBVIOUS
<1> QED  BY <1>5, <1>9, <1>10, <1>11

-----------------------------------------------------------------------------
(* Splitting a descriptor at its parentheses.                              *)

(* What is between two parentheses, and what comes after.                  *)
LEMMA Parenthesised ==
    ASSUME NEW S, NEW o \in S, NEW w \in Seq(S), NEW c \in S, NEW r \in Seq(S),
           NEW d, d = <<o>> \o w \o <<c>> \o r
    PROVE  /\ d \in Seq(S) /\ Len(d) = Len(w) + Len(r) + 2 /\ d[Len(w) + 2] = c /\ d[1] = o
           /\ \A k \in 2 .. Len(w) + 1 : d[k] = w[k - 1]
           /\ \A k \in 1 .. Len(r) : d[Len(w) + 2 + k] = r[k]
           /\ SubSeq(d, 2, Len(w) + 1) = w
           /\ SubSeq(d, Len(w) + 3, Len(d)) = r
<1>1. Len(w) \in Nat /\ Len(r) \in Nat  OBVIOUS
<1>2. PICK a : a = <<o>> \o w  OBVIOUS
<1>3. /\ a \in Seq(S) /\ Len(a) = Len(w) + 1 /\ a[1] = o
      /\ \A k \in 2 .. Len(w) + 1 : a[k] = w[k - 1]
  <2>1. <<o>> \in Seq(S) /\ Len(<<o>>) = 1 /\ <<o>>[1] = o  OBVIOUS
  <2> QED  BY <1>1, <1>2, <2>1, ConcatProperties
<1>4. PICK b : b = a \o <<c>>  OBVIOUS
<1>5. /\ b \in Seq(S) /\ Len(b) = Len(w) + 2 /\ b[Len(w) + 2] = c
      /\ \A k \in 1 .. Len(w) + 1 : b[k] = a[k]
  <2>1. <<c>> \in Seq(S) /\ Len(<<c>>) = 1 /\ <<c>>[1] = c  OBVIOUS
  <2> QED  BY <1>1, <1>3, <1>4, <2>1, ConcatProperties
<1>6. d = b \o r  BY <1>2, <1>4
<1>7. /\ d \in Seq(S) /\ Len(d) = Len(w) + 2 + Len(r)
      /\ \A k \in 1 .. Len(w) + 2 : d[k] = b[k]
      /\ \A k \in 1 .. Len(r) : d[Len(w) + 2 + k] = r[k]
  BY <1>1, <1>5, <1>6, ConcatProperties
<1>8. /\ d[Len(w) + 2] = c /\ d[1] = o
      /\ \A k \in 2 .. Len(w) + 1 : d[k] = w[k - 1]
  BY <1>1, <1>3, <1>5, <1>7
<1>9. SubSeq(d, 2, Len(w) + 1) = w
  BY <1>1, <1>7, <1>8
<1>10. SubSeq(d, Len(w) + 3, Len(d)) = r
  BY <1>1, <1>7
<1> QED  BY <1>1, <1>7, <1>8, <1>9, <1>10

TypeBytes(types) == [k \in DOMAIN types |-> CharactersOf(types[k])]

AreTypes(types) == IsTable(types) /\ \A k \in DOMAIN types : IsType(types[k])

LEMMA TypesWritten ==
    ASSUME NEW types, AreTypes(types)
    PROVE  /\ IsStack(types) /\ Len(types) \in Nat /\ IsStack(TypeBytes(types))
           /\ Len(TypeBytes(types)) = Len(types)
           /\ TypeBytes(types) \in Seq(Seq(TypeCharacters)) /\ AreBytes(TypeBytes(types))
           /\ \A k \in 1 .. Len(types) :
                TypeOK(types[k]) /\ TypeBytes(types)[k] = CharactersOf(types[k])
<1>1. IsStack(types) /\ Len(types) \in Nat /\ DOMAIN types = 1 .. Len(types)
  BY StackDomain DEF AreTypes, IsTable, IsStack, Half
<1>2. TypeBytes(types) = [k \in 1 .. Len(types) |-> TypeBytes(types)[k]]  BY <1>1 DEF TypeBytes
<1>3. IsStack(TypeBytes(types)) /\ Len(TypeBytes(types)) = Len(types)
  BY <1>1, <1>2, ComputedStack
<1>4. \A k \in 1 .. Len(types) : TypeOK(types[k]) /\ TypeBytes(types)[k] = CharactersOf(types[k])
  BY <1>1 DEF TypeBytes, AreTypes, TypeOK
<1>5. \A k \in 1 .. Len(types) :
        TypeBytes(types)[k] \in Seq(TypeCharacters) /\ TypeBytes(types)[k] \in Seq(Byte)
  <2>1. \A s : s \in Seq(TypeCharacters) => s \in Seq(Byte)  BY DEF TypeCharacters
  <2> QED  BY <1>4, <2>1, TypeWritten
<1>6. TypeBytes(types) \in Seq(Seq(TypeCharacters))  BY <1>3, <1>5, SeqOfStack
<1>7. TypeBytes(types) \in Seq(Seq(Byte))  BY <1>3, <1>5, SeqOfStack
<1> QED  BY <1>1, <1>3, <1>4, <1>6, <1>7 DEF AreBytes

(* A pair of parentheses with no other that closes is the only one.        *)
LEMMA OnlyParentheses ==
    ASSUME NEW d \in Seq(Byte), NEW n \in Nat, n > 1, n < Len(d),
           d[1] = Characters.open, d[n] = Characters.close, d[n + 1] # Characters.dollar,
           \A k \in 1 .. n - 1 : d[k] # Characters.close
    PROVE  Parentheses(d) # {} /\ FirstParentheses(d)[1] = 1 /\ FirstParentheses(d)[2] = n
<1>1. DOMAIN d = 1 .. Len(d) /\ Len(d) \in Nat  OBVIOUS
<1>2. PICK S : S = Parentheses(d)  OBVIOUS
<1>3. PICK one : one = <<1, n>>  OBVIOUS
<1>4. one \in (DOMAIN d) \X (DOMAIN d) /\ one[1] = 1 /\ one[2] = n  BY <1>1, <1>3
<1>5. \A k \in one[1] + 1 .. one[2] - 1 : d[k] # Characters.close  BY <1>1, <1>4
<1>6. one \in S  BY <1>2, <1>4, <1>5 DEF Parentheses
<1>7. ASSUME NEW p \in S
      PROVE  /\ p[1] \in 1 .. Len(d) /\ p[2] \in 1 .. Len(d) /\ d[p[2]] = Characters.close
             /\ \A k \in p[1] + 1 .. p[2] - 1 : d[k] # Characters.close
  BY <1>1, <1>2, <1>7 DEF Parentheses
<1>8. \A q \in S : one[1] <= q[1]  BY <1>1, <1>4, <1>7
<1>9. ASSUME NEW p \in S, \A q \in S : p[1] <= q[1] PROVE p[1] = 1 /\ p[2] = n
  <2>1. p[1] <= 1  BY <1>4, <1>6, <1>9
  <2>2. PICK a, b : a = p[1] /\ b = p[2]  OBVIOUS
  <2>3. /\ a \in 1 .. Len(d) /\ b \in 1 .. Len(d) /\ d[b] = Characters.close
        /\ \A k \in a + 1 .. b - 1 : d[k] # Characters.close
    BY <1>7, <1>9, <2>2
  <2>4. a = 1  BY <1>1, <2>1, <2>2, <2>3
  <2>5. ~(b < n)  BY <1>1, <2>3
  <2>6. ~(b > n)  BY <1>1, <2>3, <2>4
  <2>7. b = n  BY <1>1, <2>3, <2>5, <2>6
  <2> QED  BY <2>2, <2>4, <2>7
<1>10. PICK first : first = CHOOSE p \in S : \A q \in S : p[1] <= q[1]  OBVIOUS
<1>11. first \in S /\ \A q \in S : first[1] <= q[1]  BY <1>6, <1>8, <1>10
<1>12. FirstParentheses(d) = first  BY <1>2, <1>10 DEF FirstParentheses
<1> QED  BY <1>2, <1>6, <1>9, <1>11, <1>12

LEMMA DescriptorSplit ==
    ASSUME NEW types, AreTypes(types), NEW result, TypeOK(result),
           NEW d, d = Descriptor(types, result)
    PROVE  /\ Parentheses(d) # {}
           /\ ArgString(d) = Flat(TypeBytes(types)) /\ RetString(d) = CharactersOf(result)
<1>1. PICK w : w = Flat(TypeBytes(types))  OBVIOUS
<1>2. PICK r : r = CharactersOf(result)  OBVIOUS
<1>3. w \in Seq(TypeCharacters) /\ w \in Seq(Byte)
  <2>1. w \in Seq(TypeCharacters)  BY <1>1, TypesWritten, FlattenType DEF Flat
  <2> QED  BY <2>1 DEF TypeCharacters
<1>4. /\ r \in Seq(Byte) /\ Len(r) >= 1
      /\ \A k \in 1 .. Len(r) : r[k] # Characters.dollar
  <2>1. r \in Seq(TypeCharacters) /\ Len(r) >= 1  BY <1>2, TypeWritten
  <2> QED  BY <2>1 DEF TypeCharacters
<1>5. WriteAll(CharactersOf, types) = w  BY <1>1 DEF WriteAll, TypeBytes, Flat
<1>6. d = <<40>> \o w \o <<41>> \o r  BY <1>2, <1>5 DEF Descriptor, Characters
<1>7. 40 \in Byte /\ 41 \in Byte  BY DEF Byte
<1>8. /\ d \in Seq(Byte) /\ Len(d) = Len(w) + Len(r) + 2 /\ d[Len(w) + 2] = 41 /\ d[1] = 40
      /\ \A k \in 2 .. Len(w) + 1 : d[k] = w[k - 1]
      /\ \A k \in 1 .. Len(r) : d[Len(w) + 2 + k] = r[k]
      /\ SubSeq(d, 2, Len(w) + 1) = w
      /\ SubSeq(d, Len(w) + 3, Len(d)) = r
  <2>1. PICK bytes, o, c : bytes = Byte /\ o = 40 /\ c = 41  OBVIOUS
  <2>2. /\ o \in bytes /\ c \in bytes /\ w \in Seq(bytes) /\ r \in Seq(bytes)
        /\ d = <<o>> \o w \o <<c>> \o r
    BY <1>3, <1>4, <1>6, <1>7, <2>1
  <2>3. /\ d \in Seq(bytes) /\ Len(d) = Len(w) + Len(r) + 2 /\ d[Len(w) + 2] = c /\ d[1] = o
        /\ \A k \in 2 .. Len(w) + 1 : d[k] = w[k - 1]
        /\ \A k \in 1 .. Len(r) : d[Len(w) + 2 + k] = r[k]
        /\ SubSeq(d, 2, Len(w) + 1) = w
        /\ SubSeq(d, Len(w) + 3, Len(d)) = r
    BY ONLY <2>2, Parenthesised
  <2> QED  BY ONLY <2>1, <2>3
<1>9. Len(w) \in Nat /\ Len(r) \in Nat  BY <1>3, <1>4
<1>10. PICK n \in Nat : n = Len(w) + 2  BY <1>9
<1>11. \A k \in 1 .. n - 1 : d[k] # 41
  <2>1. \A k \in 1 .. Len(w) : w[k] # 41  BY <1>3 DEF TypeCharacters, Characters
  <2>2. \A k \in 2 .. Len(w) + 1 : k - 1 \in 1 .. Len(w)  BY <1>9
  <2>3. \A k \in 1 .. n - 1 : k = 1 \/ k \in 2 .. Len(w) + 1  BY <1>9, <1>10
  <2> QED  BY <1>8, <2>1, <2>2, <2>3
<1>12. Parentheses(d) # {} /\ FirstParentheses(d)[1] = 1 /\ FirstParentheses(d)[2] = n
  <2>1. n > 1 /\ n < Len(d)  BY <1>4, <1>8, <1>9, <1>10
  <2>2. d[n + 1] # Characters.dollar
    <3>1. d[n + 1] = r[1]  BY <1>4, <1>8, <1>9, <1>10
    <3> QED  BY <1>4, <1>9, <3>1
  <2>3. Characters.open = 40 /\ Characters.close = 41  BY DEF Characters
  <2>4. d \in Seq(Byte) /\ n \in Nat  BY <1>8, <1>10
  <2>5. d[1] = Characters.open /\ d[n] = Characters.close  BY <1>8, <1>10, <2>3
  <2>6. \A k \in 1 .. n - 1 : d[k] # Characters.close  BY <1>11, <2>3
  <2> QED  BY ONLY <2>1, <2>2, <2>4, <2>5, <2>6, OnlyParentheses
<1>13. n - 1 = Len(w) + 1 /\ n + 1 = Len(w) + 3  BY <1>9, <1>10
<1>14. ArgString(d) = w  BY <1>8, <1>12, <1>13 DEF ArgString
<1>15. RetString(d) = r
  <2>1. SubSeq(d, FirstParentheses(d)[2] + 1, Len(d)) = r  BY <1>8, <1>12, <1>13
  <2>2. SelectInSeq(r, LAMBDA c : c = Characters.dollar) = 0  BY <1>4, NoDollar
  <2> QED  BY <2>1, <2>2 DEF RetString
<1> QED  BY <1>1, <1>2, <1>12, <1>14, <1>15

-----------------------------------------------------------------------------
(* Splitting off the first of the types.                                   *)

LEMMA AfterFirst ==
    ASSUME NEW s \in Seq(Byte), NEW t \in Seq(Byte), NEW n, n = Len(s)
    PROVE  /\ n <= Len(s \o t) /\ SubSeq(s \o t, n + 1, Len(s \o t)) = t
           /\ n > 0 => s \o t # <<>>
<1>1. PICK u : u = s \o t  OBVIOUS
<1>2. Len(s) \in Nat /\ Len(t) \in Nat  OBVIOUS
<1>3. /\ u \in Seq(Byte) /\ Len(u) = n + Len(t)
      /\ \A k \in 1 .. Len(t) : u[n + k] = t[k]
  BY <1>1, <1>2, ConcatProperties
<1>4. SubSeq(u, n + 1, Len(u)) = t  BY <1>2, <1>3
<1>5. n > 0 => u # <<>>  BY <1>2, <1>3
<1> QED  BY <1>1, <1>2, <1>3, <1>4, <1>5

(* The first type of what is left is the next one.                         *)
LEMMA NextType ==
    ASSUME NEW types, AreTypes(types), NEW j \in 0 .. Len(types),
           \A k \in 1 .. Len(types) : Last(types[k]) \in BaseTypes,
           NEW s, s = Rest(TypeBytes(types), j)
    PROVE  /\ s = <<>> <=> j = Len(types)
           /\ j < Len(types) =>
                /\ TypeFromString(s) = types[j + 1]
                /\ TypeStringLength(types[j + 1]) <= Len(s)
                /\ SubSeq(s, TypeStringLength(types[j + 1]) + 1, Len(s)) =
                        Rest(TypeBytes(types), j + 1)
<1>1. /\ Len(types) \in Nat /\ Len(TypeBytes(types)) = Len(types)
      /\ TypeBytes(types) \in Seq(Seq(Byte))
      /\ \A k \in 1 .. Len(types) :
            TypeOK(types[k]) /\ TypeBytes(types)[k] = CharactersOf(types[k])
  BY TypesWritten DEF AreBytes
<1>2. j = Len(types) => s = <<>>  BY <1>1, RestOfSeqs
<1>3. ASSUME j < Len(types)
      PROVE  /\ s # <<>> /\ TypeFromString(s) = types[j + 1]
             /\ TypeStringLength(types[j + 1]) <= Len(s)
             /\ SubSeq(s, TypeStringLength(types[j + 1]) + 1, Len(s)) =
                        Rest(TypeBytes(types), j + 1)
  <2>1. j \in 0 .. Len(types) - 1 /\ j + 1 \in 1 .. Len(types) /\ j + 1 \in 0 .. Len(types)
    BY <1>1, <1>3
  <2>2. PICK type : type = types[j + 1]  OBVIOUS
  <2>3. PICK first : first = CharactersOf(type)  OBVIOUS
  <2>4. PICK rest : rest = Rest(TypeBytes(types), j + 1)  OBVIOUS
  <2>5. TypeOK(type) /\ Last(type) \in BaseTypes /\ TypeBytes(types)[j + 1] = first
    BY <1>1, <2>1, <2>2, <2>3
  <2>6. rest \in Seq(Byte)  BY <1>1, <2>1, <2>4, RestOfSeqs
  <2>7. first \in Seq(Byte) /\ s = first \o rest  BY <1>1, <2>1, <2>4, <2>5, RestOfSeqs
  <2>8. /\ Len(first) >= 1 /\ Len(first) = TypeStringLength(type)
        /\ TypeFromString(s) = type
    BY <2>3, <2>5, <2>6, <2>7, TypeWritten
  <2>9. PICK l : l = TypeStringLength(type)  OBVIOUS
  <2>10. l = Len(first) /\ l \in Nat /\ l > 0  BY <2>7, <2>8, <2>9
  <2>11. l <= Len(s) /\ SubSeq(s, l + 1, Len(s)) = rest /\ s # <<>>
    BY <2>6, <2>7, <2>10, AfterFirst
  <2> QED  BY <2>2, <2>4, <2>8, <2>9, <2>11
<1> QED  BY <1>1, <1>2, <1>3

LEMMA NoneSplit ==
    ASSUME NEW types, AreTypes(types)
    PROVE  Rest(TypeBytes(types), 0) = Flat(TypeBytes(types))
BY TypesWritten, RestOfSeqs DEF AreBytes, Flat

-----------------------------------------------------------------------------
(* The methods of a class that has been parsed.                            *)

(* What parseTypes has made of the parameters of a method, and has not yet.*)
TypesSplit(m) ==
    /\ IsStack(decoding.argTypes) /\ Len(decoding.argTypes) <= Len(m.types)
    /\ \A k \in 1 .. Len(decoding.argTypes) : decoding.argTypes[k] = m.types[k]
    /\ decoding.argString = Rest(TypeBytes(m.types), Len(decoding.argTypes))
    /\ decoding.retString = CharactersOf(m.result)

IsProgramMethod(m, method) ==
    /\ method.argTypes = m.types
    /\ Last(m.result) \in BaseTypes => method.retType = m.result
    /\ method.code = KeptMember(m).attributes[AttributeName.Code]

(* The first d methods are in the program.                                 *)
AreDecoded(map, ms, d) ==
    /\ DOMAIN map = {ms[k].nameIndex : k \in 1 .. d}
    /\ \A k \in 1 .. d : IsProgramMethod(ms[k], map[ms[k].nameIndex])

IsDecoding(d) ==
    d = [index |-> d.index, underWay |-> d.underWay, argString |-> d.argString,
         retString |-> d.retString, argTypes |-> d.argTypes]

Decoding(ms) ==
    /\ IsDecoding(decoding)
    /\ decoding.underWay \in BOOLEAN /\ decoding.index \in 0 .. Len(ms)
    /\ IF decoding.underWay
       THEN /\ decoding.index > 0 /\ AreDecoded(methods, ms, decoding.index - 1)
            /\ TypesSplit(ms[decoding.index])
       ELSE AreDecoded(methods, ms, decoding.index)

DecodedSoFar ==
    Readable(written) /\ Decodable(written) =>
        /\ outcome \in {"parsing", "parsed", "decoded"} /\ Decoding(written.methods)
        /\ outcome = "decoded" => ~decoding.underWay /\ decoding.index = Len(written.methods)

LEMMA KeptMethods ==
    ASSUME NEW cf, IsClassFile(cf), NEW class, class = Kept(cf)
    PROVE  /\ IsStack(cf.methods) /\ Len(cf.methods) \in Nat /\ Len(class.methods) = Len(cf.methods)
           /\ \A k \in 1 .. Len(cf.methods) : class.methods[k] = KeptMember(cf.methods[k])
           /\ DOMAIN cf.methods = 1 .. Len(cf.methods)
<1>1. IsTable(cf.methods)  BY DEF IsClassFile
<1>2. IsStack(cf.methods) /\ DOMAIN cf.methods = 1 .. Len(cf.methods) /\ Len(cf.methods) \in Nat
  BY <1>1, StackDomain DEF IsTable, IsStack, Half
<1>3. PICK ks : ks = class.methods  OBVIOUS
<1>4. ks = [k \in 1 .. Len(cf.methods) |-> KeptMember(cf.methods[k])]  BY <1>2, <1>3 DEF Kept
<1>5. Len(ks) = Len(cf.methods) /\ \A k \in 1 .. Len(cf.methods) : ks[k] = KeptMember(cf.methods[k])
  BY <1>2, <1>4
<1> QED  BY <1>2, <1>3, <1>5

LEMMA MethodFacts ==
    ASSUME NEW cf, IsClassFile(cf), Decodable(cf), NEW class, class = Kept(cf),
           NEW i \in 1 .. Len(cf.methods), NEW m, m = cf.methods[i]
    PROVE  /\ AreTypes(m.types) /\ TypeOK(m.result)
           /\ \A k \in 1 .. Len(m.types) : Last(m.types[k]) \in BaseTypes
           /\ class.methods[i] = KeptMember(m) /\ KeptMember(m).nameIndex = m.nameIndex
           /\ KeptMember(m).descriptorIndex \in DOMAIN class.constantPool
           /\ class.constantPool[KeptMember(m).descriptorIndex].kind = "Utf8"
           /\ class.constantPool[KeptMember(m).descriptorIndex].values = Descriptor(m.types, m.result)
           /\ AttributeName.Code \in DOMAIN KeptMember(m).attributes
<1>1. i \in DOMAIN cf.methods /\ class.methods[i] = KeptMember(m)  BY KeptMethods
<1>2. HasDescriptor(cf.constants, m) /\ AreMethodAttributes(cf.constants, m.attributes)
  BY <1>1 DEF IsClassFile
<1>3. AreTypes(m.types) /\ TypeOK(m.result)  BY <1>2 DEF HasDescriptor, AreTypes, TypeOK
<1>4. /\ KeptMember(m).nameIndex = m.nameIndex /\ KeptMember(m).descriptorIndex = m.descriptorIndex
      /\ KeptMember(m).attributes = KeptAnys(m.attributes)
  BY DEF KeptMember
<1>5. class.constantPool = PoolOf(cf.constants)  BY DEF Kept
<1>6. /\ m.descriptorIndex \in DOMAIN class.constantPool
      /\ class.constantPool[m.descriptorIndex].kind = "Utf8"
      /\ class.constantPool[m.descriptorIndex].values = Descriptor(m.types, m.result)
  BY <1>2, <1>5 DEF HasDescriptor
<1>7. m \in Range(cf.methods)  BY <1>1 DEF Range
<1>8. \A k \in 1 .. Len(m.types) : Last(m.types[k]) \in BaseTypes
  <2>1. DOMAIN m.types = 1 .. Len(m.types)  BY <1>3, TypesWritten, StackDomain
  <2>2. \A k \in 1 .. Len(m.types) : m.types[k] \in Range(m.types)  BY <2>1 DEF Range
  <2> QED  BY <1>7, <2>2 DEF Decodable
<1>9. AttributeName.Code \in DOMAIN KeptAnys(m.attributes)
  <2>1. PICK k \in DOMAIN m.attributes : m.attributes[k].name = AttributeName.Code
    BY <1>7 DEF Decodable, Range
  <2>2. AttributeName.Code \in KnownNames  BY DEF KnownNames, AttributeName
  <2> QED  BY <2>1, <2>2 DEF KeptAnys, KeptAs
<1> QED  BY <1>1, <1>3, <1>4, <1>6, <1>8, <1>9

-----------------------------------------------------------------------------
(* Parsing the types of a method.                                          *)

(* Where the decoder of a class with the methods ms is to go on.           *)
Decoder(cf) ==
    /\ IsClassFile(cf) /\ Decodable(cf) /\ classFile = Kept(cf)
    /\ outcome = "parsed" /\ Decoding(cf.methods)

DecodesOn(cf) == outcome' = "parsed" /\ Decoding(cf.methods)'

(* The next method's descriptor is the one the class was written with.      *)
LEMMA DescriptorFound ==
    ASSUME NEW cf, Decoder(cf), Starting, NEW i, i = NextMethod, NEW m, m = cf.methods[i],
           NEW d, d = Descriptor(m.types, m.result)
    PROVE  /\ i \in 1 .. Len(cf.methods) /\ Len(cf.methods) \in Nat
           /\ i - 1 = decoding.index /\ AreDecoded(methods, cf.methods, i - 1)
           /\ AreTypes(m.types) /\ TypeOK(m.result)
           /\ NextDescriptor \in DOMAIN classFile.constantPool /\ IsUtf8
           /\ DescriptorsFound = {d}
<1>1. PICK class : class = classFile  OBVIOUS
<1>2. class = Kept(cf)  BY <1>1 DEF Decoder
<1>3. PICK j : j = decoding.index  OBVIOUS
<1>4. Len(class.methods) = Len(cf.methods) /\ Len(cf.methods) \in Nat
  BY <1>2, KeptMethods DEF Decoder
<1>5. j \in 0 .. Len(cf.methods) /\ AreDecoded(methods, cf.methods, j)
  BY <1>3 DEF Decoder, Decoding, Starting
<1>6. i = j + 1 /\ i <= Len(cf.methods)  BY <1>1, <1>3, <1>4 DEF Starting, NextMethod
<1>7. i \in 1 .. Len(cf.methods) /\ i - 1 = j  BY <1>4, <1>5, <1>6
<1>8. PICK index : index = KeptMember(m).descriptorIndex  OBVIOUS
<1>9. /\ AreTypes(m.types) /\ TypeOK(m.result) /\ class.methods[i] = KeptMember(m)
      /\ index \in DOMAIN class.constantPool /\ class.constantPool[index].kind = "Utf8"
      /\ class.constantPool[index].values = d
  BY <1>2, <1>7, <1>8, MethodFacts DEF Decoder
<1>10. NextDescriptor = index  BY <1>1, <1>8, <1>9 DEF NextDescriptor
<1>11. IsUtf8  BY <1>1, <1>9, <1>10 DEF IsUtf8
<1>12. DescriptorsFound = {d}  BY <1>1, <1>9, <1>10, <1>11 DEF DescriptorsFound
<1> QED  BY <1>1, <1>3, <1>4, <1>5, <1>7, <1>9, <1>10, <1>11, <1>12

LEMMA MethodStarts ==
    ASSUME NEW cf, Decoder(cf), StartMethod
    PROVE  DecodesOn(cf)
<1>1. PICK i : i = NextMethod  OBVIOUS
<1>2. PICK m : m = cf.methods[i]  OBVIOUS
<1>3. PICK d : d = Descriptor(m.types, m.result)  OBVIOUS
<1>4. Starting  BY DEF StartMethod
<1>5. /\ i \in 1 .. Len(cf.methods) /\ Len(cf.methods) \in Nat
      /\ AreDecoded(methods, cf.methods, i - 1)
      /\ AreTypes(m.types) /\ TypeOK(m.result) /\ DescriptorsFound = {d}
  BY <1>1, <1>2, <1>3, <1>4, DescriptorFound
<1>6. PICK s, r : s = ArgString(d) /\ r = RetString(d)  OBVIOUS
<1>7. decoding' = [index |-> i, underWay |-> TRUE, argTypes |-> <<>>, argString |-> s, retString |-> r]
  BY <1>1, <1>5, <1>6 DEF StartMethod
<1>8. s = Rest(TypeBytes(m.types), 0) /\ r = CharactersOf(m.result)
  <2>1. s = Flat(TypeBytes(m.types)) /\ r = CharactersOf(m.result)
    BY <1>3, <1>5, <1>6, DescriptorSplit
  <2> QED  BY <1>5, <2>1, NoneSplit
<1>9. TypesSplit(m)'
  <2>1. IsStack(<<>>) /\ Len(<<>>) = 0  BY NoneIsSeq, SeqIsStack
  <2>2. Len(m.types) \in Nat  BY <1>5, TypesWritten
  <2> QED  BY <1>7, <1>8, <2>1, <2>2 DEF TypesSplit
<1>10. Decoding(cf.methods)'
  <2>1. methods' = methods  BY DEF StartMethod
  <2>2. AreDecoded(methods', cf.methods, i - 1)  BY <1>5, <2>1
  <2>3. i \in 0 .. Len(cf.methods) /\ i > 0  BY <1>5
  <2>4. IsDecoding(decoding')  BY <1>7 DEF IsDecoding
  <2> QED  BY <1>2, <1>7, <1>9, <2>2, <2>3, <2>4 DEF Decoding
<1>11. outcome' = "parsed"  BY <1>4 DEF StartMethod, Starting
<1> QED  BY <1>10, <1>11 DEF DecodesOn

LEMMA DescriptorMatches ==
    ASSUME NEW cf, Decoder(cf)
    PROVE  ~MethodFails
<1> SUFFICES ASSUME MethodFails PROVE FALSE  OBVIOUS
<1>1. PICK i : i = NextMethod  OBVIOUS
<1>2. PICK m : m = cf.methods[i]  OBVIOUS
<1>3. PICK d : d = Descriptor(m.types, m.result)  OBVIOUS
<1>4. Starting  BY DEF MethodFails
<1>5. /\ AreTypes(m.types) /\ TypeOK(m.result) /\ DescriptorsFound = {d}
      /\ NextDescriptor \in DOMAIN classFile.constantPool /\ IsUtf8
  BY <1>1, <1>2, <1>3, <1>4, DescriptorFound
<1>6. Parentheses(d) # {}  BY <1>3, <1>5, DescriptorSplit
<1> QED  BY <1>5, <1>6 DEF MethodFails

(* The method under way.                                                   *)
LEMMA UnderWay ==
    ASSUME NEW cf, Decoder(cf), decoding.underWay, NEW i, i = decoding.index,
           NEW m, m = cf.methods[i]
    PROVE  /\ i \in 1 .. Len(cf.methods) /\ Len(cf.methods) \in Nat
           /\ AreDecoded(methods, cf.methods, i - 1) /\ TypesSplit(m)
           /\ AreTypes(m.types) /\ TypeOK(m.result)
           /\ \A k \in 1 .. Len(m.types) : Last(m.types[k]) \in BaseTypes
           /\ classFile.methods[i] = KeptMember(m)
           /\ AttributeName.Code \in DOMAIN KeptMember(m).attributes
           /\ KeptMember(m).nameIndex = m.nameIndex
<1>1. PICK class : class = classFile  OBVIOUS
<1>2. class = Kept(cf) /\ IsClassFile(cf) /\ Decodable(cf)  BY <1>1 DEF Decoder
<1>3. Len(cf.methods) \in Nat  BY <1>2, KeptMethods
<1>4. i \in 1 .. Len(cf.methods) /\ AreDecoded(methods, cf.methods, i - 1) /\ TypesSplit(m)
  BY <1>3 DEF Decoder, Decoding
<1>5. /\ AreTypes(m.types) /\ TypeOK(m.result)
      /\ \A k \in 1 .. Len(m.types) : Last(m.types[k]) \in BaseTypes
      /\ class.methods[i] = KeptMember(m) /\ KeptMember(m).nameIndex = m.nameIndex
      /\ AttributeName.Code \in DOMAIN KeptMember(m).attributes
  BY <1>2, <1>4, MethodFacts
<1> QED  BY <1>1, <1>3, <1>4, <1>5

LEMMA TypeParsed ==
    ASSUME NEW cf, Decoder(cf), ParseType
    PROVE  DecodesOn(cf)
<1>1. PICK i : i = decoding.index  OBVIOUS
<1>2. PICK m : m = cf.methods[i]  OBVIOUS
<1>3. decoding.underWay  BY DEF ParseType
<1>4. /\ i \in 1 .. Len(cf.methods) /\ Len(cf.methods) \in Nat
      /\ AreDecoded(methods, cf.methods, i - 1) /\ TypesSplit(m)
      /\ AreTypes(m.types)
      /\ \A k \in 1 .. Len(m.types) : Last(m.types[k]) \in BaseTypes
  BY <1>1, <1>2, <1>3, UnderWay
<1>5. PICK types : types = m.types  OBVIOUS
<1>6. PICK split : split = decoding.argTypes  OBVIOUS
<1>7. PICK s : s = decoding.argString  OBVIOUS
<1>8. PICK j : j = Len(split)  OBVIOUS
<1>9. /\ IsStack(split) /\ \A k \in 1 .. j : split[k] = types[k]
      /\ s = Rest(TypeBytes(types), j) /\ j <= Len(types)
  BY <1>4, <1>5, <1>6, <1>7, <1>8 DEF TypesSplit
<1>10. j \in 0 .. Len(types) /\ Len(types) \in Nat
  <2>1. Len(types) \in Nat  BY <1>4, <1>5, TypesWritten
  <2>2. j \in Nat  BY <1>8, <1>9 DEF IsStack
  <2> QED  BY <1>9, <2>1, <2>2
<1>11. s # <<>>  BY <1>7 DEF ParseType
<1>12. PICK type : type = types[j + 1]  OBVIOUS
<1>13. PICK l : l = TypeStringLength(type)  OBVIOUS
<1>14. /\ j < Len(types) /\ TypeFromString(s) = type /\ l <= Len(s)
       /\ SubSeq(s, l + 1, Len(s)) = Rest(TypeBytes(types), j + 1)
  BY <1>4, <1>5, <1>9, <1>10, <1>11, <1>12, <1>13, NextType
<1>15. PICK rest : rest = SubSeq(s, l + 1, Len(s))  OBVIOUS
<1>r. PICK r : r = decoding.retString  OBVIOUS
<1>16. decoding = [index |-> i, underWay |-> decoding.underWay, argString |-> s, retString |-> r,
                   argTypes |-> split]
  BY <1>1, <1>6, <1>7, <1>r DEF Decoder, Decoding, IsDecoding
<1>17. decoding' = [index |-> i, underWay |-> decoding.underWay, argString |-> rest,
                    retString |-> r, argTypes |-> Append(split, type)]
  <2>1. decoding' = [decoding EXCEPT !.argString = rest, !.argTypes = Append(split, type)]
    BY <1>6, <1>7, <1>13, <1>14, <1>15 DEF ParseType
  <2>2. PICK dec : dec = decoding  OBVIOUS
  <2>3. PICK b : b = decoding.underWay  OBVIOUS
  <2>4. PICK more : more = Append(split, type)  OBVIOUS
  <2>5. dec = [index |-> i, underWay |-> b, argString |-> s, retString |-> r, argTypes |-> split]
    BY <1>16, <2>2, <2>3
  <2>6. PICK new : new = [dec EXCEPT !.argString = rest]  OBVIOUS
  <2>7. new = [index |-> i, underWay |-> b, argString |-> rest, retString |-> r,
               argTypes |-> split]
    BY <2>5, <2>6
  <2>8. [new EXCEPT !.argTypes = more]
            = [index |-> i, underWay |-> b, argString |-> rest, retString |-> r,
               argTypes |-> more]
    BY <2>7
  <2>9. [dec EXCEPT !.argString = rest, !.argTypes = more]
            = [[dec EXCEPT !.argString = rest] EXCEPT !.argTypes = more]
    OBVIOUS
  <2> QED  BY <2>1, <2>2, <2>3, <2>4, <2>6, <2>8, <2>9
<1>18. PICK more : more = Append(split, type)  OBVIOUS
<1>19. /\ IsStack(more) /\ Len(more) = j + 1
       /\ \A k \in 1 .. j : more[k] = split[k]
       /\ more[j + 1] = type
  BY <1>8, <1>9, <1>18, AppendStack
<1>20. \A k \in 1 .. j + 1 : more[k] = types[k]
  <2>1. \A k \in 1 .. j + 1 : k \in 1 .. j \/ k = j + 1  BY <1>10
  <2> QED  BY <1>9, <1>12, <1>19, <2>1
<1>21. TypesSplit(m)'
  <2>1. decoding'.argTypes = more /\ decoding'.argString = rest /\ decoding'.retString = r
    BY <1>17, <1>18
  <2>2. j + 1 <= Len(types)  BY <1>10, <1>14
  <2>3. r = CharactersOf(m.result)  BY <1>4, <1>r DEF TypesSplit
  <2> QED  BY <1>5, <1>14, <1>15, <1>19, <1>20, <2>1, <2>2, <2>3 DEF TypesSplit
<1>22. Decoding(cf.methods)'
  <2>1. methods' = methods  BY DEF ParseType
  <2>2. AreDecoded(methods', cf.methods, i - 1)  BY <1>4, <2>1
  <2>3. i \in 0 .. Len(cf.methods) /\ i > 0  BY <1>4
  <2>4. decoding.underWay \in BOOLEAN  BY DEF Decoder, Decoding
  <2>5. decoding'.underWay = decoding.underWay /\ decoding'.index = i  BY <1>17
  <2>6. IsDecoding(decoding')  BY <1>17 DEF IsDecoding
  <2> QED  BY <1>2, <1>3, <1>21, <2>2, <2>3, <2>4, <2>5, <2>6 DEF Decoding
<1>23. outcome' = "parsed"
  <2>1. outcome' = outcome  BY <1>7, <1>13, <1>14 DEF ParseType
  <2> QED  BY <2>1 DEF Decoder
<1> QED  BY <1>22, <1>23 DEF DecodesOn

-----------------------------------------------------------------------------
(* The decoder finds every method.                                         *)

(* One method more, of a name that no other has.                           *)
LEMMA MethodEntered ==
    ASSUME NEW cf, IsClassFile(cf), Decodable(cf), NEW i \in 1 .. Len(cf.methods), NEW map,
           AreDecoded(map, cf.methods, i - 1), NEW m, m = cf.methods[i],
           NEW method, IsProgramMethod(m, method)
    PROVE  AreDecoded(Entered(map, m.nameIndex, method), cf.methods, i)
<1>1. PICK ms : ms = cf.methods  OBVIOUS
<1>2. DOMAIN ms = 1 .. Len(ms) /\ Len(ms) \in Nat  BY <1>1, KeptMethods
<1>3. PICK new : new = Entered(map, m.nameIndex, method)  OBVIOUS
<1>4. \A k \in 1 .. i : k = i \/ k \in 1 .. i - 1  BY <1>1, <1>2
<1>5. i \in 1 .. i /\ \A k \in 1 .. i - 1 : k \in 1 .. i  BY <1>1, <1>2
<1>6. DOMAIN new = DOMAIN map \cup {m.nameIndex}  BY <1>3 DEF Entered
<1>7. DOMAIN new = {ms[k].nameIndex : k \in 1 .. i}
  BY <1>1, <1>4, <1>5, <1>6 DEF AreDecoded
<1>8. new[m.nameIndex] = method  BY <1>3 DEF Entered
<1>9. ASSUME NEW k \in 1 .. i - 1
      PROVE  IsProgramMethod(ms[k], new[ms[k].nameIndex])
  <2>1. k \in DOMAIN ms /\ i \in DOMAIN ms /\ k # i  BY <1>1, <1>2
  <2>2. ms[k].nameIndex # m.nameIndex  BY <1>1, <2>1 DEF Decodable
  <2>3. ms[k].nameIndex \in DOMAIN map  BY <1>1 DEF AreDecoded
  <2>4. new[ms[k].nameIndex] = map[ms[k].nameIndex]  BY <1>3, <2>2, <2>3 DEF Entered
  <2>5. IsProgramMethod(ms[k], map[ms[k].nameIndex])  BY <1>1 DEF AreDecoded
  <2> QED  BY <2>4, <2>5
<1>10. \A k \in 1 .. i : IsProgramMethod(ms[k], new[ms[k].nameIndex])  BY <1>1, <1>4, <1>8, <1>9
<1> QED  BY <1>1, <1>3, <1>7, <1>10 DEF AreDecoded

LEMMA MethodAdded ==
    ASSUME NEW cf, Decoder(cf), AddMethod
    PROVE  DecodesOn(cf)
<1>1. PICK i : i = decoding.index  OBVIOUS
<1>2. PICK m : m = cf.methods[i]  OBVIOUS
<1>3. decoding.underWay /\ decoding.argString = <<>>  BY DEF AddMethod
<1>4. /\ i \in 1 .. Len(cf.methods) /\ Len(cf.methods) \in Nat
      /\ AreDecoded(methods, cf.methods, i - 1) /\ TypesSplit(m)
      /\ AreTypes(m.types) /\ TypeOK(m.result)
      /\ \A k \in 1 .. Len(m.types) : Last(m.types[k]) \in BaseTypes
      /\ classFile.methods[i] = KeptMember(m)
      /\ AttributeName.Code \in DOMAIN KeptMember(m).attributes
      /\ KeptMember(m).nameIndex = m.nameIndex
  BY <1>1, <1>2, <1>3, UnderWay
<1>5. PICK types : types = m.types  OBVIOUS
<1>6. PICK split : split = decoding.argTypes  OBVIOUS
<1>7. PICK j : j = Len(split)  OBVIOUS
<1>8. /\ IsStack(split) /\ \A k \in 1 .. j : split[k] = types[k]
      /\ <<>> = Rest(TypeBytes(types), j) /\ j <= Len(types)
  BY <1>3, <1>4, <1>5, <1>6, <1>7 DEF TypesSplit
<1>9. j \in 0 .. Len(types) /\ Len(types) \in Nat /\ IsStack(types)
  <2>1. Len(types) \in Nat /\ IsStack(types)  BY <1>4, <1>5, TypesWritten
  <2>2. j \in Nat  BY <1>7, <1>8 DEF IsStack
  <2> QED  BY <1>8, <2>1, <2>2
<1>10. split = types
  <2>1. j = Len(types)  BY <1>4, <1>5, <1>8, <1>9, NextType
  <2> QED  BY <1>7, <1>8, <1>9, <2>1, StackEqual
<1>12. PICK r : r = decoding.retString  OBVIOUS
<1>13. r = CharactersOf(m.result)  BY <1>4, <1>12 DEF TypesSplit
<1>14. Last(m.result) \in BaseTypes => TypeFromString(r) = m.result
  <2>1. <<>> \in Seq(Byte) /\ r \in Seq(Byte)
    <3>1. r \in Seq(TypeCharacters)  BY <1>4, <1>13, TypeWritten
    <3> QED  BY <3>1 DEF TypeCharacters
  <2>2. r \o <<>> = r  BY <2>1
  <2> QED  BY <1>4, <1>13, <2>1, <2>2, TypeWritten
<1>15. PICK method : method = [argTypes |-> split, retType |-> TypeFromString(r),
                               code |-> KeptMember(m).attributes[AttributeName.Code]]
  OBVIOUS
<1>16. IsProgramMethod(m, method)
  BY <1>5, <1>10, <1>14, <1>15 DEF IsProgramMethod
<1>17. PICK info : info = KeptMember(m)  OBVIOUS
<1>18. methods' = Entered(methods, m.nameIndex, method) /\ outcome' = outcome
  <2>1. /\ classFile.methods[decoding.index] = info
        /\ AttributeName.Code \in DOMAIN info.attributes /\ info.nameIndex = m.nameIndex
    BY <1>1, <1>4, <1>17
  <2>2. method = [argTypes |-> decoding.argTypes, retType |-> TypeFromString(r),
                  code |-> info.attributes[AttributeName.Code]]
    BY <1>6, <1>15, <1>17
  <2> QED  BY <1>12, <2>1, <2>2 DEF AddMethod
<1>19. AreDecoded(methods', cf.methods, i)
  <2>1. PICK map : map = methods  OBVIOUS
  <2>2. AreDecoded(Entered(map, m.nameIndex, method), cf.methods, i)
    BY <1>2, <1>4, <1>16, <2>1, MethodEntered DEF Decoder
  <2> QED  BY <1>18, <2>1, <2>2
<1>20. decoding' = [index |-> i, underWay |-> FALSE, argString |-> decoding.argString,
                    retString |-> r, argTypes |-> split]
  <2>1. PICK dec : dec = decoding  OBVIOUS
  <2>2. PICK b : b = decoding.underWay  OBVIOUS
  <2>3. PICK s : s = decoding.argString  OBVIOUS
  <2>4. dec = [index |-> i, underWay |-> b, argString |-> s, retString |-> r, argTypes |-> split]
    BY <1>1, <1>6, <1>12, <2>1, <2>2, <2>3 DEF Decoder, Decoding, IsDecoding
  <2>5. PICK f : f = FALSE  OBVIOUS
  <2>6. [dec EXCEPT !.underWay = f]
          = [index |-> i, underWay |-> f, argString |-> s, retString |-> r, argTypes |-> split]
    BY <2>4
  <2>7. decoding' = [dec EXCEPT !.underWay = f]  BY <2>1, <2>5 DEF AddMethod
  <2> QED  BY <2>3, <2>5, <2>6, <2>7
<1>21. Decoding(cf.methods)'
  <2>1. i \in 0 .. Len(cf.methods)  BY <1>4
  <2>2. IsDecoding(decoding') /\ decoding'.index = i /\ decoding'.underWay = FALSE
    BY <1>20 DEF IsDecoding
  <2> QED  BY <1>19, <2>1, <2>2 DEF Decoding
<1> QED  BY <1>18, <1>21 DEF DecodesOn, Decoder

(* A step of the decoder with a program's methods.                         *)
LEMMA DecodedOn == ParsedSoFar /\ DecodedSoFar /\ [Next]_vars => DecodedSoFar'
<1> SUFFICES ASSUME ParsedSoFar, DecodedSoFar, [Next]_vars,
                    (Readable(written) /\ Decodable(written))'
             PROVE  /\ outcome' \in {"parsing", "parsed", "decoded"} /\ Decoding(written.methods)'
                    /\ outcome' = "decoded" =>
                        ~decoding'.underWay /\ decoding'.index = Len(written.methods)'
  BY DEF DecodedSoFar
<1>c. PICK cf : cf = written  OBVIOUS
<1>1. written' = written
  <2>1. CASE ParserNext  BY <2>1, FileStays
  <2>2. CASE StartMethod \/ MethodFails \/ ParseType \/ AddMethod \/ ReturnProgram
    BY <2>2, DecoderSteps
  <2> QED  BY <2>1, <2>2 DEF Next, Stop, vars
<1>2. /\ Readable(written) /\ Decodable(written) /\ Readable(cf) /\ Decodable(cf)
      /\ written \in ClassFiles /\ IsClassFile(cf)
  BY <1>1, <1>c, WellFormedFiles DEF ParsedSoFar, Readable, Decodable
<1>3. /\ outcome \in {"parsing", "parsed", "decoded"} /\ Decoding(cf.methods)
      /\ outcome = "decoded" => ~decoding.underWay /\ decoding.index = Len(cf.methods)
  BY <1>2, <1>c DEF DecodedSoFar
<1>4. ASSUME UNCHANGED <<methods, decoding>> PROVE Decoding(cf.methods)'
  BY <1>3, <1>4 DEF Decoding, TypesSplit
<1>5. CASE ParserNext /\ UNCHANGED <<methods, decoding>>
  BY <1>1, <1>2, <1>4, <1>5, <1>c, ReadableStep
<1>6. CASE StartMethod \/ MethodFails \/ ParseType \/ AddMethod
  <2>1. outcome = "parsed"  BY <1>6, DecoderSteps
  <2>2. Decoder(cf)  BY <1>2, <1>3, <1>c, <2>1 DEF Decoder, ParsedSoFar
  <2>3. DecodesOn(cf)  BY <1>6, <2>2, MethodStarts, DescriptorMatches, TypeParsed, MethodAdded
  <2> QED  BY <1>1, <1>c, <2>3 DEF DecodesOn
<1>7. CASE ReturnProgram
  <2>1. /\ outcome = "parsed" /\ outcome' = "decoded" /\ ~decoding.underWay
        /\ decoding.index + 1 > Len(classFile.methods) /\ UNCHANGED <<methods, decoding>>
    BY <1>7 DEF ReturnProgram, NextMethod
  <2>2. PICK class : class = classFile  OBVIOUS
  <2>3. Len(class.methods) = Len(cf.methods) /\ Len(cf.methods) \in Nat
    BY <1>2, <1>c, <2>1, <2>2, KeptMethods DEF ParsedSoFar
  <2>4. decoding.index = Len(cf.methods)  BY <1>3, <2>1, <2>2, <2>3 DEF Decoding
  <2> QED  BY <1>1, <1>4, <1>c, <2>1, <2>4
<1>8. CASE UNCHANGED vars
  BY <1>1, <1>3, <1>4, <1>8, <1>c DEF vars
<1> QED  BY <1>5, <1>6, <1>7, <1>8 DEF Next, Stop

LEMMA StartsDecoding == DecoderInit => DecodedSoFar
<1> SUFFICES ASSUME DecoderInit, Readable(written), Decodable(written)
             PROVE  outcome = "parsing" /\ Decoding(written.methods)
  BY DEF DecodedSoFar
<1>1. IsClassFile(written)  BY WellFormedFiles DEF DecoderInit, ParserInit
<1>2. PICK cf : cf = written  OBVIOUS
<1>3. Len(cf.methods) \in Nat  BY <1>1, <1>2, KeptMethods
<1>4. /\ decoding = [index |-> 0, underWay |-> FALSE, argString |-> <<>>, retString |-> <<>>,
                      argTypes |-> <<>>]
      /\ methods = <<>> /\ outcome = "parsing"
  BY DEF DecoderInit, ParserInit
<1>5. AreDecoded(methods, cf.methods, 0)  BY <1>4 DEF AreDecoded
<1> QED  BY <1>2, <1>3, <1>4, <1>5 DEF Decoding, IsDecoding

(* A readable class whose methods fit in a program is loaded.              *)
LEMMA LoadedSoFar == Spec => [](ParsedSoFar /\ DecodedSoFar)
BY StartsParsing, StartsDecoding, ParsedOn, DecodedOn, PTL DEF Spec

(* Loading a readable class whose methods have different names never ends   *)
(* in an abort or in a throw.                                               *)
THEOREM Loaded == Spec => []ReadableIsLoaded
<1>1. DecodedSoFar => ReadableIsLoaded  BY DEF DecodedSoFar, ReadableIsLoaded
<1> QED  BY <1>1, LoadedSoFar, PTL

(* The program has the methods of the class, each with the parameters and   *)
(* the result that its descriptor was written with.                         *)
THEOREM MethodsFound == Spec => []MethodsAsWritten
<1>1. ParsedSoFar /\ DecodedSoFar => MethodsAsWritten
  <2> SUFFICES ASSUME ParsedSoFar, DecodedSoFar, Readable(written), Decodable(written),
                      outcome = "decoded"
               PROVE  /\ DOMAIN methods = {m.nameIndex : m \in Range(written.methods)}
                      /\ \A m \in Range(written.methods) :
                            IsProgramMethod(m, methods[m.nameIndex])
    BY DEF MethodsAsWritten, IsProgramMethod
  <2>1. PICK cf : cf = written  OBVIOUS
  <2>2. IsClassFile(cf)  BY <2>1, WellFormedFiles DEF ParsedSoFar
  <2>3. DOMAIN cf.methods = 1 .. Len(cf.methods)  BY <2>2, KeptMethods
  <2>4. AreDecoded(methods, cf.methods, Len(cf.methods))
    BY <2>1 DEF DecodedSoFar, Decoding
  <2> QED  BY <2>1, <2>3, <2>4 DEF AreDecoded, Range
<1> QED  BY <1>1, LoadedSoFar, PTL

-----------------------------------------------------------------------------
(* What is known of every file.                                            *)

(* What is known of every file.  The loops under way fit those that called *)
(* them, and the section of the class file they belong to.                 *)
SectionOf == [constants |-> 1, fields |-> 3, methods |-> 4, attributes |-> 5]

Fits(lower, upper, class) ==
    /\ lower.do \in CallersOf(upper.do)
    /\ upper.do \in {"fields", "methods"} => Len(class[upper.do]) = upper.i
    /\ upper.do = "constants" => upper.i > 0
    /\ upper.do \in Tables => lower.name = AttributeName[upper.do]
    /\ upper.do = "attributes" /\ lower.do = "attributes" =>
        lower.name = AttributeName.Code /\ Len(lower.body) = 1
    /\ upper.do = "attributes" /\ lower.do \in {"fields", "methods"} => lower.i > 0
    /\ lower.do = "parse" => lower.i = SectionOf[upper.do]

LoopsFit(ts, class) ==
    /\ Len(ts) > 0 /\ ts[1].do = "parse" /\ ts[1].i \in 0 .. 5 /\ (Len(ts) = 1 => ts[1].i < 5)
    /\ \A k \in 2 .. Len(ts) : Fits(ts[k - 1], ts[k], class)
    /\ ts[1].i <= 2 => Len(class.fields) = 0
    /\ ts[1].i <= 3 => Len(class.methods) = 0

(* An attribute that will be skipped has not been read beyond its end.     *)
NotBeyond(t, at) ==
    t.do = "attributes" /\ t.name \notin KnownNames \cup {NoName} => at <= t.bodyEnd

TasksOK(ts) == IsStack(ts) /\ \A k \in 1 .. Len(ts) : IsTask(ts[k])

IsPool(pool) ==
    /\ DOMAIN pool \subseteq Nat \ {0}
    /\ \A index \in DOMAIN pool : pool[index] \in [kind : Kinds, values : Seq(Half)]

AreMembers(ms) == IsStack(ms) /\ \A k \in 1 .. Len(ms) : IsMember(ms[k])

ClassShape(class) ==
    /\ class = [version |-> class.version, access |-> class.access,
                constantPool |-> class.constantPool, interfaces |-> class.interfaces,
                fields |-> class.fields, methods |-> class.methods, attributes |-> class.attributes]
    /\ IsPool(class.constantPool) /\ AreMembers(class.fields) /\ AreMembers(class.methods)

ParserOK ==
    /\ FileOK /\ outcome \in Outcomes /\ cursor \in Nat /\ TasksOK(tasks) /\ ClassShape(classFile)
    /\ outcome \in {"parsed", "decoded"} => tasks = <<>>
    /\ outcome = "parsing" => LoopsFit(tasks, classFile) /\ NotBeyond(Top, cursor)

DecoderOK ==
    /\ DOMAIN methods \subseteq Half
    /\ IsDecoding(decoding)
    /\ decoding.index \in Nat
    /\ decoding.underWay => decoding.index \in 1 .. Len(classFile.methods)
    /\ outcome = "parsing" => ~decoding.underWay

-----------------------------------------------------------------------------
(* Loops that fit stay so: turns and calls.                                *)

LEMMA CallersNamed ==
    /\ \A do \in Loops : CallersOf(do) \subseteq {"parse", "fields", "methods", "attributes"}
    /\ CallersOf("parse") = {} /\ CallersOf("constants") = {"parse"}
    /\ CallersOf("fields") = {"parse"} /\ CallersOf("methods") = {"parse"}
    /\ CallersOf("StackMapTable") = {"attributes"} /\ CallersOf("BootstrapMethods") = {"attributes"}
    /\ CallersOf("attributes") = {"parse", "fields", "methods", "attributes"}
    /\ Tables = {"StackMapTable", "BootstrapMethods"}
    /\ SectionOf["constants"] = 1 /\ SectionOf["fields"] = 3 /\ SectionOf["methods"] = 4
    /\ SectionOf["attributes"] = 5
BY DEF CallersOf, Tables, Loops, SectionOf

(* How deep each loop is.                                                  *)
LEMMA LoopDepth ==
    ASSUME NEW ts, TasksOK(ts), NEW class, LoopsFit(ts, class), NEW n, n = Len(ts)
    PROVE  /\ n \in Nat /\ n > 0 /\ IsStack(ts)
           /\ \A k \in 1 .. n : IsTask(ts[k]) /\ ts[k].do \in Loops
           /\ \A k \in 2 .. n : ts[k].do # "parse"
           /\ \A k \in 1 .. n : ts[k].do \in {"constants", "fields", "methods"} => k = 2
<1>1. n \in Nat /\ n > 0 /\ IsStack(ts)  BY DEF TasksOK, LoopsFit, IsStack
<1>2. \A k \in 1 .. n : IsTask(ts[k]) /\ ts[k].do \in Loops  BY DEF TasksOK, IsTask
<1>3. \A k \in 2 .. n : ts[k - 1].do \in CallersOf(ts[k].do)  BY DEF LoopsFit, Fits
<1>4. \A k \in 2 .. n : ts[k].do # "parse"  BY <1>3, CallersNamed
<1>5. ASSUME NEW k \in 1 .. n, ts[k].do \in {"constants", "fields", "methods"} PROVE k = 2
  <2>1. k # 1  BY <1>5 DEF LoopsFit
  <2>2. k \in 2 .. n  BY <2>1, <1>1
  <2>3. ts[k - 1].do = "parse"  BY <1>3, <1>5, <2>2, CallersNamed
  <2>4. k - 1 \notin 2 .. n  BY <1>4, <2>3
  <2> QED  BY <1>1, <2>2, <2>4
<1> QED  BY <1>1, <1>2, <1>4, <1>5

(* Loops fit as before up to the m-th, which has gone on.                  *)
GoneOn(ts, class, m, ts2, class2) ==
    /\ m \in 1 .. Len(ts) /\ \A k \in 1 .. m - 1 : ts2[k] = ts[k]
    /\ ts2[m].do = ts[m].do
    /\ ts2[m].do \in {"fields", "methods"} => Len(class2[ts2[m].do]) = ts2[m].i
    /\ ts2[m].do = "constants" => ts2[m].i > 0
    /\ \A do \in {"fields", "methods"} : do # ts2[m].do => Len(class2[do]) = Len(class[do])

FitUpTo(m, ts, class) == \A k \in 2 .. m : Fits(ts[k - 1], ts[k], class)

LEMMA FitsBelow ==
    ASSUME NEW ts, TasksOK(ts), NEW class, LoopsFit(ts, class), NEW m,
           NEW ts2, NEW class2, GoneOn(ts, class, m, ts2, class2)
    PROVE  FitUpTo(m, ts2, class2)
<1>t. PICK t : t = ts2[m]  OBVIOUS
<1>m. /\ m \in 1 .. Len(ts) /\ \A k \in 1 .. m - 1 : ts2[k] = ts[k]
      /\ t.do = ts[m].do
      /\ t.do \in {"fields", "methods"} => Len(class2[t.do]) = t.i
      /\ t.do = "constants" => t.i > 0
      /\ \A do \in {"fields", "methods"} : do # t.do => Len(class2[do]) = Len(class[do])
  BY <1>t DEF GoneOn
<1>0. PICK n : n = Len(ts)  OBVIOUS
<1>1. n \in Nat /\ \A k \in 1 .. n : ts[k].do \in {"constants", "fields", "methods"} => k = 2
  BY <1>0, LoopDepth
<1>2. ASSUME NEW k \in 2 .. m PROVE Fits(ts2[k - 1], ts2[k], class2)
  <2>1. k - 1 \in 1 .. m - 1 /\ k \in 2 .. n /\ m \in 1 .. n  BY <1>0, <1>1, <1>m
  <2>2. Fits(ts[k - 1], ts[k], class)  BY <1>0, <2>1 DEF LoopsFit
  <2>3. PICK lower : lower = ts[k - 1]  OBVIOUS
  <2>4. ts2[k - 1] = lower  BY <1>m, <2>1, <2>3
  <2>5. CASE k = m
    <3>1. PICK upper : upper = ts[m]  OBVIOUS
    <3>2. Fits(lower, upper, class)  BY <2>2, <2>3, <2>5, <3>1
    <3>3. t.do = upper.do  BY <1>m, <3>1
    <3>4. Fits(lower, t, class2)  BY <1>m, <3>2, <3>3 DEF Fits
    <3> QED  BY <1>t, <2>4, <2>5, <3>4
  <2>6. CASE k # m
    <3>1. k \in 1 .. m - 1 /\ k \in 1 .. n  BY <2>1, <2>6
    <3>2. PICK upper : upper = ts[k]  OBVIOUS
    <3>3. Fits(lower, upper, class) /\ ts2[k] = upper  BY <1>m, <2>2, <2>3, <3>1, <3>2
    <3>4. upper.do \in {"fields", "methods"} => upper.do # t.do
      <4>1. ASSUME upper.do \in {"fields", "methods"}, upper.do = t.do PROVE FALSE
        <5>1. k = 2 /\ m = 2  BY <1>1, <1>m, <2>1, <3>1, <3>2, <4>1
        <5> QED  BY <2>6, <5>1
      <4> QED  BY <4>1
    <3>5. upper.do \in {"fields", "methods"} => Len(class2[upper.do]) = Len(class[upper.do])
      BY <1>m, <3>4
    <3>6. Fits(lower, upper, class2)  BY <3>3, <3>5 DEF Fits
    <3> QED  BY <2>4, <3>3, <3>6
  <2> QED  BY <2>5, <2>6
<1> QED  BY <1>2 DEF FitUpTo

(* The innermost loop goes on.                                             *)
MayTurn(ts, class, t, class2) ==
    /\ IsTask(t) /\ t.do = ts[Len(ts)].do /\ t.do \notin {"parse", "fields", "methods"}
    /\ t.do = "constants" => t.i > 0
    /\ Len(class2.fields) = Len(class.fields) /\ Len(class2.methods) = Len(class.methods)

Turned(ts, t, ts2) ==
    LET n == Len(ts)
    IN  /\ IsStack(ts2) /\ Len(ts2) = n /\ ts2[n] = t
        /\ \A k \in 1 .. n - 1 : ts2[k] = ts[k]

LEMMA TurnFits ==
    ASSUME NEW ts, TasksOK(ts), NEW class, LoopsFit(ts, class),
           NEW t, NEW class2, MayTurn(ts, class, t, class2), NEW ts2, Turned(ts, t, ts2)
    PROVE  TasksOK(ts2) /\ LoopsFit(ts2, class2)
<1>n. PICK n : n = Len(ts)  OBVIOUS
<1>m. /\ IsTask(t) /\ t.do = ts[n].do /\ t.do \notin {"parse", "fields", "methods"}
      /\ t.do = "constants" => t.i > 0
      /\ Len(class2.fields) = Len(class.fields) /\ Len(class2.methods) = Len(class.methods)
  BY <1>n DEF MayTurn
<1>c. /\ IsStack(ts2) /\ Len(ts2) = n /\ ts2[n] = t
      /\ \A k \in 1 .. n - 1 : ts2[k] = ts[k]
  BY <1>n DEF Turned
<1> USE <1>n, <1>m, <1>c
<1>1. n \in Nat /\ n > 0 /\ IsStack(ts) /\ \A k \in 1 .. n : IsTask(ts[k])  BY LoopDepth
<1>2. n \in 1 .. Len(ts)  BY <1>1
<1>4. \A k \in 1 .. n : IsTask(ts2[k])
  <2>1. \A k \in 1 .. n : k = n \/ k \in 1 .. n - 1  BY <1>1
  <2> QED  BY <1>1, <2>1
<1>5. n # 1 /\ ts[1].do = "parse"  BY DEF LoopsFit
<1>6. ts2[1] = ts[1]  BY <1>1, <1>5
<1>8. \A do \in {"fields", "methods"} : do # t.do => Len(class2[do]) = Len(class[do])  OBVIOUS
<1>9. \A k \in 2 .. n : Fits(ts2[k - 1], ts2[k], class2)
  <2>1. GoneOn(ts, class, n, ts2, class2)  BY <1>2, <1>8 DEF GoneOn
  <2> QED  BY <2>1, FitsBelow DEF FitUpTo
<1>10. LoopsFit(ts2, class2)  BY <1>1, <1>5, <1>6, <1>9 DEF LoopsFit
<1> QED  BY <1>4, <1>10 DEF TasksOK

(* A call.                                                                 *)
MayCall(ts, class, t, u, class2) ==
    LET n == Len(ts)
    IN  /\ IsTask(t) /\ IsTask(u) /\ t.do = ts[n].do /\ Fits(t, u, class2) /\ t.do # "constants"
        /\ t.do \in {"fields", "methods"} => Len(class2[t.do]) = t.i
        /\ \A do \in {"fields", "methods"} : do # t.do => Len(class2[do]) = Len(class[do])
        /\ t.do = "parse" => /\ t.i \in 1 .. 5 /\ (t.i <= 2 => Len(class.fields) = 0)
                             /\ (t.i <= 3 => Len(class.methods) = 0)

Called(ts, t, u, ts2) ==
    LET n == Len(ts)
    IN  /\ IsStack(ts2) /\ Len(ts2) = n + 1 /\ ts2[n] = t /\ ts2[n + 1] = u
        /\ \A k \in 1 .. n - 1 : ts2[k] = ts[k]

LEMMA CallFits ==
    ASSUME NEW ts, TasksOK(ts), NEW class, LoopsFit(ts, class),
           NEW t, NEW u, NEW class2, MayCall(ts, class, t, u, class2),
           NEW ts2, Called(ts, t, u, ts2)
    PROVE  TasksOK(ts2) /\ LoopsFit(ts2, class2)
<1>n. PICK n : n = Len(ts)  OBVIOUS
<1>m. /\ IsTask(t) /\ IsTask(u) /\ t.do = ts[n].do /\ Fits(t, u, class2) /\ t.do # "constants"
      /\ t.do \in {"fields", "methods"} => Len(class2[t.do]) = t.i
      /\ \A do \in {"fields", "methods"} : do # t.do => Len(class2[do]) = Len(class[do])
      /\ t.do = "parse" => /\ t.i \in 1 .. 5 /\ (t.i <= 2 => Len(class.fields) = 0)
                           /\ (t.i <= 3 => Len(class.methods) = 0)
  BY <1>n DEF MayCall
<1>c. /\ IsStack(ts2) /\ Len(ts2) = n + 1 /\ ts2[n] = t /\ ts2[n + 1] = u
      /\ \A k \in 1 .. n - 1 : ts2[k] = ts[k]
  BY <1>n DEF Called
<1> USE <1>n, <1>m, <1>c
<1>1. n \in Nat /\ n > 0 /\ IsStack(ts) /\ \A k \in 1 .. n : IsTask(ts[k])  BY LoopDepth
<1>2. n \in 1 .. Len(ts)  BY <1>1
<1>d. \A k \in 1 .. n + 1 : k = n + 1 \/ k = n \/ k \in 1 .. n - 1  BY <1>1
<1>4. \A k \in 1 .. n + 1 : IsTask(ts2[k])
  <2>1. \A k \in 1 .. n - 1 : k \in 1 .. n  BY <1>1
  <2> QED  BY <1>1, <1>d, <2>1
<1>9. \A k \in 2 .. n : Fits(ts2[k - 1], ts2[k], class2)
  <2>1. GoneOn(ts, class, n, ts2, class2)  BY <1>2 DEF GoneOn
  <2> QED  BY <2>1, FitsBelow DEF FitUpTo
<1>5. \A k \in 2 .. n + 1 : Fits(ts2[k - 1], ts2[k], class2)
  <2>1. \A k \in 2 .. n + 1 : k \in 2 .. n \/ (k = n + 1 /\ k - 1 = n)  BY <1>1
  <2>2. Fits(ts2[n], ts2[n + 1], class2)  OBVIOUS
  <2> QED  BY <1>9, <2>1, <2>2
<1>6. ts[1].do = "parse" /\ ts[1].i \in 0 .. 5 /\ (ts[1].i <= 2 => Len(class.fields) = 0)
      /\ (ts[1].i <= 3 => Len(class.methods) = 0)
  BY DEF LoopsFit
<1>7. /\ ts2[1].do = "parse" /\ ts2[1].i \in 0 .. 5 /\ (ts2[1].i <= 2 => Len(class2.fields) = 0)
      /\ (ts2[1].i <= 3 => Len(class2.methods) = 0)
  <2>1. CASE n = 1
    <3>1. ts2[1] = t /\ t.do = "parse"  BY <1>6, <2>1
    <3>2. Len(class2.fields) = Len(class.fields) /\ Len(class2.methods) = Len(class.methods)
      BY <3>1
    <3> QED  BY <3>1, <3>2
  <2>2. CASE n # 1
    <3>1. ts2[1] = ts[1]  BY <1>1, <2>2
    <3>2. PICK lower : lower = ts[1]  OBVIOUS
    <3>3. t.do \in {"fields", "methods"} =>
            n = 2 /\ lower.i = SectionOf[t.do]
      <4> SUFFICES ASSUME t.do \in {"fields", "methods"} PROVE n = 2 /\ lower.i = SectionOf[t.do]
        OBVIOUS
      <4>1. n = 2  BY <1>2, LoopDepth
      <4>2. Fits(ts[1], ts[2], class)  BY <4>1 DEF LoopsFit
      <4>3. lower.i = SectionOf[ts[2].do]  BY <1>6, <3>2, <4>2 DEF Fits
      <4> QED  BY <4>1, <4>3
    <3>4. t.do = "fields" => lower.i = 3  BY <3>3, CallersNamed
    <3>5. t.do = "methods" => lower.i = 4  BY <3>3, CallersNamed
    <3>6. lower.i <= 2 => Len(class2.fields) = 0
      <4>1. lower.i <= 2 => "fields" # t.do  BY <3>4
      <4> QED  BY <1>6, <3>2, <4>1
    <3>7. lower.i <= 3 => Len(class2.methods) = 0
      <4>1. lower.i <= 3 => "methods" # t.do  BY <3>5
      <4> QED  BY <1>6, <3>2, <4>1
    <3> QED  BY <1>6, <3>1, <3>2, <3>6, <3>7
  <2> QED  BY <2>1, <2>2
<1>8. LoopsFit(ts2, class2)
  <2>1. Len(ts2) > 0 /\ Len(ts2) # 1  BY <1>1
  <2> QED  BY <1>5, <1>7, <2>1 DEF LoopsFit
<1> QED  BY <1>4, <1>8 DEF TasksOK

-----------------------------------------------------------------------------
(* Loops that fit stay so: returns.                                        *)

(* A return.                                                               *)
MayReturn(ts, class, t, class2) ==
    LET n == Len(ts) - 1
    IN  /\ n > 0 /\ IsTask(t) /\ t.do = ts[n].do
        /\ t.do \in {"fields", "methods"} => t.i = ts[n].i
        /\ n = 1 => t.i = ts[1].i /\ t.i < 5
        /\ Len(class2.fields) = Len(class.fields) /\ Len(class2.methods) = Len(class.methods)

Returned(ts, t, ts2) ==
    LET n == Len(ts) - 1
    IN  /\ IsStack(ts2) /\ Len(ts2) = n /\ ts2[n] = t
        /\ \A k \in 1 .. n - 1 : ts2[k] = ts[k]

LEMMA ReturnFits ==
    ASSUME NEW ts, TasksOK(ts), NEW class, LoopsFit(ts, class),
           NEW t, NEW class2, MayReturn(ts, class, t, class2), NEW ts2, Returned(ts, t, ts2)
    PROVE  TasksOK(ts2) /\ LoopsFit(ts2, class2)
<1>l. PICK l \in Nat : l = Len(ts)  BY DEF TasksOK, IsStack
<1>n. PICK n : n = l - 1  OBVIOUS
<1>m. /\ n > 0 /\ IsTask(t) /\ t.do = ts[n].do
      /\ t.do \in {"fields", "methods"} => t.i = ts[n].i
      /\ n = 1 => t.i = ts[1].i /\ t.i < 5
      /\ Len(class2.fields) = Len(class.fields) /\ Len(class2.methods) = Len(class.methods)
  BY <1>l, <1>n DEF MayReturn
<1>c. /\ IsStack(ts2) /\ Len(ts2) = n /\ ts2[n] = t
      /\ \A k \in 1 .. n - 1 : ts2[k] = ts[k]
  BY <1>l, <1>n DEF Returned
<1>o. n \in Nat /\ l = n + 1  BY <1>l, <1>m, <1>n
<1> USE <1>l, <1>m, <1>c, <1>o
<1>1. IsStack(ts) /\ \A k \in 1 .. l : IsTask(ts[k])  BY LoopDepth
<1>2. \A k \in 1 .. n : k \in 1 .. l /\ (k = n \/ k \in 1 .. n - 1)  OBVIOUS
<1>3. \A k \in 1 .. n : IsTask(ts2[k])  BY <1>1, <1>2
<1>4. PICK lower : lower = ts[n]  OBVIOUS
<1>5. PICK upper : upper = ts[l]  OBVIOUS
<1>6. Fits(lower, upper, class)
  <2>1. l \in 2 .. Len(ts) /\ l - 1 = n  OBVIOUS
  <2> QED  BY <1>4, <1>5, <2>1 DEF LoopsFit
<1>7. lower.do # "constants"
  <2>1. IsTask(upper)
    <3>1. l \in 1 .. l  OBVIOUS
    <3> QED  BY <1>1, <1>5, <3>1
  <2>2. upper.do \in Loops  BY <2>1 DEF IsTask
  <2> QED  BY <1>6, <2>2, CallersNamed DEF Fits
<1>8. lower.do \in {"fields", "methods"} => Len(class[lower.do]) = lower.i
  <2> SUFFICES ASSUME lower.do \in {"fields", "methods"} PROVE Len(class[lower.do]) = lower.i
    OBVIOUS
  <2>1. n \in 1 .. l /\ n = 2 /\ 2 \in 2 .. l
    <3>1. n \in 1 .. l  OBVIOUS
    <3>2. ts[n].do \in {"constants", "fields", "methods"} => n = 2
      BY <1>l, <3>1, LoopDepth
    <3>3. n = 2  BY <1>4, <3>2
    <3> QED  BY <3>1, <3>3
  <2>2. Fits(ts[1], ts[2], class)  BY <2>1 DEF LoopsFit
  <2>3. Fits(ts[1], lower, class)  BY <1>4, <2>1, <2>2
  <2> QED  BY <2>3 DEF Fits
<1>9. GoneOn(ts, class, n, ts2, class2)
  <2>1. n \in 1 .. Len(ts)  OBVIOUS
  <2>2. t.do \in {"fields", "methods"} => Len(class2[t.do]) = t.i  BY <1>4, <1>8
  <2> QED  BY <1>4, <1>7, <2>1, <2>2 DEF GoneOn
<1>10. FitUpTo(n, ts2, class2)  BY <1>9, FitsBelow
<1>11. ts2[1].do = "parse" /\ ts2[1].i = ts[1].i /\ (n = 1 => ts2[1].i < 5)
  <2>1. ts[1].do = "parse"  BY DEF LoopsFit
  <2> QED  BY <2>1
<1>12. LoopsFit(ts2, class2)  BY <1>10, <1>11 DEF LoopsFit, FitUpTo
<1> QED  BY <1>3, <1>12 DEF TasksOK

-----------------------------------------------------------------------------
(* What is read is in range, whatever the file.                            *)
LEMMA NumbersRead ==
    ASSUME FileOK, NEW at \in Nat
    PROVE  /\ ByteAt(at) \in Byte /\ ByteAt(at) \in Half /\ ByteAt(at) \in Nat
           /\ U2At(at) \in Half /\ U2At(at) \in Nat
           /\ U4At(at) \in Nat /\ AttributeEnd(at) \in Nat /\ at + 6 <= AttributeEnd(at)
<1>1. \A k \in Nat : ByteAt(k) \in Byte
  <2> SUFFICES ASSUME NEW k \in Nat PROVE ByteAt(k) \in Byte  OBVIOUS
  <2>1. 0 \in Byte  BY DEF Byte
  <2>2. Len(file) \in Nat /\ \A j \in 1 .. Len(file) : file[j] \in Byte  BY DEF FileOK
  <2>3. k < Len(file) => k + 1 \in 1 .. Len(file)  BY <2>2
  <2> QED  BY <2>1, <2>2, <2>3 DEF ByteAt
<1>2. \A k \in Nat : U2At(k) \in Half /\ U2At(k) \in Nat
  <2> SUFFICES ASSUME NEW k \in Nat PROVE U2At(k) \in Half /\ U2At(k) \in Nat  OBVIOUS
  <2>1. PICK a : a = ByteAt(k)  OBVIOUS
  <2>2. PICK b : b = ByteAt(k + 1)  OBVIOUS
  <2>3. a \in Nat /\ a < 256 /\ b \in Nat /\ b < 256  BY <1>1, <2>1, <2>2 DEF Byte
  <2>4. U2At(k) = 256 * a + b  BY <2>1, <2>2 DEF U2At
  <2> QED  BY <2>3, <2>4 DEF Half
<1>3. \A k \in Nat : U4At(k) \in Nat
  <2> SUFFICES ASSUME NEW k \in Nat PROVE U4At(k) \in Nat  OBVIOUS
  <2>1. PICK a \in Nat : a = U2At(k)  BY <1>2
  <2>2. PICK b \in Nat : b = U2At(k + 2)  BY <1>2
  <2> QED  BY <2>1, <2>2 DEF U4At
<1>4. PICK e \in Nat : e = U4At(at + 2)  BY <1>3
<1>5. AttributeEnd(at) = at + 6 + e  BY <1>4 DEF AttributeEnd
<1>6. ByteAt(at) \in Half /\ ByteAt(at) \in Nat  BY <1>1 DEF Byte, Half
<1> QED  BY <1>1, <1>2, <1>3, <1>4, <1>5, <1>6

LEMMA SequencesRead ==
    ASSUME FileOK, NEW at \in Nat, NEW n \in Nat
    PROVE  HalvesAt(at, n) \in Seq(Half) /\ BytesAt(at, n) \in Seq(Half)
<1>1. PICK b \in Nat : b = Bounded(n)  BY LenOfFile DEF Bounded
<1>2. ASSUME NEW S, NEW f, f = [k \in 1 .. b |-> f[k]], \A k \in 1 .. b : f[k] \in S
      PROVE  f \in Seq(S)
  BY <1>2, ComputedStack, SeqOfStack
<1>3. PICK h : h = HalvesAt(at, n)  OBVIOUS
<1>4. h = [k \in 1 .. b |-> U2At(at + 2 * (k - 1))]  BY <1>1, <1>3 DEF HalvesAt
<1>5. \A k \in 1 .. b : h[k] \in Half
  <2> SUFFICES ASSUME NEW k \in 1 .. b PROVE h[k] \in Half  OBVIOUS
  <2>1. at + 2 * (k - 1) \in Nat  OBVIOUS
  <2>2. U2At(at + 2 * (k - 1)) \in Half  BY <2>1, NumbersRead
  <2> QED  BY <1>4, <2>2
<1>6. h = [k \in 1 .. b |-> h[k]]  BY <1>4
<1>7. h \in Seq(Half)  BY <1>2, <1>5, <1>6
<1>8. PICK c : c = BytesAt(at, n)  OBVIOUS
<1>9. c = [k \in 1 .. b |-> ByteAt(at + k - 1)]  BY <1>1, <1>8 DEF BytesAt
<1>10. \A k \in 1 .. b : c[k] \in Half
  <2> SUFFICES ASSUME NEW k \in 1 .. b PROVE c[k] \in Half  OBVIOUS
  <2>1. at + k - 1 \in Nat  OBVIOUS
  <2>2. ByteAt(at + k - 1) \in Half  BY <2>1, NumbersRead
  <2> QED  BY <1>9, <2>2
<1>11. c = [k \in 1 .. b |-> c[k]]  BY <1>9
<1>12. c \in Seq(Half)  BY <1>2, <1>10, <1>11
<1> QED  BY <1>3, <1>7, <1>8, <1>12

LEMMA ConstantRead ==
    ASSUME FileOK, NEW at \in Nat, NEW kind, kind = KindOf(ByteAt(at))
    PROVE  /\ kind # "unrecognized" => ConstantAt(at, kind) \in [kind : Kinds, values : Seq(Half)]
           /\ ConstantWidth(at, kind) \in Nat /\ ConstantWidth(at, kind) >= 1
<1>1. kind \in Kinds \cup {"unrecognized"}
  <2>1. \A x \in KindsOf(ByteAt(at)) : x \in Kinds  BY DEF KindsOf
  <2> QED  BY <2>1 DEF KindOf
<1>2. \A k \in Kinds \ {"Utf8", "MethodHandle"} : HalvesOf(k) \in 1 .. 4  BY Tags
<1>3. U2At(at + 1) \in Nat /\ U2At(at + 2) \in Half /\ ByteAt(at + 1) \in Half  BY SMTT(20), NumbersRead
<1>4. PICK w \in Nat : w = U2At(at + 1)  BY <1>3
<1>5. ASSUME kind # "unrecognized"
      PROVE  ConstantAt(at, kind) \in [kind : Kinds, values : Seq(Half)]
  <2>1. kind \in Kinds  BY <1>1, <1>5
  <2>2. PICK values : values = CASE kind = "Utf8"         -> BytesAt(at + 3, U2At(at + 1))
                                 [] kind = "MethodHandle" -> <<ByteAt(at + 1), U2At(at + 2)>>
                                 [] OTHER                 -> HalvesAt(at + 1, HalvesOf(kind))
    OBVIOUS
  <2>3. ConstantAt(at, kind) = [kind |-> kind, values |-> values]  BY <2>2 DEF ConstantAt
  <2>4. CASE kind = "Utf8"
    <3>1. BytesAt(at + 3, U2At(at + 1)) \in Seq(Half)  BY <1>3, SequencesRead
    <3> QED  BY <2>1, <2>2, <2>3, <2>4, <3>1
  <2>5. CASE kind = "MethodHandle"
    <3>1. <<ByteAt(at + 1), U2At(at + 2)>> \in Seq(Half)  BY <1>3
    <3> QED  BY <2>1, <2>2, <2>3, <2>5, <3>1
  <2>6. CASE kind \notin {"Utf8", "MethodHandle"}
    <3>1. HalvesOf(kind) \in Nat  BY <1>2, <2>1, <2>6
    <3>2. HalvesAt(at + 1, HalvesOf(kind)) \in Seq(Half)  BY <3>1, SequencesRead
    <3> QED  BY <2>1, <2>2, <2>3, <2>6, <3>2
  <2> QED  BY <2>4, <2>5, <2>6
<1>6. ConstantWidth(at, kind) \in Nat /\ ConstantWidth(at, kind) >= 1
  <2>1. kind \in Kinds \ {"Utf8", "MethodHandle"} => HalvesOf(kind) \in Nat  BY <1>2
  <2>2. CASE kind = "Utf8"
    <3>1. ConstantWidth(at, kind) = 1 + (2 + w)  BY <1>4, <2>2 DEF ConstantWidth
    <3> QED  BY <3>1
  <2>3. CASE kind = "MethodHandle"
    <3>1. ConstantWidth(at, kind) = 4  BY <2>3 DEF ConstantWidth
    <3> QED  BY <3>1
  <2>4. CASE kind = "unrecognized"
    <3>1. ConstantWidth(at, kind) = 1  BY <2>4 DEF ConstantWidth
    <3> QED  BY <3>1
  <2>5. CASE kind \in Kinds \ {"Utf8", "MethodHandle", "unrecognized"}
    <3>1. PICK h \in Nat : h = HalvesOf(kind)  BY <2>1, <2>5
    <3>2. ConstantWidth(at, kind) = 1 + 2 * h  BY <2>5, <3>1 DEF ConstantWidth
    <3> QED  BY <3>2
  <2> QED  BY <1>1, <2>2, <2>3, <2>4, <2>5
<1> QED  BY <1>5, <1>6

LEMMA FrameEnd ==
    ASSUME FileOK, NEW at \in Nat
    PROVE  /\ FrameAt(at)[1] \in Nat
           /\ FrameAt(at)[2].type # "NotCaught" => FrameAt(at)[1] > at
<1>0. PICK tag : tag = ByteAt(at)  OBVIOUS
<1>1. tag \in Nat /\ tag < 256
  <2>1. ByteAt(at) \in Byte  BY NumbersRead
  <2> QED  BY <1>0, <2>1 DEF Byte
<1>p. ASSUME NEW x, NEW y, FrameAt(at) = <<x, y>>
      PROVE  FrameAt(at)[1] = x /\ FrameAt(at)[2] = y
  <2>1. PICK fr : fr = FrameAt(at)  OBVIOUS
  <2>2. fr = <<x, y>>  BY <1>p, <2>1
  <2>3. fr[1] = x /\ fr[2] = y  BY <2>2
  <2> QED  BY <2>1, <2>3
<1>2. ASSUME NEW p \in Nat, NEW n \in Nat
      PROVE  VerificationsAt(p, n)[1] \in Nat /\ VerificationsAt(p, n)[1] >= p
  BY VerificationsEnd
<1>z. ByteAt(at) = tag /\ tag \in Nat  BY <1>0, <1>1
<1>3. at + 1 \in Nat /\ 1 \in Nat  OBVIOUS
<1>v. PICK v : v = VerificationsAt(at + 1, 1)[1]  OBVIOUS
<1>w. v \in Nat /\ v > at
  <2>1. v \in Nat /\ v >= at + 1  BY <1>2, <1>3, <1>v
  <2> QED  BY <2>1
<1>4. CASE tag < 64
  <2>1. FrameAt(at)[1] = at + 1  BY <1>0, <1>1, <1>4, <1>p, SameFrame
  <2> QED  BY <2>1
<1>5. CASE tag >= 64 /\ tag < 128
  <2>1. FrameAt(at)[1] = v  BY <1>0, <1>1, <1>v, <1>5, <1>p, SameLocalsFrame
  <2> QED  BY <1>w, <2>1
<1>6. CASE tag = 247
  <2>0. ByteAt(at) = 247 /\ 247 \in Nat  BY <1>z, <1>6
  <2>1. FrameAt(at) =
            <<VerificationsAt(at + 1, 1)[1],
              ParsedFrame("SameLocalsExtended", <<>>, <<>>, VerificationsAt(at + 1, 1)[2])>>
    BY <2>0, SameLocalsExtendedFrame
  <2>2. FrameAt(at)[1] = v  BY <1>p, <1>v, <2>1
  <2> QED  BY <1>w, <2>2
<1>7. CASE tag >= 248 /\ tag < 251
  <2>1. FrameAt(at)[1] = at + 3  BY <1>0, <1>1, <1>7, <1>p, ChopFrame
  <2> QED  BY <2>1
<1>8. CASE tag = 251
  <2>1. FrameAt(at) = <<at + 3, ParsedFrame("SameExtended", <<U2At(at + 1)>>, <<>>, <<>>)>>
    BY <1>z, <1>8, SameExtendedFrame
  <2>2. FrameAt(at)[1] = at + 3  BY <1>p, <2>1
  <2> QED  BY <2>2
<1>9. CASE tag >= 252 /\ tag < 255
  <2>1. tag - 251 \in Nat /\ at + 3 \in Nat  BY <1>1, <1>9
  <2>2. PICK u : u = VerificationsAt(at + 3, tag - 251)[1]  OBVIOUS
  <2>3. u \in Nat /\ u >= at + 3  BY <1>2, <2>1, <2>2
  <2>4. FrameAt(at) =
            <<VerificationsAt(at + 3, tag - 251)[1],
              ParsedFrame("Append", <<U2At(at + 1)>>, VerificationsAt(at + 3, tag - 251)[2], <<>>)>>
    BY <1>0, <1>1, <1>9, AppendFrame
  <2>5. FrameAt(at)[1] = u  BY <1>p, <2>2, <2>4
  <2> QED  BY <2>3, <2>5
<1>10. CASE tag = 255
  <2>0. ByteAt(at) = 255 /\ 255 \in Nat  BY <1>z, <1>10
  <2>1. U2At(at + 3) \in Nat /\ at + 5 \in Nat
    <3>1. at + 3 \in Nat  OBVIOUS
    <3> QED  BY <3>1, NumbersRead
  <2>2. PICK all : all = VerificationsAt(at + 5, U2At(at + 3))  OBVIOUS
  <2>3. PICK x : x = all[1]  OBVIOUS
  <2>4. x \in Nat /\ x >= at + 5  BY <1>2, <2>1, <2>2, <2>3
  <2>5. U2At(x) \in Nat  BY <2>4, NumbersRead
  <2>6. PICK items : items = VerificationsAt(all[1] + 2, U2At(all[1]))  OBVIOUS
  <2>7. PICK y : y = items[1]  OBVIOUS
  <2>8. items = VerificationsAt(x + 2, U2At(x))  BY <2>3, <2>6
  <2>9. x + 2 \in Nat  BY <2>4
  <2>10. y \in Nat /\ y >= x + 2  BY <1>2, <2>5, <2>7, <2>8, <2>9
  <2>11. FrameAt(at) = <<items[1], ParsedFrame("Full", <<U2At(at + 1)>>, all[2], items[2])>>
    BY <2>0, <2>2, <2>6, FullFrame
  <2>12. FrameAt(at)[1] = y  BY <1>p, <2>7, <2>11
  <2> QED  BY <2>4, <2>10, <2>12
<1>11. CASE tag >= 128 /\ tag < 247
  <2>1. PICK fr : fr = ParsedFrame("NotCaught", <<>>, <<>>, <<>>)  OBVIOUS
  <2>2. FrameAt(at)[1] = at /\ FrameAt(at)[2] = fr
    BY <1>0, <1>1, <1>11, <1>p, <2>1, NotCaughtFrame
  <2>3. fr.type = "NotCaught"  BY <2>1 DEF ParsedFrame
  <2> QED  BY <2>2, <2>3
<1> QED  BY <1>1, <1>4, <1>5, <1>6, <1>7, <1>8, <1>9, <1>10, <1>11

-----------------------------------------------------------------------------
(* What the loops become.                                                  *)

(* What a loop becomes.                                                    *)
LEMMA LoopMade ==
    ASSUME NEW do \in Loops, NEW i \in Nat, NEW n \in Nat, NEW u, u = Loop(do, i, n)
    PROVE  IsTask(u) /\ u.do = do /\ u.i = i /\ u.name = NoName
<1>1. DOMAIN <<>> \subseteq KnownNames  OBVIOUS
<1>3. PICK none, name : none = <<>> /\ name = NoName  OBVIOUS
<1>4. u = [do |-> do, i |-> i, n |-> n, found |-> none, name |-> name, body |-> none,
           bodyEnd |-> 0]
  BY <1>3 DEF Loop
<1>5. PICK zero \in Nat : zero = 0  OBVIOUS
<1>6. u = [do |-> do, i |-> i, n |-> n, found |-> none, name |-> name, body |-> none,
           bodyEnd |-> zero]
  BY <1>4, <1>5
<1>7. DOMAIN none \subseteq KnownNames /\ name \in Seq(Half) \cup {NoName}  BY <1>1, <1>3
<1> QED  BY <1>3, <1>6, <1>7 DEF IsTask

LEMMA TurnMade ==
    ASSUME NEW t, IsTask(t), NEW u, u = TurnOver(t)
    PROVE  IsTask(u) /\ u.do = t.do /\ u.i = t.i + 1 /\ u.name = t.name
<1>1. u = [do |-> t.do, i |-> t.i + 1, n |-> t.n, found |-> t.found, name |-> t.name,
           body |-> t.body, bodyEnd |-> t.bodyEnd]
  BY TurnedTask DEF IsTask
<1>2. PICK j : j = t.i + 1  OBVIOUS
<1>3. j \in Nat  BY <1>2 DEF IsTask
<1> QED  BY <1>1, <1>2, <1>3 DEF IsTask

(* With another index, other contents, or the name of an attribute.        *)
LEMMA FieldsMade ==
    ASSUME NEW t, IsTask(t)
    PROVE  /\ \A x \in Nat : \A u : u = [t EXCEPT !.i = x] =>
                IsTask(u) /\ u.do = t.do /\ u.i = x /\ u.name = t.name
           /\ \A x \in Seq(Half) \cup {NoName} : \A u : u = [t EXCEPT !.name = x] =>
                IsTask(u) /\ u.do = t.do /\ u.i = t.i /\ u.name = x
           /\ \A x \in Nat : \A u : u = [t EXCEPT !.bodyEnd = x] =>
                IsTask(u) /\ u.do = t.do /\ u.i = t.i /\ u.name = t.name /\ u.bodyEnd = x
<1> PICK do, i, n, f, m, b, e :
        /\ do = t.do /\ i = t.i /\ n = t.n /\ f = t.found /\ m = t.name /\ b = t.body /\ e = t.bodyEnd
  OBVIOUS
<1>1. t = [do |-> do, i |-> i, n |-> n, found |-> f, name |-> m, body |-> b, bodyEnd |-> e]
  BY DEF IsTask
<1>2. /\ do \in Loops /\ i \in Nat /\ n \in Nat /\ DOMAIN f \subseteq KnownNames
      /\ m \in Seq(Half) \cup {NoName} /\ e \in Nat
  BY DEF IsTask
<1>3. ASSUME NEW x \in Nat, NEW u, u = [t EXCEPT !.i = x]
      PROVE  IsTask(u) /\ u.do = do /\ u.i = x /\ u.name = m
  <2>1. u = [do |-> do, i |-> x, n |-> n, found |-> f, name |-> m, body |-> b, bodyEnd |-> e]
    BY <1>1, <1>3
  <2> QED  BY <1>2, <2>1 DEF IsTask
<1>5. ASSUME NEW x \in Seq(Half) \cup {NoName}, NEW u, u = [t EXCEPT !.name = x]
      PROVE  IsTask(u) /\ u.do = do /\ u.i = i /\ u.name = x
  <2>1. u = [do |-> do, i |-> i, n |-> n, found |-> f, name |-> x, body |-> b, bodyEnd |-> e]
    BY <1>1, <1>5
  <2> QED  BY <1>2, <2>1 DEF IsTask
<1>6. ASSUME NEW x \in Nat, NEW u, u = [t EXCEPT !.bodyEnd = x]
      PROVE  IsTask(u) /\ u.do = do /\ u.i = i /\ u.name = m /\ u.bodyEnd = x
  <2>1. u = [do |-> do, i |-> i, n |-> n, found |-> f, name |-> m, body |-> b, bodyEnd |-> x]
    BY <1>1, <1>6
  <2> QED  BY <1>2, <2>1 DEF IsTask
<1> QED  BY <1>3, <1>5, <1>6

LEMMA BodyMade ==
    ASSUME NEW t, IsTask(t), NEW x, NEW u, u = [t EXCEPT !.body = x]
    PROVE  IsTask(u) /\ u.do = t.do /\ u.i = t.i /\ u.name = t.name /\ u.body = x
<1>1. t = [do |-> t.do, i |-> t.i, n |-> t.n, found |-> t.found, name |-> t.name,
           body |-> t.body, bodyEnd |-> t.bodyEnd]
  BY DEF IsTask
<1>2. u = [do |-> t.do, i |-> t.i, n |-> t.n, found |-> t.found, name |-> t.name,
           body |-> x, bodyEnd |-> t.bodyEnd]
  BY <1>1
<1> QED  BY <1>2 DEF IsTask

(* An attribute is found.                                                  *)
LEMMA FoundMade ==
    ASSUME NEW t, IsTask(t), t.do = "attributes", t.name \in KnownNames, NEW ai,
           NEW u, u = Found(t, ai)
    PROVE  IsTask(u) /\ u.do = "attributes" /\ u.i = t.i + 1 /\ u.name = NoName
<1>1. PICK f : f = Entered(t.found, t.name, ai)  OBVIOUS
<1>2. DOMAIN f = DOMAIN t.found \cup {t.name}  BY <1>1 DEF Entered
<1>3. DOMAIN f \subseteq KnownNames  BY <1>2 DEF IsTask
<1>4. t = [do |-> "attributes", i |-> t.i, n |-> t.n, found |-> t.found, name |-> t.name,
           body |-> t.body, bodyEnd |-> t.bodyEnd]
  BY DEF IsTask
<1>5. PICK j : j = t.i + 1  OBVIOUS
<1>6. j \in Nat /\ t.n \in Nat /\ t.bodyEnd \in Nat /\ "attributes" \in Loops  BY <1>5 DEF IsTask
<1>7. PICK none, name : none = <<>> /\ name = NoName  OBVIOUS
<1>8. name \in Seq(Half) \cup {NoName}  BY <1>7
<1>9. u = [do |-> "attributes", i |-> j, n |-> t.n, found |-> f, name |-> name, body |-> none,
           bodyEnd |-> t.bodyEnd]
  BY <1>1, <1>4, <1>5, <1>7, FoundTask
<1> QED  BY <1>3, <1>5, <1>6, <1>7, <1>8, <1>9 DEF IsTask

-----------------------------------------------------------------------------
(* What the class file becomes.                                            *)

(* What the class file becomes.                                            *)
WithMembers(class, m, ms) == [class EXCEPT ![m] = ms]

LEMMA MembersChanged ==
    ASSUME NEW class, ClassShape(class), NEW m \in {"fields", "methods"}, NEW ms, AreMembers(ms),
           NEW c, c = WithMembers(class, m, ms)
    PROVE  /\ ClassShape(c) /\ c[m] = ms
           /\ \A do \in {"fields", "methods"} : do # m => c[do] = class[do]
<1>1. class = [version |-> class.version, access |-> class.access,
               constantPool |-> class.constantPool, interfaces |-> class.interfaces,
               fields |-> class.fields, methods |-> class.methods, attributes |-> class.attributes]
  BY DEF ClassShape
<1>2. IsPool(class.constantPool) /\ AreMembers(class.fields) /\ AreMembers(class.methods)
  BY DEF ClassShape
<1>3. CASE m = "fields"
  <2>1. c = [version |-> class.version, access |-> class.access,
             constantPool |-> class.constantPool, interfaces |-> class.interfaces,
             fields |-> ms, methods |-> class.methods, attributes |-> class.attributes]
    BY <1>1, <1>3 DEF WithMembers
  <2> QED  BY <1>2, <1>3, <2>1 DEF ClassShape
<1>4. CASE m = "methods"
  <2>1. c = [version |-> class.version, access |-> class.access,
             constantPool |-> class.constantPool, interfaces |-> class.interfaces,
             fields |-> class.fields, methods |-> ms, attributes |-> class.attributes]
    BY <1>1, <1>4 DEF WithMembers
  <2> QED  BY <1>2, <1>4, <2>1 DEF ClassShape
<1> QED  BY <1>3, <1>4

LEMMA PartsChanged ==
    ASSUME NEW class, ClassShape(class), NEW x, NEW c,
           \/ c = [class EXCEPT !.version = x] \/ c = [class EXCEPT !.access = x]
           \/ c = [class EXCEPT !.interfaces = x] \/ c = [class EXCEPT !.attributes = x]
           \/ c = [class EXCEPT !.constantPool = x] /\ IsPool(x)
    PROVE  ClassShape(c) /\ c.fields = class.fields /\ c.methods = class.methods
<1> PICK v, a, p, i, f, m, attrs :
        /\ v = class.version /\ a = class.access /\ p = class.constantPool
        /\ i = class.interfaces /\ f = class.fields /\ m = class.methods /\ attrs = class.attributes
  OBVIOUS
<1>1. class = [version |-> v, access |-> a, constantPool |-> p, interfaces |-> i,
               fields |-> f, methods |-> m, attributes |-> attrs]
  BY DEF ClassShape
<1>2. IsPool(p) /\ AreMembers(f) /\ AreMembers(m)  BY DEF ClassShape
<1>3. \/ c = [version |-> x, access |-> a, constantPool |-> p, interfaces |-> i,
              fields |-> f, methods |-> m, attributes |-> attrs]
      \/ c = [version |-> v, access |-> x, constantPool |-> p, interfaces |-> i,
              fields |-> f, methods |-> m, attributes |-> attrs]
      \/ c = [version |-> v, access |-> a, constantPool |-> p, interfaces |-> x,
              fields |-> f, methods |-> m, attributes |-> attrs]
      \/ c = [version |-> v, access |-> a, constantPool |-> p, interfaces |-> i,
              fields |-> f, methods |-> m, attributes |-> x]
      \/ /\ IsPool(x)
         /\ c = [version |-> v, access |-> a, constantPool |-> x, interfaces |-> i,
                 fields |-> f, methods |-> m, attributes |-> attrs]
  BY <1>1
<1> QED  BY <1>2, <1>3 DEF ClassShape

LEMMA PoolEntered ==
    ASSUME NEW pool, IsPool(pool), NEW n, n \in Nat \ {0}, NEW c, c \in [kind : Kinds, values : Seq(Half)],
           NEW p, p = Entered(pool, n, c)
    PROVE  IsPool(p)
<1>1. DOMAIN p = DOMAIN pool \cup {n}  BY DEF Entered
<1>2. \A k \in DOMAIN p : p[k] = IF k = n THEN c ELSE pool[k]  BY DEF Entered
<1>3. DOMAIN p \subseteq Nat \ {0}  BY <1>1 DEF IsPool
<1>4. \A k \in DOMAIN p : p[k] \in [kind : Kinds, values : Seq(Half)]
  BY <1>1, <1>2 DEF IsPool
<1> QED  BY <1>3, <1>4 DEF IsPool

LEMMA MemberMade ==
    ASSUME NEW a \in Half, NEW b \in Half, NEW c \in Half, NEW f, DOMAIN f \subseteq KnownNames,
           NEW m, m = [accessFlags |-> a, nameIndex |-> b, descriptorIndex |-> c, attributes |-> f]
    PROVE  IsMember(m)
BY DEF IsMember, HasNumbers

(* A member is added.                                                      *)
LEMMA MembersGrow ==
    ASSUME NEW ms, AreMembers(ms), NEW m, IsMember(m), NEW ms2, ms2 = Append(ms, m)
    PROVE  AreMembers(ms2) /\ Len(ms2) = Len(ms) + 1
<1>1. IsStack(ms) /\ \A k \in 1 .. Len(ms) : IsMember(ms[k])  BY DEF AreMembers
<1>2. PICK n \in Nat : n = Len(ms)  BY <1>1 DEF IsStack
<1>3. /\ IsStack(ms2) /\ Len(ms2) = n + 1 /\ ms2[n + 1] = m
      /\ \A k \in 1 .. n : ms2[k] = ms[k]
  BY <1>1, <1>2, AppendStack
<1>4. \A k \in 1 .. n + 1 : k = n + 1 \/ k \in 1 .. n  BY <1>2
<1> QED  BY <1>1, <1>2, <1>3, <1>4 DEF AreMembers

(* A member gets its attributes.                                           *)
WithAttributes(class, m, k, f) == [class EXCEPT ![m][k].attributes = f]

LEMMA MembersComplete ==
    ASSUME NEW class, ClassShape(class), NEW m \in {"fields", "methods"},
           NEW k \in 1 .. Len(class[m]), NEW f, DOMAIN f \subseteq KnownNames,
           NEW c, c = WithAttributes(class, m, k, f)
    PROVE  /\ ClassShape(c) /\ Len(c.fields) = Len(class.fields)
           /\ Len(c.methods) = Len(class.methods)
<1>1. PICK ms : ms = class[m]  OBVIOUS
<1>2. AreMembers(ms)  BY <1>1 DEF ClassShape
<1>3. IsStack(ms) /\ \A j \in 1 .. Len(ms) : IsMember(ms[j])  BY <1>2 DEF AreMembers
<1>4. PICK old : old = ms[k]  OBVIOUS
<1>5. PICK new : new = [old EXCEPT !.attributes = f]  OBVIOUS
<1>6. IsMember(new)
  <2>1. IsMember(old)  BY <1>1, <1>3, <1>4
  <2>2. /\ old.accessFlags \in Half /\ old.nameIndex \in Half /\ old.descriptorIndex \in Half
        /\ old = [accessFlags |-> old.accessFlags, nameIndex |-> old.nameIndex,
                  descriptorIndex |-> old.descriptorIndex, attributes |-> old.attributes]
    BY <2>1 DEF IsMember, HasNumbers
  <2>3. new = [accessFlags |-> old.accessFlags, nameIndex |-> old.nameIndex,
               descriptorIndex |-> old.descriptorIndex, attributes |-> f]
    BY <1>5, <2>2
  <2> QED  BY <2>2, <2>3 DEF IsMember, HasNumbers
<1>7. PICK z : z = [ms EXCEPT ![k] = new]  OBVIOUS
<1>8. IsStack(z) /\ Len(z) = Len(ms) /\ z[k] = new /\ \A j \in 1 .. Len(ms) : j # k => z[j] = ms[j]
  BY <1>1, <1>3, <1>7, ExceptStack
<1>9. AreMembers(z)  BY <1>3, <1>6, <1>8 DEF AreMembers
<1>10. c = [class EXCEPT ![m] = z]  BY <1>1, <1>4, <1>5, <1>7 DEF WithAttributes
<1>11. /\ ClassShape(c) /\ c[m] = z
       /\ \A do \in {"fields", "methods"} : do # m => c[do] = class[do]
  <2>1. c = WithMembers(class, m, z)  BY <1>10 DEF WithMembers
  <2> QED  BY <1>9, <2>1, MembersChanged
<1>12. \A do \in {"fields", "methods"} : Len(c[do]) = Len(class[do])
  BY <1>1, <1>8, <1>11
<1> QED  BY <1>11, <1>12

-----------------------------------------------------------------------------
(* Progress.                                                               *)

Advances == outcome' = "parsing" => Before(Remaining', Remaining)

LEMMA InnerLoop ==
    ASSUME ParserOK, NEW do, Doing(do), NEW n, n = Len(tasks), NEW t, t = Top
    PROVE  /\ n \in Nat /\ n > 0 /\ IsStack(tasks) /\ TasksOK(tasks) /\ LoopsFit(tasks, classFile)
           /\ FileOK /\ cursor \in Nat /\ cursor <= Len(file) /\ ClassShape(classFile)
           /\ outcome = "parsing" /\ NotBeyond(t, cursor) /\ t = tasks[n] /\ IsTask(t) /\ t.do = do
           /\ do # "parse" => n # 1
<1>1. /\ FileOK /\ cursor \in Nat /\ TasksOK(tasks) /\ ClassShape(classFile)
      /\ outcome = "parsing" /\ cursor <= Len(file) /\ t.do = do
  BY DEF ParserOK, Doing
<1>2. LoopsFit(tasks, classFile) /\ NotBeyond(t, cursor)  BY <1>1 DEF ParserOK
<1>3. n \in Nat /\ n > 0 /\ IsStack(tasks) /\ \A k \in 1 .. n : IsTask(tasks[k])
  BY <1>1, <1>2, LoopDepth
<1>4. t = tasks[n]  BY DEF Top
<1>5. n \in 1 .. n  BY <1>3
<1>6. IsTask(t)  BY <1>3, <1>4, <1>5
<1>7. tasks[1].do = "parse"  BY <1>2 DEF LoopsFit
<1> QED  BY <1>1, <1>2, <1>3, <1>4, <1>6, <1>7

LEMMA StackNotEmpty ==
    ASSUME NEW ts, IsStack(ts), Len(ts) > 0
    PROVE  ts # <<>>
BY EmptyStack DEF IsStack

(* What is left of the file, and how deep the loops are.                   *)
LEMMA RemainingParts ==
    /\ Remaining[1] = Len(file) - cursor /\ Remaining[2] = Len(tasks)
    /\ Remaining[3] = IF tasks # <<>> /\ Top.name # NoName THEN 1 ELSE 0
    /\ Remaining'[1] = Len(file') - cursor' /\ Remaining'[2] = Len(tasks')
    /\ Remaining'[3] = IF tasks' # <<>> /\ Top'.name # NoName THEN 1 ELSE 0
BY DEF Remaining

(* The parser went on.                                                     *)
LEMMA ParserGoesOn ==
    ASSUME FileOK, file' = file, NEW p \in Nat, cursor' = p, outcome' \in {"parsing", "aborted"},
           NEW ts, tasks' = ts, NEW class, classFile' = class,
           TasksOK(ts), LoopsFit(ts, class), ClassShape(class), NotBeyond(ts[Len(ts)], p)
    PROVE  ParserOK'
<1>1. FileOK'  BY DEF FileOK
<1>2. Top' = ts[Len(ts)]  BY DEF Top
<1>3. outcome' \in Outcomes /\ outcome' \notin {"parsed", "decoded"}  BY DEF Outcomes
<1>4. TasksOK(tasks)'  BY DEF TasksOK
<1>5. LoopsFit(tasks, classFile)'  BY DEF LoopsFit
<1>6. ClassShape(classFile)'  BY DEF ClassShape
<1>7. NotBeyond(Top, cursor)'  BY <1>2 DEF NotBeyond
<1> QED  BY <1>1, <1>3, <1>4, <1>5, <1>6, <1>7 DEF ParserOK

(* The parser ended.                                                       *)
LEMMA ParserEnds ==
    ASSUME FileOK, file' = file, NEW p \in Nat, cursor' = p,
           outcome' \in {"aborted", "crashed", "overrun"},
           NEW ts, tasks' = ts, NEW class, classFile' = class, TasksOK(ts), ClassShape(class)
    PROVE  ParserOK' /\ Advances
<1>1. FileOK'  BY DEF FileOK
<1>2. outcome' \in Outcomes /\ outcome' \notin {"parsing", "parsed", "decoded"}  BY DEF Outcomes
<1>4. TasksOK(tasks)'  BY DEF TasksOK
<1>6. ClassShape(classFile)'  BY DEF ClassShape
<1> QED  BY <1>1, <1>2, <1>4, <1>6 DEF ParserOK, Advances

(* Something was read.                                                     *)
LEMMA ParserReads ==
    ASSUME FileOK, cursor \in Nat, file' = file, NEW p \in Nat, cursor' = p, p > cursor,
           outcome' \in {"parsing", "aborted"},
           NEW ts, tasks' = ts, NEW class, classFile' = class,
           TasksOK(ts), LoopsFit(ts, class), ClassShape(class), NotBeyond(ts[Len(ts)], p)
    PROVE  ParserOK' /\ Advances
<1>1. ParserOK'  BY ParserGoesOn
<1>2. Remaining'[1] < Remaining[1]
  <2>1. PICK l \in Nat : l = Len(file)  BY LenOfFile
  <2>2. PICK c \in Nat : c = cursor  OBVIOUS
  <2>3. PICK r : r = Remaining[1]  OBVIOUS
  <2>4. PICK s : s = Remaining'[1]  OBVIOUS
  <2>5. r = l - c /\ s = l - p  BY <2>1, <2>2, <2>3, <2>4, RemainingParts
  <2>6. p > c  BY <2>2
  <2>7. s < r  BY <2>5, <2>6
  <2> QED  BY <2>3, <2>4, <2>7
<1> QED  BY <1>1, <1>2 DEF Advances, Before

(* A call returned.                                                        *)
LEMMA ParserReturns ==
    ASSUME FileOK, cursor \in Nat, file' = file, cursor' = cursor,
           outcome' \in {"parsing", "aborted"},
           NEW n \in Nat, Len(tasks) = n + 1, NEW ts, tasks' = ts, Len(ts) = n,
           NEW class, classFile' = class,
           TasksOK(ts), LoopsFit(ts, class), ClassShape(class), NotBeyond(ts[n], cursor)
    PROVE  ParserOK' /\ Advances
<1>1. ParserOK'
  <2>1. PICK p \in Nat : p = cursor  OBVIOUS
  <2> QED  BY <2>1, ParserGoesOn
<1>2. Remaining'[1] = Remaining[1]  BY RemainingParts
<1>3. Remaining'[2] < Remaining[2]
  <2>1. Remaining'[2] = n /\ Remaining[2] = n + 1  BY RemainingParts
  <2> QED  BY <2>1
<1> QED  BY <1>1, <1>2, <1>3 DEF Advances, Before

(* An attribute was passed over.                                           *)
LEMMA ParserSkips ==
    ASSUME FileOK, cursor \in Nat, file' = file, NEW p \in Nat, cursor' = p, p >= cursor,
           outcome' = "parsing",
           NEW n \in Nat, n > 0, IsStack(tasks), Len(tasks) = n, tasks[n].name # NoName,
           NEW ts, tasks' = ts, Len(ts) = n, ts[n].name = NoName,
           NEW class, classFile' = class,
           TasksOK(ts), LoopsFit(ts, class), ClassShape(class)
    PROVE  ParserOK' /\ Advances
<1>1. NotBeyond(ts[Len(ts)], p)  BY DEF NotBeyond
<1>2. ParserOK'  BY <1>1, ParserGoesOn
<1>3. CASE p > cursor  BY <1>1, <1>3, ParserReads
<1>4. CASE p = cursor
  <2>1. Remaining'[1] = Remaining[1] /\ Remaining'[2] = Remaining[2]  BY <1>4, RemainingParts
  <2>2. tasks # <<>>  BY StackNotEmpty
  <2>3. Top = tasks[n] /\ Top' = ts[n]  BY DEF Top
  <2>4. Remaining[3] = 1 /\ Remaining'[3] = 0  BY <2>2, <2>3, RemainingParts
  <2>5. Remaining'[3] < Remaining[3]  BY <2>4
  <2> QED  BY <1>2, <2>1, <2>5 DEF Advances, Before
<1>5. p > cursor \/ p = cursor  OBVIOUS
<1> QED  BY <1>3, <1>4, <1>5

-----------------------------------------------------------------------------
(* What a call leaves, and reading the version.                            *)

(* A call.                                                                 *)
LEMMA SectionFits ==
    ASSUME ParserOK, Doing("parse"), NEW n, n = Len(tasks), NEW t, t = Top,
           NEW do \in {"constants", "fields", "methods", "attributes"}, t.i + 1 = SectionOf[do],
           NEW i \in Nat, NEW m \in Nat,
           do = "constants" => i > 0, do \in {"fields", "methods"} => i = 0,
           NEW class, Len(class.fields) = Len(classFile.fields),
           Len(class.methods) = Len(classFile.methods),
           NEW ts, ts = Calling(TurnOver(t), Loop(do, i, m))
    PROVE  TasksOK(ts) /\ LoopsFit(ts, class) /\ \A p : NotBeyond(ts[Len(ts)], p)
<1>1. /\ n \in Nat /\ n > 0 /\ IsStack(tasks) /\ TasksOK(tasks) /\ LoopsFit(tasks, classFile)
      /\ t = tasks[n] /\ IsTask(t) /\ t.do = "parse"
  BY InnerLoop
<1>2. PICK u : u = TurnOver(t)  OBVIOUS
<1>3. PICK v : v = Loop(do, i, m)  OBVIOUS
<1>4. IsTask(u) /\ u.do = "parse" /\ u.i = t.i + 1  BY <1>1, <1>2, TurnMade
<1>5. IsTask(v) /\ v.do = do /\ v.i = i /\ v.name = NoName
  <2>1. do \in Loops  BY DEF Loops
  <2>2. ASSUME NEW x, x = Loop(do, i, m)
        PROVE  IsTask(x) /\ x.do = do /\ x.i = i /\ x.name = NoName
    BY <2>1, <2>2, LoopMade
  <2> QED  BY <1>3, <2>2
<1>6. /\ IsStack(ts) /\ Len(ts) = n + 1 /\ ts[n] = u /\ ts[n + 1] = v
      /\ \A k \in 1 .. n - 1 : ts[k] = tasks[k]
  BY <1>1, <1>2, <1>3, TaskCalls
<1>7. n = 1
  <2>1. n \in 2 .. n => tasks[n].do # "parse"  BY <1>1, LoopDepth
  <2> QED  BY <1>1, <2>1
<1>8. /\ t.i \in Nat /\ (t.i <= 2 => Len(classFile.fields) = 0)
      /\ (t.i <= 3 => Len(classFile.methods) = 0)
  BY <1>1, <1>7 DEF LoopsFit, IsTask
<1>9. /\ do = "constants" => t.i + 1 = 1
      /\ do = "fields" => t.i + 1 = 3
      /\ do = "methods" => t.i + 1 = 4
      /\ do = "attributes" => t.i + 1 = 5
  BY CallersNamed
<1>10. PICK j \in Nat : j = t.i  BY <1>8
<1>11. j + 1 \in 1 .. 5  BY <1>9, <1>10
<1>12. do \in {"fields", "methods"} => Len(class[do]) = i
  <2>1. do = "fields" => j <= 2  BY <1>9, <1>10
  <2>2. do = "methods" => j <= 3  BY <1>9, <1>10
  <2> QED  BY <1>8, <1>10, <2>1, <2>2
<1>13. Fits(u, v, class)
  <2>1. "parse" \in CallersOf(do)  BY CallersNamed
  <2>2. do \notin Tables  BY CallersNamed
  <2>3. u.i = SectionOf[do]  BY <1>4
  <2> QED  BY <1>4, <1>5, <1>12, <2>1, <2>2, <2>3 DEF Fits
<1>14. /\ u.i \in 1 .. 5 /\ (u.i <= 2 => Len(classFile.fields) = 0)
       /\ (u.i <= 3 => Len(classFile.methods) = 0)
  <2>1. u.i = j + 1  BY <1>4, <1>10
  <2>2. (j + 1 <= 2 => j <= 2) /\ (j + 1 <= 3 => j <= 3)  OBVIOUS
  <2> QED  BY <1>8, <1>10, <1>11, <2>1, <2>2
<1>15. MayCall(tasks, classFile, u, v, class)
  <2>1. \A d \in {"fields", "methods"} : Len(class[d]) = Len(classFile[d])  OBVIOUS
  <2> QED  BY <1>1, <1>4, <1>5, <1>13, <1>14, <2>1 DEF MayCall
<1>16. TasksOK(ts) /\ LoopsFit(ts, class)
  <2>1. Called(tasks, u, v, ts)  BY <1>6 DEF Called
  <2> QED  BY <1>1, <1>15, <2>1, CallFits
<1>17. ts[Len(ts)] = v  BY <1>6
<1> QED  BY <1>5, <1>16, <1>17 DEF NotBeyond

LEMMA VersionSafe ==
    ASSUME ParserOK, ParseVersion
    PROVE  ParserOK' /\ Advances
<1>1. /\ Doing("parse") /\ Top.i = 0
      /\ classFile' = [classFile EXCEPT !.version = HalvesAt(cursor, 4)]
      /\ cursor' = cursor + 10 /\ file' = file /\ outcome' = outcome
      /\ tasks' = Calling(TurnOver(Top), Loop("constants", FirstIndex, U2At(cursor + 8)))
  BY DEF ParseVersion
<1>2. /\ FileOK /\ cursor \in Nat /\ outcome = "parsing" /\ ClassShape(classFile)
  BY <1>1, InnerLoop
<1>3. PICK ts : ts = Calling(TurnOver(Top), Loop("constants", FirstIndex, U2At(cursor + 8)))
  OBVIOUS
<1>4. PICK class : class = [classFile EXCEPT !.version = HalvesAt(cursor, 4)]  OBVIOUS
<1>5. PICK p : p = cursor + 10  OBVIOUS
<1>6. p \in Nat /\ p > cursor /\ cursor + 8 \in Nat  BY <1>2, <1>5
<1>7. ClassShape(class) /\ class.fields = classFile.fields /\ class.methods = classFile.methods
  BY <1>2, <1>4, PartsChanged
<1>8. FirstIndex \in Nat /\ FirstIndex > 0  BY DEF FirstIndex
<1>9. U2At(cursor + 8) \in Nat  BY <1>2, <1>6, NumbersRead
<1>10. Top.i + 1 = SectionOf["constants"]  BY <1>1, CallersNamed
<1>11. TasksOK(ts) /\ LoopsFit(ts, class) /\ \A q : NotBeyond(ts[Len(ts)], q)
  BY <1>1, <1>3, <1>7, <1>8, <1>9, <1>10, SectionFits
<1> QED  BY <1>1, <1>2, <1>3, <1>4, <1>5, <1>6, <1>7, <1>11, ParserReads

-----------------------------------------------------------------------------
(* Steps of one kind leave what is known: turns, calls and returns.        *)

(* A turn of the innermost loop, a call, and a return, each of which read  *)
(* on to p.                                                                *)
LEMMA TurnSafe ==
    ASSUME ParserOK, NEW do, Doing(do), do \notin {"parse", "fields", "methods"},
           NEW t, IsTask(t), t.do = do, do = "constants" => t.i > 0,
           tasks' = WithTop(t), NEW p \in Nat, cursor' = p, p > cursor, NotBeyond(t, p),
           outcome' \in {"parsing", "aborted"}, file' = file,
           NEW class, classFile' = class, ClassShape(class),
           class.fields = classFile.fields, class.methods = classFile.methods
    PROVE  ParserOK' /\ Advances
<1>n. PICK n : n = Len(tasks)  OBVIOUS
<1>t. PICK top : top = Top  OBVIOUS
<1>1. /\ n \in Nat /\ n > 0 /\ IsStack(tasks) /\ TasksOK(tasks) /\ LoopsFit(tasks, classFile)
      /\ top = tasks[n] /\ top.do = do /\ FileOK /\ cursor \in Nat
  BY <1>n, <1>t, InnerLoop
<1>2. PICK ts : ts = WithTop(t)  OBVIOUS
<1>3. IsStack(ts) /\ Len(ts) = n /\ ts[n] = t /\ \A k \in 1 .. n - 1 : ts[k] = tasks[k]
  BY <1>n, <1>1, <1>2, TopChanges
<1>4. Turned(tasks, t, ts)  BY <1>n, <1>3 DEF Turned
<1>5. MayTurn(tasks, classFile, t, class)  BY <1>n, <1>1 DEF MayTurn
<1>6. TasksOK(ts) /\ LoopsFit(ts, class)  BY <1>1, <1>4, <1>5, TurnFits
<1>7. NotBeyond(ts[Len(ts)], p)  BY <1>3
<1> QED  BY <1>1, <1>2, <1>6, <1>7, ParserReads

LEMMA CallSafe ==
    ASSUME ParserOK, NEW do, Doing(do), do # "parse", NEW t, NEW u, NEW class,
           MayCall(tasks, classFile, t, u, class), u.name = NoName,
           NEW ts, tasks' = ts, Called(tasks, t, u, ts),
           NEW p \in Nat, cursor' = p, p > cursor, outcome' = outcome, file' = file,
           classFile' = class, ClassShape(class)
    PROVE  ParserOK' /\ Advances
<1>1. /\ IsStack(tasks) /\ TasksOK(tasks) /\ LoopsFit(tasks, classFile)
      /\ FileOK /\ cursor \in Nat /\ outcome = "parsing"
  BY InnerLoop
<1>2. TasksOK(ts) /\ LoopsFit(ts, class)  BY <1>1, CallFits
<1>3. ts[Len(ts)] = u  BY DEF Called
<1>4. NotBeyond(ts[Len(ts)], p)  BY <1>3 DEF NotBeyond
<1> QED  BY <1>1, <1>2, <1>4, ParserReads

LEMMA ReturnSafe ==
    ASSUME ParserOK, NEW do, Doing(do), NEW t, NEW class, MayReturn(tasks, classFile, t, class),
           t.do = "attributes" => t.name = NoName,
           NEW ts, tasks' = ts, Returned(tasks, t, ts),
           cursor' = cursor, outcome' \in {"parsing", "aborted"}, file' = file,
           classFile' = class, ClassShape(class)
    PROVE  ParserOK' /\ Advances
<1>1. /\ IsStack(tasks) /\ TasksOK(tasks) /\ LoopsFit(tasks, classFile)
      /\ FileOK /\ cursor \in Nat
  BY InnerLoop
<1>2. TasksOK(ts) /\ LoopsFit(ts, class)  BY <1>1, ReturnFits
<1>3. PICK n : n = Len(tasks) - 1  OBVIOUS
<1>4. n > 0 /\ Len(ts) = n /\ ts[n] = t  BY <1>3 DEF MayReturn, Returned
<1>5. n \in Nat /\ Len(tasks) = n + 1
  <2>1. PICK l \in Nat : l = Len(tasks)  BY <1>1 DEF IsStack
  <2> QED  BY <1>3, <1>4, <2>1
<1>6. NotBeyond(ts[n], cursor)  BY <1>4 DEF NotBeyond
<1> QED  BY <1>1, <1>2, <1>4, <1>5, <1>6, ParserReturns

(* Sections begin.                                                         *)
LEMMA SectionSafe ==
    ASSUME ParserOK, Doing("parse"), NEW do \in {"fields", "methods", "attributes"},
           Top.i + 1 = SectionOf[do], cursor' = cursor + 2,
           tasks' = Calling(TurnOver(Top), Loop(do, 0, U2At(cursor))),
           file' = file, classFile' = classFile, outcome' = outcome
    PROVE  ParserOK' /\ Advances
<1>2. /\ FileOK /\ cursor \in Nat /\ outcome = "parsing" /\ ClassShape(classFile)
  BY InnerLoop
<1>3. PICK ts : ts = Calling(TurnOver(Top), Loop(do, 0, U2At(cursor)))  OBVIOUS
<1>5. PICK p : p = cursor + 2  OBVIOUS
<1>6. p \in Nat /\ p > cursor /\ 0 \in Nat  BY <1>2, <1>5
<1>9. U2At(cursor) \in Nat  BY <1>2, NumbersRead
<1>11. TasksOK(ts) /\ LoopsFit(ts, classFile) /\ \A q : NotBeyond(ts[Len(ts)], q)
  BY <1>3, <1>6, <1>9, SectionFits
<1> QED  BY <1>2, <1>3, <1>5, <1>6, <1>11, ParserReads

LEMMA SectionsSafe ==
    ASSUME ParserOK, \/ StartMembers("fields") \/ StartMembers("methods")
                     \/ StartClassAttributes
    PROVE  ParserOK' /\ Advances
<1>1. CASE StartMembers("fields")
  <2>1. /\ Doing("parse") /\ Top.i = 2 /\ cursor' = cursor + 2
        /\ tasks' = Calling(TurnOver(Top), Loop("fields", 0, U2At(cursor)))
        /\ file' = file /\ classFile' = classFile /\ outcome' = outcome
    BY <1>1 DEF StartMembers
  <2>2. Top.i + 1 = SectionOf["fields"]  BY <2>1, CallersNamed
  <2> QED  BY <2>1, <2>2, SectionSafe
<1>2. CASE StartMembers("methods")
  <2>1. /\ Doing("parse") /\ Top.i = 3 /\ cursor' = cursor + 2
        /\ tasks' = Calling(TurnOver(Top), Loop("methods", 0, U2At(cursor)))
        /\ file' = file /\ classFile' = classFile /\ outcome' = outcome
    BY <1>2 DEF StartMembers
  <2>2. Top.i + 1 = SectionOf["methods"]  BY <2>1, CallersNamed
  <2> QED  BY <2>1, <2>2, SectionSafe
<1>3. CASE StartClassAttributes
  <2>1. /\ Doing("parse") /\ Top.i = 4 /\ cursor' = cursor + 2
        /\ tasks' = Calling(TurnOver(Top), Loop("attributes", 0, U2At(cursor)))
        /\ file' = file /\ classFile' = classFile /\ outcome' = outcome
    BY <1>3 DEF StartClassAttributes
  <2>2. Top.i + 1 = SectionOf["attributes"]  BY <2>1, CallersNamed
  <2> QED  BY <2>1, <2>2, SectionSafe
<1> QED  BY <1>1, <1>2, <1>3

-----------------------------------------------------------------------------
(* Constants, access flags and members.                                    *)

LEMMA ConstantSafe ==
    ASSUME ParserOK, ParseConstant
    PROVE  ParserOK' /\ Advances
<1>k. PICK kind : kind = KindOf(ByteAt(cursor))  OBVIOUS
<1>t. PICK top : top = Top  OBVIOUS
<1>n. PICK n : n = Len(tasks)  OBVIOUS
<1>1. /\ Doing("constants") /\ file' = file /\ outcome' = outcome
      /\ cursor' = cursor + ConstantWidth(cursor, kind)
      /\ classFile' = [classFile EXCEPT !.constantPool =
            IF kind = "unrecognized" THEN @ ELSE Entered(@, top.i, ConstantAt(cursor, kind))]
      /\ tasks' = WithTop([top EXCEPT !.i = @ + Advance(kind)])
  BY <1>k, <1>t DEF ParseConstant
<1>2. /\ n \in Nat /\ n > 0 /\ LoopsFit(tasks, classFile) /\ n # 1 /\ FileOK /\ cursor \in Nat
      /\ ClassShape(classFile) /\ outcome = "parsing" /\ top = tasks[n] /\ IsTask(top)
      /\ top.do = "constants"
  BY <1>1, <1>n, <1>t, InnerLoop
<1>3. top.i \in Nat /\ top.i > 0
  <2>1. n \in 2 .. Len(tasks)  BY <1>2, <1>n
  <2>2. Fits(tasks[n - 1], tasks[n], classFile)  BY <1>2, <2>1 DEF LoopsFit
  <2>3. top.i > 0  BY <1>2, <2>2 DEF Fits
  <2>4. top.i \in Nat  BY <1>2 DEF IsTask
  <2> QED  BY <2>3, <2>4
<1>4. PICK w \in Nat : w = ConstantWidth(cursor, kind) /\ w >= 1  BY <1>2, <1>k, ConstantRead
<1>5. PICK p : p = cursor + w  OBVIOUS
<1>6. p \in Nat /\ p > cursor  BY <1>2, <1>4, <1>5
<1>7. PICK j : j = top.i + Advance(kind)  OBVIOUS
<1>8. j \in Nat /\ j > 0
  <2>1. Advance(kind) \in {1, 2}  BY DEF Advance
  <2> QED  BY <1>3, <1>7, <2>1
<1>9. PICK t : t = [top EXCEPT !.i = j]  OBVIOUS
<1>10. IsTask(t) /\ t.do = "constants" /\ t.i = j  BY <1>2, <1>8, <1>9, FieldsMade
<1>11. tasks' = WithTop(t)
  <2>1. [top EXCEPT !.i = @ + Advance(kind)] = t  BY <1>7, <1>9
  <2> QED  BY <1>1, <2>1
<1>12. NotBeyond(t, p)  BY <1>10 DEF NotBeyond
<1>13. PICK pool : pool = IF kind = "unrecognized" THEN classFile.constantPool
                          ELSE Entered(classFile.constantPool, top.i, ConstantAt(cursor, kind))
  OBVIOUS
<1>14. IsPool(pool)
  <2>1. IsPool(classFile.constantPool)  BY <1>2 DEF ClassShape
  <2>2. CASE kind = "unrecognized"  BY <1>13, <2>1, <2>2
  <2>3. CASE kind # "unrecognized"
    <3>1. ConstantAt(cursor, kind) \in [kind : Kinds, values : Seq(Half)]
      BY <1>2, <1>k, <2>3, ConstantRead
    <3>2. pool = Entered(classFile.constantPool, top.i, ConstantAt(cursor, kind))  BY <1>13, <2>3
    <3>3. top.i \in Nat \ {0}  BY <1>3
    <3> QED  BY <2>1, <3>1, <3>2, <3>3, PoolEntered
  <2> QED  BY <2>2, <2>3
<1>15. PICK class : class = [classFile EXCEPT !.constantPool = pool]  OBVIOUS
<1>16. classFile' = class  BY <1>1, <1>13, <1>15
<1>17. ClassShape(class) /\ class.fields = classFile.fields /\ class.methods = classFile.methods
  BY <1>2, <1>14, <1>15, PartsChanged
<1>18. cursor' = p /\ outcome' \in {"parsing", "aborted"}  BY <1>1, <1>2, <1>4, <1>5
<1> QED  BY <1>1, <1>6, <1>8, <1>10, <1>11, <1>12, <1>16, <1>17, <1>18, TurnSafe

LEMMA AccessSafe ==
    ASSUME ParserOK, ParseAccess
    PROVE  ParserOK' /\ Advances
<1>c. PICK count : count = U2At(cursor + 6)  OBVIOUS
<1>a. PICK access : access = HalvesAt(cursor, 3)  OBVIOUS
<1>i. PICK interfaces : interfaces = HalvesAt(cursor + 8, count)  OBVIOUS
<1>n. PICK n : n = Len(tasks)  OBVIOUS
<1>t. PICK top : top = Top  OBVIOUS
<1>1. /\ Doing("parse") /\ top.i = 1 /\ file' = file /\ outcome' = outcome
      /\ classFile' = [classFile EXCEPT !.access = access, !.interfaces = interfaces]
      /\ cursor' = cursor + 8 + 2 * count
      /\ tasks' = WithTop(TurnOver(top))
  BY <1>a, <1>c, <1>i, <1>t DEF ParseAccess
<1>2. /\ n \in Nat /\ n > 0 /\ IsStack(tasks) /\ TasksOK(tasks) /\ LoopsFit(tasks, classFile)
      /\ FileOK /\ cursor \in Nat /\ ClassShape(classFile) /\ outcome = "parsing"
      /\ top = tasks[n] /\ IsTask(top) /\ top.do = "parse"
  BY <1>1, <1>n, <1>t, InnerLoop
<1>3. n = 1
  <2>1. n \in 2 .. n => tasks[n].do # "parse"  BY <1>2, <1>n, LoopDepth
  <2> QED  BY <1>2, <2>1
<1>4. PICK p : p = cursor + 8 + 2 * count  OBVIOUS
<1>5. p \in Nat /\ p > cursor
  <2>1. cursor + 6 \in Nat  BY <1>2
  <2>2. count \in Nat  BY <1>2, <1>c, <2>1, NumbersRead
  <2> QED  BY <1>2, <1>4, <2>2
<1>6. PICK half : half = [classFile EXCEPT !.access = access]  OBVIOUS
<1>7. ClassShape(half) /\ half.fields = classFile.fields /\ half.methods = classFile.methods
  BY <1>2, <1>6, PartsChanged
<1>8. PICK class : class = [half EXCEPT !.interfaces = interfaces]  OBVIOUS
<1>9. ClassShape(class) /\ class.fields = half.fields /\ class.methods = half.methods
  BY <1>7, <1>8, PartsChanged
<1>10. classFile' = class
  <2>1. [classFile EXCEPT !.access = access, !.interfaces = interfaces] =
            [[classFile EXCEPT !.access = access] EXCEPT !.interfaces = interfaces]
    OBVIOUS
  <2> QED  BY <1>1, <1>6, <1>8, <2>1
<1>11. PICK u : u = TurnOver(top)  OBVIOUS
<1>12. IsTask(u) /\ u.do = "parse" /\ u.i = 2
  <2>1. IsTask(u) /\ u.do = top.do /\ u.i = top.i + 1  BY <1>2, <1>11, TurnMade
  <2> QED  BY <1>1, <1>2, <2>1
<1>13. PICK ts : ts = WithTop(u)  OBVIOUS
<1>14. IsStack(ts) /\ Len(ts) = n /\ ts[n] = u  BY <1>2, <1>13, <1>n, TopChanges
<1>15. TasksOK(ts)
  <2>1. \A k \in 1 .. n : k = n  BY <1>3
  <2> QED  BY <1>12, <1>14, <2>1 DEF TasksOK
<1>16. Len(classFile.fields) = 0 /\ Len(classFile.methods) = 0
  BY <1>1, <1>2, <1>3 DEF LoopsFit
<1>17. LoopsFit(ts, class)
  <2>1. ts[1] = u /\ \A k \in 2 .. Len(ts) : FALSE  BY <1>3, <1>14
  <2>2. Len(class.fields) = 0 /\ Len(class.methods) = 0  BY <1>7, <1>9, <1>16
  <2>3. u.do = "parse" /\ u.i \in 0 .. 5 /\ u.i < 5  BY <1>12
  <2> QED  BY <1>3, <1>14, <2>1, <2>2, <2>3 DEF LoopsFit
<1>18. NotBeyond(ts[Len(ts)], p)  BY <1>12, <1>14 DEF NotBeyond
<1>19. tasks' = ts /\ cursor' = p /\ outcome' \in {"parsing", "aborted"}
  BY <1>1, <1>2, <1>4, <1>11, <1>13
<1> QED  BY <1>1, <1>2, <1>5, <1>9, <1>10, <1>15, <1>17, <1>18, <1>19, ParserReads

(* A loop over members has as many as it has made turns.                   *)
LEMMA MembersSoFar ==
    ASSUME ParserOK, NEW do \in {"fields", "methods"}, Doing(do), NEW t, t = Top
    PROVE  Len(classFile[do]) = t.i
<1>n. PICK n : n = Len(tasks)  OBVIOUS
<1>1. n \in Nat /\ n > 0 /\ n # 1 /\ LoopsFit(tasks, classFile) /\ t = tasks[n] /\ t.do = do
  BY <1>n, InnerLoop
<1>2. n \in 2 .. Len(tasks)  BY <1>n, <1>1
<1>3. Fits(tasks[n - 1], tasks[n], classFile)  BY <1>1, <1>2 DEF LoopsFit
<1> QED  BY <1>1, <1>3 DEF Fits

LEMMA MemberSafe ==
    ASSUME ParserOK, NEW members \in {"fields", "methods"}, ParseMember(members)
    PROVE  ParserOK' /\ Advances
<1>m. PICK member : member = [accessFlags |-> U2At(cursor), nameIndex |-> U2At(cursor + 2),
                              descriptorIndex |-> U2At(cursor + 4), attributes |-> <<>>]
  OBVIOUS
<1>n. PICK n : n = Len(tasks)  OBVIOUS
<1>t. PICK top : top = Top  OBVIOUS
<1>1. /\ Doing(members) /\ file' = file /\ outcome' = outcome /\ cursor' = cursor + 8
      /\ classFile' = [classFile EXCEPT ![members] = Append(@, member)]
      /\ tasks' = Calling(TurnOver(top), Loop("attributes", 0, U2At(cursor + 6)))
  BY <1>m, <1>t DEF ParseMember
<1>2. /\ n \in Nat /\ n > 0 /\ IsStack(tasks) /\ FileOK /\ cursor \in Nat /\ ClassShape(classFile)
      /\ top = tasks[n] /\ IsTask(top) /\ top.do = members
  BY <1>1, <1>n, <1>t, InnerLoop
<1>3. Len(classFile[members]) = top.i  BY <1>1, <1>t, MembersSoFar
<1>4. PICK p : p = cursor + 8  OBVIOUS
<1>5. p \in Nat /\ p > cursor /\ cursor + 2 \in Nat /\ cursor + 4 \in Nat /\ cursor + 6 \in Nat
  BY <1>2, <1>4
<1>6. PICK none : none = <<>>  OBVIOUS
<1>7. IsMember(member)
  <2>1. /\ U2At(cursor) \in Half /\ U2At(cursor + 2) \in Half /\ U2At(cursor + 4) \in Half
    BY <1>2, <1>5, NumbersRead
  <2>2. DOMAIN none \subseteq KnownNames  BY <1>6
  <2> QED  BY <1>6, <1>m, <2>1, <2>2, MemberMade
<1>8. PICK old : old = classFile[members]  OBVIOUS
<1>9. PICK ms : ms = Append(old, member)  OBVIOUS
<1>10. AreMembers(ms) /\ Len(ms) = top.i + 1
  <2>1. AreMembers(old)  BY <1>2, <1>8 DEF ClassShape
  <2> QED  BY <1>3, <1>7, <1>8, <1>9, <2>1, MembersGrow
<1>11. PICK class : class = WithMembers(classFile, members, ms)  OBVIOUS
<1>12. classFile' = class  BY <1>1, <1>8, <1>9, <1>11 DEF WithMembers
<1>13. /\ ClassShape(class) /\ class[members] = ms
       /\ \A do \in {"fields", "methods"} : do # members => class[do] = classFile[do]
  BY <1>2, <1>10, <1>11, MembersChanged
<1>14. PICK t : t = TurnOver(top)  OBVIOUS
<1>15. IsTask(t) /\ t.do = members /\ t.i = top.i + 1  BY <1>2, <1>14, TurnMade
<1>16. PICK u : u = Loop("attributes", 0, U2At(cursor + 6))  OBVIOUS
<1>17. IsTask(u) /\ u.do = "attributes" /\ u.name = NoName
  <2>1. U2At(cursor + 6) \in Nat /\ 0 \in Nat /\ "attributes" \in Loops
    BY <1>2, <1>5, NumbersRead DEF Loops
  <2> QED  BY <1>16, <2>1, LoopMade
<1>18. PICK ts : ts = Calling(t, u)  OBVIOUS
<1>19. Called(tasks, t, u, ts)
  <2>1. /\ IsStack(ts) /\ Len(ts) = n + 1 /\ ts[n] = t /\ ts[n + 1] = u
        /\ \A k \in 1 .. n - 1 : ts[k] = tasks[k]
    BY <1>2, <1>n, <1>18, TaskCalls
  <2> QED  BY <1>n, <2>1 DEF Called
<1>20. Fits(t, u, class)
  <2>1. members \in CallersOf("attributes") /\ "attributes" \notin Tables  BY CallersNamed
  <2>2. t.i > 0
    <3>1. top.i \in Nat  BY <1>2 DEF IsTask
    <3> QED  BY <1>15, <3>1
  <2> QED  BY <1>15, <1>17, <2>1, <2>2 DEF Fits
<1>21. MayCall(tasks, classFile, t, u, class)
  <2>1. t.do \in {"fields", "methods"} => Len(class[t.do]) = t.i  BY <1>10, <1>13, <1>15
  <2>2. \A do \in {"fields", "methods"} : do # t.do => Len(class[do]) = Len(classFile[do])
    BY <1>13, <1>15
  <2>3. t.do = tasks[n].do /\ t.do # "constants" /\ t.do # "parse"  BY <1>2, <1>15
  <2> QED  BY <1>n, <1>15, <1>17, <1>20, <2>1, <2>2, <2>3 DEF MayCall
<1>22. tasks' = ts /\ cursor' = p  BY <1>1, <1>4, <1>14, <1>16, <1>18
<1> QED  BY <1>1, <1>5, <1>12, <1>13, <1>17, <1>19, <1>21, <1>22, CallSafe

-----------------------------------------------------------------------------
(* The heads of attributes, and attributes read in one step.               *)

LEMMA KnownNamesHere ==
    /\ Gibberish \in Seq(Half)
    /\ IndexNames \subseteq KnownNames
    /\ \A kind \in {"NestMembers", "Code", "StackMapTable", "BootstrapMethods"} :
        AttributeName[kind] \in KnownNames
<1>1. Gibberish \in Seq(Half)
  <2>1. 0 \in Half  BY DEF Half
  <2> QED  BY <2>1 DEF Gibberish
<1>4. DOMAIN AttributeName = {"ConstantValue", "Code", "StackMapTable", "SourceFile",
                              "BootstrapMethods", "NestHost", "NestMembers"}
  BY DEF AttributeName
<1>5. IndexNames \subseteq KnownNames  BY <1>4 DEF IndexNames, KnownNames
<1>6. \A kind \in {"NestMembers", "Code", "StackMapTable", "BootstrapMethods"} :
        AttributeName[kind] \in KnownNames
  BY <1>4 DEF KnownNames
<1> QED  BY <1>1, <1>5, <1>6

LEMMA HeadSafe ==
    ASSUME ParserOK, ParseAttributeHead
    PROVE  ParserOK' /\ Advances
<1>t. PICK top : top = Top  OBVIOUS
<1>c. PICK constant : constant = classFile.constantPool[U2At(cursor)]  OBVIOUS
<1>m. PICK name : name = IF NameIsThere THEN constant.values ELSE Gibberish  OBVIOUS
<1>e. PICK end : end = AttributeEnd(cursor)  OBVIOUS
<1>1. /\ Doing("attributes") /\ file' = file /\ outcome' = outcome /\ classFile' = classFile
      /\ U2At(cursor) \in DOMAIN classFile.constantPool /\ cursor' = cursor + 6
      /\ tasks' = WithTop([top EXCEPT !.name = name, !.bodyEnd = end])
  BY <1>c, <1>e, <1>m, <1>t DEF ParseAttributeHead
<1>2. /\ FileOK /\ cursor \in Nat /\ ClassShape(classFile) /\ outcome = "parsing" /\ IsTask(top)
      /\ top.do = "attributes"
  BY <1>1, <1>t, InnerLoop
<1>3. PICK p : p = cursor + 6  OBVIOUS
<1>4. p \in Nat /\ p > cursor  BY <1>2, <1>3
<1>5. end \in Nat /\ p <= end  BY <1>2, <1>3, <1>e, NumbersRead
<1>6. name \in Seq(Half)
  <2>1. IsPool(classFile.constantPool)  BY <1>2 DEF ClassShape
  <2>2. constant \in [kind : Kinds, values : Seq(Half)]  BY <1>1, <1>c, <2>1 DEF IsPool
  <2>3. constant.values \in Seq(Half)  BY <2>2
  <2> QED  BY <1>m, <2>3, KnownNamesHere
<1>7. PICK half : half = [top EXCEPT !.name = name]  OBVIOUS
<1>8. IsTask(half) /\ half.do = "attributes" /\ half.name = name
  BY <1>2, <1>6, <1>7, FieldsMade
<1>9. PICK t : t = [half EXCEPT !.bodyEnd = end]  OBVIOUS
<1>10. IsTask(t) /\ t.do = "attributes" /\ t.bodyEnd = end  BY <1>5, <1>8, <1>9, FieldsMade
<1>11. tasks' = WithTop(t)
  <2>1. [top EXCEPT !.name = name, !.bodyEnd = end] =
            [[top EXCEPT !.name = name] EXCEPT !.bodyEnd = end]
    OBVIOUS
  <2> QED  BY <1>1, <1>7, <1>9, <2>1
<1>12. NotBeyond(t, p)  BY <1>5, <1>10 DEF NotBeyond
<1>13. cursor' = p /\ outcome' \in {"parsing", "aborted"}  BY <1>1, <1>2, <1>3
<1> QED  BY <1>1, <1>2, <1>4, <1>10, <1>11, <1>12, <1>13, TurnSafe

LEMMA NamelessSafe ==
    ASSUME ParserOK, AttributeWithoutName
    PROVE  ParserOK' /\ Advances
<1>1. /\ file' = file /\ outcome' = "crashed" /\ classFile' = classFile /\ tasks' = tasks
      /\ cursor' = cursor
  BY DEF AttributeWithoutName
<1>2. FileOK /\ cursor \in Nat /\ ClassShape(classFile) /\ TasksOK(tasks)  BY DEF ParserOK
<1>3. PICK p \in Nat : p = cursor  BY <1>2
<1> QED  BY <1>1, <1>2, <1>3, ParserEnds

(* An attribute is read and found.                                         *)
LEMMA FoundSafe ==
    ASSUME ParserOK, Doing("attributes"), Top.name \in KnownNames, NEW ai,
           tasks' = WithTop(Found(Top, ai)), AssertNotFound(Top),
           NEW p \in Nat, cursor' = p, p > cursor, file' = file, classFile' = classFile
    PROVE  ParserOK' /\ Advances
<1>t. PICK top : top = Top  OBVIOUS
<1>2. ClassShape(classFile) /\ outcome = "parsing" /\ IsTask(top) /\ top.do = "attributes"
  BY <1>t, InnerLoop
<1>3. outcome' \in {"parsing", "aborted"}  BY <1>2 DEF AssertNotFound
<1>4. PICK t : t = Found(top, ai)  OBVIOUS
<1>5. IsTask(t) /\ t.do = "attributes" /\ t.name = NoName  BY <1>2, <1>4, <1>t, FoundMade
<1>6. NotBeyond(t, p)  BY <1>5 DEF NotBeyond
<1>7. tasks' = WithTop(t)  BY <1>4, <1>t
<1> QED  BY <1>2, <1>3, <1>5, <1>6, <1>7, TurnSafe

LEMMA IndexSafe ==
    ASSUME ParserOK, ParseIndexAttribute
    PROVE  ParserOK' /\ Advances
<1>a. PICK ai : ai = [index |-> U2At(cursor)]  OBVIOUS
<1>1. /\ Doing("attributes") /\ Top.name \in IndexNames /\ cursor' = cursor + 2
      /\ tasks' = WithTop(Found(Top, ai)) /\ AssertNotFound(Top)
      /\ file' = file /\ classFile' = classFile
  BY <1>a DEF ParseIndexAttribute
<1>2. cursor \in Nat  BY DEF ParserOK
<1>3. PICK p : p = cursor + 2  OBVIOUS
<1>4. p \in Nat /\ p > cursor  BY <1>2, <1>3
<1>5. Top.name \in KnownNames  BY <1>1, KnownNamesHere
<1> QED  BY <1>1, <1>3, <1>4, <1>5, FoundSafe

LEMMA NestMembersSafe ==
    ASSUME ParserOK, ParseNestMembers
    PROVE  ParserOK' /\ Advances
<1>n. PICK n : n = U2At(cursor)  OBVIOUS
<1>a. PICK ai : ai = [classes |-> BytesAt(cursor + 2, n)]  OBVIOUS
<1>1. /\ Doing("attributes") /\ Top.name = AttributeName["NestMembers"] /\ cursor' = cursor + 2 + n
      /\ tasks' = WithTop(Found(Top, ai)) /\ AssertNotFound(Top)
      /\ file' = file /\ classFile' = classFile
  BY <1>a, <1>n DEF ParseNestMembers, Attribute
<1>2. cursor \in Nat /\ FileOK  BY DEF ParserOK
<1>3. PICK p : p = cursor + 2 + n  OBVIOUS
<1>4. p \in Nat /\ p > cursor
  <2>1. n \in Nat  BY <1>2, <1>n, NumbersRead
  <2> QED  BY <1>2, <1>3, <2>1
<1>5. Top.name \in KnownNames  BY <1>1, KnownNamesHere
<1> QED  BY <1>1, <1>3, <1>4, <1>5, FoundSafe

LEMMA SkipSafe ==
    ASSUME ParserOK, SkipAttribute
    PROVE  ParserOK' /\ Advances
<1>t. PICK top : top = Top  OBVIOUS
<1>n. PICK n : n = Len(tasks)  OBVIOUS
<1>0. PICK none : none = NoName  OBVIOUS
<1>1. /\ Doing("attributes") /\ file' = file /\ outcome' = outcome /\ classFile' = classFile
      /\ top.name \notin KnownNames \cup {NoName} /\ cursor' = top.bodyEnd
      /\ tasks' = WithTop(TurnOver([top EXCEPT !.name = none]))
  BY <1>0, <1>t DEF SkipAttribute
<1>2. /\ n \in Nat /\ n > 0 /\ IsStack(tasks) /\ TasksOK(tasks) /\ LoopsFit(tasks, classFile)
      /\ FileOK /\ cursor \in Nat /\ ClassShape(classFile) /\ outcome = "parsing"
      /\ NotBeyond(top, cursor) /\ top = tasks[n] /\ IsTask(top) /\ top.do = "attributes"
  BY <1>1, <1>n, <1>t, InnerLoop
<1>3. PICK p : p = top.bodyEnd  OBVIOUS
<1>4. p \in Nat /\ p >= cursor
  <2>1. p \in Nat  BY <1>2, <1>3 DEF IsTask
  <2>2. cursor <= p  BY <1>1, <1>2, <1>3 DEF NotBeyond
  <2> QED  BY <1>2, <2>1, <2>2
<1>5. PICK half : half = [top EXCEPT !.name = none]  OBVIOUS
<1>6. none \in Seq(Half) \cup {NoName}  BY <1>0
<1>7. IsTask(half) /\ half.do = "attributes" /\ half.name = none
  <2>1. \A x \in Seq(Half) \cup {NoName} : \A u : u = [top EXCEPT !.name = x] =>
            IsTask(u) /\ u.do = top.do /\ u.name = x
    BY <1>2, FieldsMade
  <2> QED  BY ONLY <1>2, <1>5, <1>6, <2>1
<1>8. PICK t : t = TurnOver(half)  OBVIOUS
<1>9. IsTask(t) /\ t.do = "attributes" /\ t.name = none  BY <1>7, <1>8, TurnMade
<1>10. PICK ts : ts = WithTop(t)  OBVIOUS
<1>11. IsStack(ts) /\ Len(ts) = n /\ ts[n] = t /\ \A k \in 1 .. n - 1 : ts[k] = tasks[k]
  BY <1>2, <1>10, <1>n, TopChanges
<1>12. Turned(tasks, t, ts)  BY <1>11, <1>n DEF Turned
<1>13. MayTurn(tasks, classFile, t, classFile)  BY <1>2, <1>9, <1>n DEF MayTurn
<1>14. TasksOK(ts) /\ LoopsFit(ts, classFile)  BY <1>2, <1>12, <1>13, TurnFits
<1>15. tasks' = ts /\ cursor' = p /\ outcome' = "parsing"  BY <1>1, <1>2, <1>3, <1>5, <1>8, <1>10
<1>16. tasks[n].name # NoName /\ ts[n].name = NoName  BY <1>0, <1>1, <1>2, <1>9, <1>11
<1> QED  BY <1>1, <1>2, <1>4, <1>11, <1>14, <1>15, <1>16, <1>n, ParserSkips

-----------------------------------------------------------------------------
(* Code, tables, frames and bootstrap methods.                             *)

LEMMA CodeSafe ==
    ASSUME ParserOK, ParseCode
    PROVE  ParserOK' /\ Advances
<1>t. PICK top : top = Top  OBVIOUS
<1>n. PICK n : n = Len(tasks)  OBVIOUS
<1>l. PICK length : length = U4At(cursor + 4)  OBVIOUS
<1>e. PICK exceptions : exceptions = cursor + 8 + length  OBVIOUS
<1>a. PICK after : after = exceptions + 2 + 8 * U2At(exceptions)  OBVIOUS
<1>c. PICK code : code = [maxStack |-> U2At(cursor), maxLocals |-> U2At(cursor + 2),
                          code |-> BytesAt(cursor + 8, length),
                          exceptionTable |-> ExceptionsAt(exceptions + 2, U2At(exceptions)),
                          attributes |-> <<>>]
  OBVIOUS
<1>1. /\ Doing("attributes") /\ top.name = AttributeName["Code"] /\ cursor' = after + 2
      /\ tasks' = Calling([top EXCEPT !.body = <<code>>], Loop("attributes", 0, U2At(after)))
      /\ file' = file /\ classFile' = classFile /\ outcome' = outcome
  BY <1>a, <1>c, <1>e, <1>l, <1>t DEF ParseCode, Attribute
<1>2. /\ n \in Nat /\ n > 0 /\ IsStack(tasks) /\ FileOK /\ cursor \in Nat /\ ClassShape(classFile)
      /\ top = tasks[n] /\ IsTask(top) /\ top.do = "attributes"
  BY <1>1, <1>n, <1>t, InnerLoop
<1>3. length \in Nat /\ exceptions \in Nat /\ exceptions > cursor
  <2>1. cursor + 4 \in Nat  BY <1>2
  <2>2. length \in Nat  BY <1>2, <1>l, <2>1, NumbersRead
  <2> QED  BY <1>2, <1>e, <2>2
<1>4. after \in Nat /\ after > cursor
  <2>1. PICK x \in Nat : x = U2At(exceptions)  BY <1>2, <1>3, NumbersRead
  <2>2. after = exceptions + 2 + 8 * x  BY <1>a, <2>1
  <2> QED  BY <1>2, <1>3, <2>1, <2>2
<1>5. PICK p : p = after + 2  OBVIOUS
<1>6. p \in Nat /\ p > cursor  BY <1>2, <1>4, <1>5
<1>7. PICK body : body = <<code>>  OBVIOUS
<1>8. PICK t : t = [top EXCEPT !.body = body]  OBVIOUS
<1>9. IsTask(t) /\ t.do = "attributes" /\ t.name = top.name /\ t.body = body
  BY <1>2, <1>8, BodyMade
<1>10. PICK u : u = Loop("attributes", 0, U2At(after))  OBVIOUS
<1>11. IsTask(u) /\ u.do = "attributes" /\ u.name = NoName
  <2>1. U2At(after) \in Nat /\ 0 \in Nat /\ "attributes" \in Loops
    BY <1>2, <1>4, NumbersRead DEF Loops
  <2> QED  BY <1>10, <2>1, LoopMade
<1>12. PICK ts : ts = Calling(t, u)  OBVIOUS
<1>13. Called(tasks, t, u, ts)
  <2>1. /\ IsStack(ts) /\ Len(ts) = n + 1 /\ ts[n] = t /\ ts[n + 1] = u
        /\ \A k \in 1 .. n - 1 : ts[k] = tasks[k]
    BY <1>2, <1>12, <1>n, TaskCalls
  <2> QED  BY <1>n, <2>1 DEF Called
<1>14. Fits(t, u, classFile)
  <2>1. "attributes" \in CallersOf("attributes") /\ "attributes" \notin Tables  BY CallersNamed
  <2>2. t.name = AttributeName.Code  BY <1>1, <1>9
  <2>3. Len(t.body) = 1  BY <1>7, <1>9
  <2> QED  BY <1>9, <1>11, <2>1, <2>2, <2>3 DEF Fits
<1>15. MayCall(tasks, classFile, t, u, classFile)
  BY <1>2, <1>9, <1>11, <1>14, <1>n DEF MayCall
<1>16. tasks' = ts /\ cursor' = p
  <2>1. tasks' = Calling(t, u)  BY <1>1, <1>7, <1>8, <1>10
  <2> QED  BY <1>1, <1>5, <1>12, <2>1
<1> QED  BY <1>1, <1>2, <1>6, <1>11, <1>13, <1>15, <1>16, CallSafe

LEMMA TableSafe ==
    ASSUME ParserOK, NEW name \in Tables, StartTable(name)
    PROVE  ParserOK' /\ Advances
<1>t. PICK top : top = Top  OBVIOUS
<1>n. PICK n : n = Len(tasks)  OBVIOUS
<1>1. /\ Doing("attributes") /\ top.name = AttributeName[name] /\ cursor' = cursor + 2
      /\ tasks' = Append(tasks, Loop(name, 0, U2At(cursor)))
      /\ file' = file /\ classFile' = classFile /\ outcome' = outcome
  BY <1>t DEF StartTable, Attribute
<1>2. /\ n \in Nat /\ n > 0 /\ IsStack(tasks) /\ FileOK /\ cursor \in Nat /\ ClassShape(classFile)
      /\ top = tasks[n] /\ IsTask(top) /\ top.do = "attributes"
  BY <1>1, <1>n, <1>t, InnerLoop
<1>3. PICK p : p = cursor + 2  OBVIOUS
<1>4. p \in Nat /\ p > cursor  BY <1>2, <1>3
<1>5. PICK u : u = Loop(name, 0, U2At(cursor))  OBVIOUS
<1>6. IsTask(u) /\ u.do = name /\ u.name = NoName
  <2>1. U2At(cursor) \in Nat /\ 0 \in Nat  BY <1>2, NumbersRead
  <2>2. name \in Loops  BY CallersNamed DEF Loops
  <2> QED  BY <1>5, <2>1, <2>2, LoopMade
<1>7. PICK ts : ts = Append(tasks, u)  OBVIOUS
<1>8. Called(tasks, top, u, ts)
  <2>1. /\ IsStack(ts) /\ Len(ts) = n + 1 /\ ts[n + 1] = u
        /\ \A k \in 1 .. n : ts[k] = tasks[k]
    BY <1>2, <1>7, <1>n, AppendStack
  <2>2. n \in 1 .. n /\ \A k \in 1 .. n - 1 : k \in 1 .. n  BY <1>2
  <2>3. ts[n] = top /\ \A k \in 1 .. n - 1 : ts[k] = tasks[k]  BY <1>2, <2>1, <2>2
  <2> QED  BY <1>n, <2>1, <2>3 DEF Called
<1>9. Fits(top, u, classFile)
  <2>1. /\ top.do \in CallersOf(name) /\ name \notin {"fields", "methods", "constants", "attributes"}
    BY <1>2, CallersNamed
  <2> QED  BY <1>1, <1>2, <1>6, <2>1 DEF Fits
<1>10. MayCall(tasks, classFile, top, u, classFile)
  BY <1>2, <1>6, <1>9, <1>n DEF MayCall
<1>11. tasks' = ts /\ cursor' = p  BY <1>1, <1>3, <1>5, <1>7
<1> QED  BY <1>1, <1>2, <1>4, <1>6, <1>8, <1>10, <1>11, CallSafe

LEMMA FrameSafe ==
    ASSUME ParserOK, ParseFrame
    PROVE  ParserOK' /\ Advances
<1>t. PICK top : top = Top  OBVIOUS
<1>n. PICK n : n = Len(tasks)  OBVIOUS
<1>p. PICK p : p = FrameAt(cursor)[1]  OBVIOUS
<1>f. PICK frame : frame = FrameAt(cursor)[2]  OBVIOUS
<1>b. PICK body : body = Append(top.body, frame)  OBVIOUS
<1>1. /\ Doing("StackMapTable") /\ cursor' = p /\ file' = file /\ classFile' = classFile
      /\ tasks' = WithTop(TurnOver([top EXCEPT !.body = body]))
      /\ outcome' = IF frame.type = "NotCaught" THEN "aborted" ELSE outcome
  BY <1>b, <1>f, <1>p, <1>t DEF ParseFrame
<1>2. /\ n \in Nat /\ n > 0 /\ IsStack(tasks) /\ TasksOK(tasks) /\ LoopsFit(tasks, classFile)
      /\ FileOK /\ cursor \in Nat /\ ClassShape(classFile) /\ outcome = "parsing"
      /\ top = tasks[n] /\ IsTask(top) /\ top.do = "StackMapTable"
  BY <1>1, <1>n, <1>t, InnerLoop
<1>3. p \in Nat /\ (frame.type # "NotCaught" => p > cursor)  BY <1>2, <1>f, <1>p, FrameEnd
<1>4. PICK half : half = [top EXCEPT !.body = body]  OBVIOUS
<1>5. IsTask(half) /\ half.do = "StackMapTable"  BY <1>2, <1>4, BodyMade
<1>6. PICK t : t = TurnOver(half)  OBVIOUS
<1>7. IsTask(t) /\ t.do = "StackMapTable"  BY <1>5, <1>6, TurnMade
<1>8. tasks' = WithTop(t)  BY <1>1, <1>4, <1>6
<1>9. NotBeyond(t, p)  BY <1>7 DEF NotBeyond
<1>10. CASE frame.type # "NotCaught"
  <2>1. outcome' \in {"parsing", "aborted"}  BY <1>1, <1>2
  <2>2. p > cursor  BY <1>3, <1>10
  <2> QED  BY <1>1, <1>2, <1>3, <1>7, <1>8, <1>9, <2>1, <2>2, TurnSafe
<1>11. CASE frame.type = "NotCaught"
  <2>1. PICK ts : ts = WithTop(t)  OBVIOUS
  <2>2. IsStack(ts) /\ Len(ts) = n /\ ts[n] = t /\ \A k \in 1 .. n - 1 : ts[k] = tasks[k]
    BY <1>2, <1>n, <2>1, TopChanges
  <2>3. TasksOK(ts)
    <3>1. Turned(tasks, t, ts)  BY <1>n, <2>2 DEF Turned
    <3>2. MayTurn(tasks, classFile, t, classFile)  BY <1>2, <1>7, <1>n DEF MayTurn
    <3> QED  BY <1>2, <3>1, <3>2, TurnFits
  <2>4. outcome' = "aborted"  BY <1>1, <1>11
  <2> QED  BY <1>1, <1>2, <1>3, <1>8, <2>1, <2>3, <2>4, ParserEnds
<1> QED  BY <1>10, <1>11

LEMMA BootstrapMethodSafe ==
    ASSUME ParserOK, ParseBootstrapMethod
    PROVE  ParserOK' /\ Advances
<1>t. PICK top : top = Top  OBVIOUS
<1>1. /\ Doing("BootstrapMethods") /\ cursor' = cursor + 4 + U2At(cursor + 2)
      /\ tasks' = WithTop(TurnOver(top))
      /\ file' = file /\ classFile' = classFile /\ outcome' = outcome
  BY <1>t DEF ParseBootstrapMethod
<1>2. /\ FileOK /\ cursor \in Nat /\ ClassShape(classFile) /\ outcome = "parsing" /\ IsTask(top)
      /\ top.do = "BootstrapMethods"
  BY <1>1, <1>t, InnerLoop
<1>3. PICK p : p = cursor + 4 + U2At(cursor + 2)  OBVIOUS
<1>4. p \in Nat /\ p > cursor
  <2>1. cursor + 2 \in Nat  BY <1>2
  <2>2. PICK x \in Nat : x = U2At(cursor + 2)  BY <1>2, <2>1, NumbersRead
  <2>3. p = cursor + 4 + x  BY <1>3, <2>2
  <2> QED  BY <1>2, <2>2, <2>3
<1>5. PICK t : t = TurnOver(top)  OBVIOUS
<1>6. IsTask(t) /\ t.do = "BootstrapMethods"  BY <1>2, <1>5, TurnMade
<1>7. NotBeyond(t, p)  BY <1>6 DEF NotBeyond
<1>8. cursor' = p /\ tasks' = WithTop(t) /\ outcome' \in {"parsing", "aborted"}
  BY <1>1, <1>2, <1>3, <1>5
<1> QED  BY <1>1, <1>2, <1>4, <1>6, <1>7, <1>8, TurnSafe

-----------------------------------------------------------------------------
(* Returns, and reading past the end.                                      *)

(* A loop that was called, and the one that called it.                     *)
LEMMA CallerLoop ==
    ASSUME ParserOK, NEW do, Doing(do), do # "parse", NEW n, n = Len(tasks) - 1,
           NEW t, t = Top, NEW c, c = Caller
    PROVE  /\ n \in Nat /\ n > 0 /\ Len(tasks) = n + 1 /\ IsStack(tasks)
           /\ TasksOK(tasks) /\ LoopsFit(tasks, classFile) /\ ClassShape(classFile)
           /\ outcome = "parsing" /\ c = tasks[n] /\ IsTask(c) /\ IsTask(t) /\ t.do = do
           /\ Fits(c, t, classFile) /\ c.do \in CallersOf(do)
           /\ n = 1 => c.do = "parse" /\ c = tasks[1]
           /\ c.do = "parse" => n = 1
<1>l. PICK l : l = Len(tasks)  OBVIOUS
<1>1. /\ l \in Nat /\ l > 0 /\ l # 1 /\ IsStack(tasks) /\ TasksOK(tasks)
      /\ LoopsFit(tasks, classFile) /\ ClassShape(classFile) /\ outcome = "parsing"
      /\ t = tasks[l] /\ IsTask(t) /\ t.do = do
  BY <1>l, InnerLoop
<1>2. n \in Nat /\ n > 0 /\ l = n + 1  BY <1>l, <1>1
<1>3. n \in 1 .. l /\ l \in 2 .. l /\ l - 1 = n  BY <1>1, <1>2
<1>4. c = tasks[n]  BY DEF Caller
<1>5. IsTask(c)
  <2>1. \A k \in 1 .. l : IsTask(tasks[k])  BY <1>l, <1>1 DEF TasksOK
  <2> QED  BY <1>3, <1>4, <2>1
<1>6. Fits(c, t, classFile)
  <2>1. \A k \in 2 .. l : Fits(tasks[k - 1], tasks[k], classFile)  BY <1>l, <1>1 DEF LoopsFit
  <2> QED  BY <1>1, <1>3, <1>4, <2>1
<1>7. c.do \in CallersOf(do)  BY <1>1, <1>6 DEF Fits
<1>8. n = 1 => c.do = "parse" /\ c = tasks[1]  BY <1>1, <1>4 DEF LoopsFit
<1>9. c.do = "parse" => n = 1
  <2>1. n \in 2 .. l => tasks[n].do # "parse"  BY <1>l, <1>1, LoopDepth
  <2>2. n = 1 \/ n \in 2 .. l  BY <1>2, <1>3
  <2> QED  BY <1>4, <2>1, <2>2
<1> QED  BY <1>l, <1>1, <1>2, <1>4, <1>5, <1>6, <1>7, <1>8, <1>9

(* The loop goes back to one that goes on unchanged, with a class file of  *)
(* as many members.                                                        *)
LEMMA BackSafe ==
    ASSUME ParserOK, NEW do \in {"constants", "fields", "methods", "attributes"}, Doing(do),
           Caller.do # "attributes", Caller.do = "parse" => do # "attributes",
           tasks' = Callers, cursor' = cursor, outcome' = outcome, file' = file,
           NEW class, classFile' = class, ClassShape(class),
           Len(class.fields) = Len(classFile.fields), Len(class.methods) = Len(classFile.methods)
    PROVE  ParserOK' /\ Advances
<1>n. PICK n : n = Len(tasks) - 1  OBVIOUS
<1>t. PICK t : t = Top  OBVIOUS
<1>c. PICK c : c = Caller  OBVIOUS
<1>1. /\ n \in Nat /\ n > 0 /\ Len(tasks) = n + 1 /\ IsStack(tasks) /\ outcome = "parsing"
      /\ c = tasks[n] /\ IsTask(c) /\ t.do = do /\ Fits(c, t, classFile)
      /\ n = 1 => c.do = "parse" /\ c = tasks[1]
  BY <1>c, <1>n, <1>t, CallerLoop
<1>2. PICK ts : ts = Callers  OBVIOUS
<1>3. IsStack(ts) /\ Len(ts) = n /\ \A k \in 1 .. n : ts[k] = tasks[k]
  BY <1>1, <1>2, <1>n, TasksReturn
<1>4. n \in 1 .. n /\ \A k \in 1 .. n - 1 : k \in 1 .. n  BY <1>1
<1>5. Returned(tasks, c, ts)  BY <1>1, <1>3, <1>4, <1>n DEF Returned
<1>6. c.do = "parse" => c.i < 5
  <2> SUFFICES ASSUME c.do = "parse" PROVE c.i < 5  OBVIOUS
  <2>1. do \in {"constants", "fields", "methods"}  BY <1>c
  <2>2. c.i = SectionOf[do]  BY <1>1 DEF Fits
  <2>3. c.i \in {1, 3, 4}  BY <2>1, <2>2, CallersNamed
  <2> QED  BY <2>3
<1>7. MayReturn(tasks, classFile, c, class)  BY <1>1, <1>6, <1>n DEF MayReturn
<1>8. c.do # "attributes"  BY <1>c
<1>9. outcome' \in {"parsing", "aborted"}  BY <1>1
<1> QED  BY <1>2, <1>5, <1>7, <1>8, <1>9, ReturnSafe

LEMMA LoopReturnSafe ==
    ASSUME ParserOK, ReturnFromLoop
    PROVE  ParserOK' /\ Advances
<1>1. PICK do \in {"constants", "fields", "methods"} : Doing(do)
  BY DEF ReturnFromLoop, Returning
<1>2. /\ tasks' = Callers /\ cursor' = cursor /\ outcome' = outcome /\ file' = file
      /\ classFile' = classFile
  BY DEF ReturnFromLoop
<1>3. ClassShape(classFile) /\ Caller.do \in CallersOf(do)  BY <1>1, CallerLoop
<1>4. Caller.do = "parse"  BY <1>3, CallersNamed
<1> QED  BY <1>1, <1>2, <1>3, <1>4, BackSafe

LEMMA MemberReturnSafe ==
    ASSUME ParserOK, ReturnToMember
    PROVE  ParserOK' /\ Advances
<1>t. PICK t : t = Top  OBVIOUS
<1>c. PICK c : c = Caller  OBVIOUS
<1>m. PICK m : m = c.do  OBVIOUS
<1>i. PICK i : i = c.i  OBVIOUS
<1>n. PICK n : n = Len(tasks) - 1  OBVIOUS
<1>f. PICK found : found = t.found  OBVIOUS
<1>1. /\ Doing("attributes") /\ m \in {"fields", "methods"} /\ tasks' = Callers
      /\ cursor' = cursor /\ outcome' = outcome /\ file' = file
      /\ classFile' = WithAttributes(classFile, m, i, found)
  BY <1>c, <1>f, <1>i, <1>m, <1>t DEF ReturnToMember, Returning, WithAttributes
<1>2. /\ n \in Nat /\ n > 0 /\ Len(tasks) = n + 1 /\ c = tasks[n] /\ LoopsFit(tasks, classFile)
      /\ ClassShape(classFile) /\ IsTask(c) /\ IsTask(t) /\ t.do = "attributes"
      /\ Fits(c, t, classFile) /\ (n = 1 => c.do = "parse")
  BY <1>1, <1>c, <1>n, <1>t, CallerLoop
<1>3. i \in Nat /\ i > 0  BY <1>1, <1>2, <1>i, <1>m DEF Fits, IsTask
<1>4. Len(classFile[m]) = i
  <2>1. n \in 2 .. Len(tasks)  BY <1>1, <1>2, <1>m
  <2>2. Fits(tasks[n - 1], tasks[n], classFile)  BY <1>2, <2>1 DEF LoopsFit
  <2> QED  BY <1>1, <1>2, <1>i, <1>m, <2>2 DEF Fits
<1>5. i \in 1 .. Len(classFile[m])  BY <1>3, <1>4
<1>6. DOMAIN found \subseteq KnownNames  BY <1>2, <1>f DEF IsTask
<1>7. PICK class : class = WithAttributes(classFile, m, i, found)  OBVIOUS
<1>8. /\ ClassShape(class) /\ Len(class.fields) = Len(classFile.fields)
      /\ Len(class.methods) = Len(classFile.methods)
  BY <1>1, <1>2, <1>5, <1>6, <1>7, MembersComplete
<1>9. Caller.do # "attributes" /\ Caller.do # "parse"  BY <1>1, <1>c, <1>m
<1> QED  BY <1>1, <1>7, <1>8, <1>9, BackSafe

(* The attribute under way is found by the loop that called.               *)
LEMMA FoundReturnSafe ==
    ASSUME ParserOK, NEW do, Doing(do), do # "parse", Caller.do = "attributes",
           Caller.name \in KnownNames, NEW ai, tasks' = CallerWith(ai), AssertNotFound(Caller),
           cursor' = cursor, file' = file, classFile' = classFile
    PROVE  ParserOK' /\ Advances
<1>n. PICK n : n = Len(tasks) - 1  OBVIOUS
<1>c. PICK c : c = Caller  OBVIOUS
<1>1. /\ n \in Nat /\ n > 0 /\ Len(tasks) = n + 1 /\ IsStack(tasks) /\ outcome = "parsing"
      /\ ClassShape(classFile) /\ c = tasks[n] /\ IsTask(c) /\ (n = 1 => c.do = "parse")
  <2>1. PICK top : top = Top  OBVIOUS
  <2> QED  BY <1>c, <1>n, <2>1, CallerLoop
<1>2. PICK t : t = Found(c, ai)  OBVIOUS
<1>3. IsTask(t) /\ t.do = "attributes" /\ t.name = NoName  BY <1>1, <1>2, <1>c, FoundMade
<1>4. PICK ts : ts = CallerWith(ai)  OBVIOUS
<1>5. IsStack(ts) /\ Len(ts) = n /\ ts[n] = t /\ \A k \in 1 .. n - 1 : ts[k] = tasks[k]
  BY <1>1, <1>2, <1>4, <1>c, <1>n, TasksReturn
<1>6. Returned(tasks, t, ts)  BY <1>5, <1>n DEF Returned
<1>7. c.do = "attributes" /\ n # 1  BY <1>1, <1>c
<1>8. MayReturn(tasks, classFile, t, classFile)  BY <1>1, <1>3, <1>7, <1>n DEF MayReturn
<1>9. outcome' \in {"parsing", "aborted"}  BY <1>1 DEF AssertNotFound
<1> QED  BY <1>1, <1>3, <1>4, <1>6, <1>8, <1>9, ReturnSafe

LEMMA TableReturnSafe ==
    ASSUME ParserOK, NEW name \in Tables, ReturnTable(name)
    PROVE  ParserOK' /\ Advances
<1>a. PICK ai : ai = [entries |-> Top.body]  OBVIOUS
<1>1. /\ Doing(name) /\ tasks' = CallerWith(ai) /\ AssertNotFound(Caller)
      /\ cursor' = cursor /\ file' = file /\ classFile' = classFile
  BY <1>a DEF ReturnTable, Returning
<1>2. name \in {"StackMapTable", "BootstrapMethods"}  BY CallersNamed
<1>3. Caller.do \in CallersOf(name) /\ Fits(Caller, Top, classFile) /\ Top.do = name
  BY <1>1, <1>2, CallerLoop
<1>4. Caller.do = "attributes"  BY <1>2, <1>3, CallersNamed
<1>5. Caller.name = AttributeName[name]  BY <1>3 DEF Fits
<1>6. Caller.name \in KnownNames  BY <1>2, <1>5, KnownNamesHere
<1> QED  BY <1>1, <1>2, <1>4, <1>6, FoundReturnSafe

LEMMA CodeReturnSafe ==
    ASSUME ParserOK, ReturnToCode
    PROVE  ParserOK' /\ Advances
<1>a. PICK ai : ai = [Caller.body[1] EXCEPT !.attributes = Top.found]  OBVIOUS
<1>1. /\ Doing("attributes") /\ Caller.do = "attributes" /\ tasks' = CallerWith(ai)
      /\ AssertNotFound(Caller) /\ cursor' = cursor /\ file' = file /\ classFile' = classFile
  BY <1>a DEF ReturnToCode, Returning
<1>2. Fits(Caller, Top, classFile) /\ Top.do = "attributes"  BY <1>1, CallerLoop
<1>3. Caller.name = AttributeName["Code"]  BY <1>1, <1>2 DEF Fits
<1>4. Caller.name \in KnownNames  BY <1>3, KnownNamesHere
<1> QED  BY <1>1, <1>4, FoundReturnSafe

LEMMA NoTasks == TasksOK(<<>>)
<1>1. Len(<<>>) = 0 /\ IsStack(<<>>)  BY NoneIsSeq, SeqIsStack
<1>2. \A k \in 1 .. 0 : IsTask(<<>>[k])  OBVIOUS
<1> QED  BY <1>1, <1>2 DEF TasksOK

LEMMA ClassFileReturnSafe ==
    ASSUME ParserOK, ReturnClassFile
    PROVE  ParserOK' /\ Advances
<1>f. PICK found : found = Top.found  OBVIOUS
<1>1. /\ Doing("attributes") /\ tasks' = <<>> /\ file' = file /\ cursor' = cursor
      /\ classFile' = [classFile EXCEPT !.attributes = found]
      /\ outcome' \in {"parsed", "aborted"}
  BY <1>f DEF ReturnClassFile, Returning
<1>2. FileOK /\ cursor \in Nat /\ ClassShape(classFile)  BY DEF ParserOK
<1>3. PICK class : class = [classFile EXCEPT !.attributes = found]  OBVIOUS
<1>4. ClassShape(class)  BY <1>2, <1>3, PartsChanged
<1>5. PICK ts : ts = <<>>  OBVIOUS
<1>6. TasksOK(ts)  BY <1>5, NoTasks
<1>7. FileOK' /\ cursor' \in Nat  BY <1>1, <1>2 DEF FileOK
<1>8. TasksOK(tasks)'  BY <1>1, <1>5, <1>6 DEF TasksOK
<1>9. ClassShape(classFile)'  BY <1>1, <1>3, <1>4 DEF ClassShape
<1>10. outcome' \in Outcomes /\ outcome' # "parsing"  BY <1>1 DEF Outcomes
<1> QED  BY <1>1, <1>7, <1>8, <1>9, <1>10 DEF ParserOK, Advances

LEMMA OverrunSafe ==
    ASSUME ParserOK, Overrun
    PROVE  ParserOK' /\ Advances
<1>1. /\ file' = file /\ outcome' = "overrun" /\ classFile' = classFile /\ tasks' = tasks
      /\ cursor' = cursor
  BY DEF Overrun
<1>2. FileOK /\ cursor \in Nat /\ ClassShape(classFile) /\ TasksOK(tasks)  BY DEF ParserOK
<1>3. PICK p \in Nat : p = cursor  BY <1>2
<1> QED  BY <1>1, <1>2, <1>3, ParserEnds

LEMMA ParserStepSafe ==
    ASSUME ParserOK, ParserNext
    PROVE  ParserOK' /\ Advances
<1>1. ASSUME NEW members \in {"fields", "methods"}, StartMembers(members) \/ ParseMember(members)
      PROVE  ParserOK' /\ Advances
  BY <1>1, MemberSafe, SectionsSafe
<1>2. ASSUME NEW name \in Tables, StartTable(name) \/ ReturnTable(name)
      PROVE  ParserOK' /\ Advances
  BY <1>2, TableSafe, TableReturnSafe
<1>3. \/ ParseVersion \/ ParseConstant \/ ParseAccess
      \/ \E members \in {"fields", "methods"} : StartMembers(members) \/ ParseMember(members)
      \/ StartClassAttributes
      \/ ParseAttributeHead \/ AttributeWithoutName
      \/ ParseIndexAttribute \/ ParseNestMembers \/ SkipAttribute \/ ParseCode
      \/ \E name \in Tables : StartTable(name) \/ ReturnTable(name)
      \/ ParseFrame \/ ParseBootstrapMethod
      \/ ReturnFromLoop \/ ReturnToCode \/ ReturnToMember \/ ReturnClassFile
      \/ Overrun
  BY DEF ParserNext
<1> QED
  BY <1>1, <1>2, <1>3, VersionSafe, ConstantSafe, AccessSafe, SectionsSafe, HeadSafe, NamelessSafe,
     IndexSafe, NestMembersSafe, SkipSafe, CodeSafe, FrameSafe, BootstrapMethodSafe,
     LoopReturnSafe, CodeReturnSafe, MemberReturnSafe, ClassFileReturnSafe, OverrunSafe

-----------------------------------------------------------------------------
(* Loading any file.                                                       *)

LEMMA LoadingStarts == DecoderInit => ParserOK /\ DecoderOK
<1> SUFFICES ASSUME DecoderInit PROVE ParserOK /\ DecoderOK  OBVIOUS
<1>1. IsClassFile(written) /\ file = WriteClassFile(written)
  BY WellFormedFiles DEF DecoderInit, ParserInit
<1>2. FileOK  BY <1>1, ClassFileWritten
<1>3. /\ cursor = 0 /\ tasks = <<Loop("parse", 0, 5)>> /\ outcome = "parsing" /\ methods = <<>>
      /\ classFile = [version |-> <<>>, access |-> <<>>, constantPool |-> <<>>,
                      interfaces |-> <<>>, fields |-> <<>>, methods |-> <<>>, attributes |-> <<>>]
      /\ decoding = [index |-> 0, underWay |-> FALSE, argString |-> <<>>, retString |-> <<>>,
                      argTypes |-> <<>>]
  BY DEF DecoderInit, ParserInit
<1>4. PICK t : t = Loop("parse", 0, 5)  OBVIOUS
<1>5. IsTask(t) /\ t.do = "parse" /\ t.i = 0
  <2>1. "parse" \in Loops /\ 0 \in Nat /\ 5 \in Nat  BY DEF Loops
  <2> QED  BY <1>4, <2>1, LoopMade
<1>6. IsStack(tasks) /\ Len(tasks) = 1 /\ tasks[1] = t  BY <1>3, <1>4, ShortStacks
<1>7. TasksOK(tasks)
  <2>1. \A k \in 1 .. 1 : k = 1  OBVIOUS
  <2> QED  BY <1>5, <1>6, <2>1 DEF TasksOK
<1>8. PICK none : none = <<>>  OBVIOUS
<1>9. IsStack(none) /\ Len(none) = 0 /\ DOMAIN none = {}
  <2>1. IsStack(none) /\ Len(none) = 0  BY <1>8, NoneIsSeq, SeqIsStack
  <2> QED  BY <1>8, <2>1
<1>10. AreMembers(none)  BY <1>9 DEF AreMembers
<1>11. IsPool(none)  BY <1>9 DEF IsPool
<1>12. classFile = [version |-> none, access |-> none, constantPool |-> none,
                    interfaces |-> none, fields |-> none, methods |-> none, attributes |-> none]
  BY <1>3, <1>8
<1>13. ClassShape(classFile)  BY <1>10, <1>11, <1>12 DEF ClassShape
<1>14. LoopsFit(tasks, classFile)
  <2>1. \A k \in 2 .. 1 : FALSE  OBVIOUS
  <2>2. Len(classFile.fields) = 0 /\ Len(classFile.methods) = 0  BY <1>9, <1>12
  <2> QED  BY <1>5, <1>6, <2>1, <2>2 DEF LoopsFit
<1>15. NotBeyond(Top, cursor)
  <2>1. Top = t  BY <1>6 DEF Top
  <2> QED  BY <1>5, <2>1 DEF NotBeyond
<1>16. ParserOK  BY <1>2, <1>3, <1>7, <1>13, <1>14, <1>15 DEF ParserOK, Outcomes
<1>17. DecoderOK  BY <1>3 DEF DecoderOK, IsDecoding
<1> QED  BY <1>16, <1>17

(* While a class file is decoded, it stays as it was parsed.               *)
LEMMA DecodingSafe ==
    ASSUME ParserOK, outcome = "parsed", UNCHANGED <<file, cursor, tasks, classFile>>,
           outcome' \in {"parsed", "decoded", "aborted", "crashed"}
    PROVE  ParserOK'
<1>1. FileOK' /\ cursor' \in Nat /\ TasksOK(tasks)' /\ ClassShape(classFile)'
  BY DEF ParserOK, FileOK, TasksOK, ClassShape
<1>2. tasks' = <<>>  BY DEF ParserOK
<1> QED  BY <1>1, <1>2 DEF ParserOK, Outcomes

LEMMA MethodStartSafe ==
    ASSUME ParserOK, DecoderOK, StartMethod
    PROVE  ParserOK' /\ DecoderOK'
<1>d. PICK d : d = decoding  OBVIOUS
<1>c. PICK class : class = classFile  OBVIOUS
<1>1. /\ outcome = "parsed" /\ outcome' = outcome /\ UNCHANGED <<file, cursor, tasks, classFile>>
      /\ methods' = methods /\ d.index + 1 <= Len(class.methods)
  BY <1>c, <1>d DEF StartMethod, Starting, NextMethod
<1>s. PICK s, r : decoding' = [index |-> d.index + 1, underWay |-> TRUE, argTypes |-> <<>>,
                               argString |-> s, retString |-> r]
  BY <1>d DEF StartMethod, NextMethod
<1>2. ParserOK'  BY <1>1, DecodingSafe
<1>3. DOMAIN methods \subseteq Half /\ d.index \in Nat  BY <1>d DEF DecoderOK
<1>4. Len(class.methods) \in Nat  BY <1>c DEF ParserOK, ClassShape, AreMembers, IsStack
<1>5. d.index + 1 \in 1 .. Len(class.methods) /\ d.index + 1 \in Nat  BY <1>1, <1>3, <1>4
<1>6. classFile' = class  BY <1>1, <1>c
<1>7. DecoderOK'  BY <1>1, <1>3, <1>5, <1>6, <1>s DEF DecoderOK, IsDecoding
<1> QED  BY <1>2, <1>7

LEMMA MethodFailureSafe ==
    ASSUME ParserOK, DecoderOK, MethodFails
    PROVE  ParserOK' /\ DecoderOK'
<1>1. /\ outcome = "parsed" /\ outcome' \in {"aborted", "crashed"}
      /\ UNCHANGED <<file, cursor, tasks, classFile, methods, decoding>>
  BY DEF MethodFails, Starting
<1>2. ParserOK'  BY <1>1, DecodingSafe
<1>3. DecoderOK'  BY <1>1 DEF DecoderOK
<1> QED  BY <1>2, <1>3

LEMMA TypeSafe ==
    ASSUME ParserOK, DecoderOK, ParseType
    PROVE  ParserOK' /\ DecoderOK'
<1>1. /\ outcome = "parsed" /\ outcome' \in {"parsed", "aborted"}
      /\ UNCHANGED <<file, cursor, tasks, classFile, methods>>
  BY DEF ParseType
<1>2. ParserOK'  BY <1>1, DecodingSafe
<1>3. /\ DOMAIN methods \subseteq Half /\ decoding.index \in Nat
      /\ IsDecoding(decoding)
      /\ decoding.underWay => decoding.index \in 1 .. Len(classFile.methods)
  BY DEF DecoderOK
<1>4. PICK d : d = decoding  OBVIOUS
<1>5. \E s, r, types : decoding' = [index |-> d.index, underWay |-> d.underWay,
                                    argString |-> s, retString |-> r, argTypes |-> types]
  <2>1. CASE decoding' = decoding  BY <1>3, <1>4, <2>1 DEF IsDecoding
  <2>2. CASE decoding' # decoding
    <3>1. PICK s, types : decoding' = [d EXCEPT !.argString = s, !.argTypes = types]
      BY <1>4, <2>2 DEF ParseType
    <3>2. [d EXCEPT !.argString = s, !.argTypes = types] =
            [[d EXCEPT !.argString = s] EXCEPT !.argTypes = types]
      OBVIOUS
    <3>3. PICK e : e = [d EXCEPT !.argString = s]  OBVIOUS
    <3>4. e = [index |-> d.index, underWay |-> d.underWay, argString |-> s,
               retString |-> d.retString, argTypes |-> d.argTypes]
      BY <1>3, <1>4, <3>3 DEF IsDecoding
    <3>5. decoding' = [e EXCEPT !.argTypes = types]  BY <3>1, <3>2, <3>3
    <3>6. decoding' = [index |-> d.index, underWay |-> d.underWay, argString |-> s,
                       retString |-> d.retString, argTypes |-> types]
      BY <3>4, <3>5
    <3> QED  BY <3>6
  <2> QED  BY <2>1, <2>2
<1>6. DecoderOK'  BY <1>1, <1>3, <1>4, <1>5 DEF DecoderOK, IsDecoding
<1> QED  BY <1>2, <1>6

LEMMA MethodAddedSafe ==
    ASSUME ParserOK, DecoderOK, AddMethod
    PROVE  ParserOK' /\ DecoderOK'
<1>d. PICK d : d = decoding  OBVIOUS
<1>c. PICK class : class = classFile  OBVIOUS
<1>i. PICK info : info = class.methods[d.index]  OBVIOUS
<1>0. PICK over : over = FALSE  OBVIOUS
<1>1. /\ outcome = "parsed" /\ outcome' \in {"parsed", "crashed"} /\ d.underWay
      /\ UNCHANGED <<file, cursor, tasks, classFile>>
      /\ decoding' = [d EXCEPT !.underWay = over]
      /\ methods' = methods \/ \E x : methods' = Entered(methods, info.nameIndex, x)
  BY <1>0, <1>c, <1>d, <1>i DEF AddMethod
<1>2. ParserOK'  BY <1>1, DecodingSafe
<1>3. /\ DOMAIN methods \subseteq Half /\ d.index \in Nat
      /\ IsDecoding(d) /\ d.index \in 1 .. Len(class.methods)
  BY <1>1, <1>c, <1>d DEF DecoderOK
<1>4. decoding' = [index |-> d.index, underWay |-> over, argString |-> d.argString,
                   retString |-> d.retString, argTypes |-> d.argTypes]
  BY <1>1, <1>3 DEF IsDecoding
<1>5. info.nameIndex \in Half
  <2>1. AreMembers(class.methods)  BY <1>c DEF ParserOK, ClassShape
  <2>2. IsMember(info)  BY <1>3, <1>i, <2>1 DEF AreMembers
  <2> QED  BY <2>2 DEF IsMember, HasNumbers
<1>6. DOMAIN methods' \subseteq Half
  <2>1. CASE methods' = methods  BY <1>3, <2>1
  <2>2. CASE methods' # methods
    <3>1. PICK x : methods' = Entered(methods, info.nameIndex, x)  BY <1>1, <2>2
    <3>2. DOMAIN methods' = DOMAIN methods \cup {info.nameIndex}  BY <3>1 DEF Entered
    <3> QED  BY <1>3, <1>5, <3>2
  <2> QED  BY <2>1, <2>2
<1>7. DecoderOK'
  <2>1. ~decoding'.underWay /\ decoding'.index = d.index  BY <1>0, <1>4
  <2>2. IsDecoding(decoding')  BY <1>4 DEF IsDecoding
  <2> QED  BY <1>3, <1>6, <2>1, <2>2 DEF DecoderOK
<1> QED  BY <1>2, <1>7

LEMMA LoadingStep == ParserOK /\ DecoderOK /\ [Next]_vars => ParserOK' /\ DecoderOK'
<1> SUFFICES ASSUME ParserOK, DecoderOK, [Next]_vars PROVE ParserOK' /\ DecoderOK'  OBVIOUS
<1>1. CASE ParserNext /\ UNCHANGED <<methods, decoding>>
  <2>1. ParserOK'  BY <1>1, ParserStepSafe
  <2>2. outcome = "parsing"  BY <1>1, OnlyParsing
  <2>3. DecoderOK'  BY <1>1, <2>2 DEF DecoderOK
  <2> QED  BY <2>1, <2>3
<1>2. CASE ReturnProgram
  <2>1. /\ outcome = "parsed" /\ outcome' = "decoded"
        /\ UNCHANGED <<file, cursor, tasks, classFile, methods, decoding>>
    BY <1>2 DEF ReturnProgram
  <2>2. ParserOK'  BY <2>1, DecodingSafe
  <2>3. DecoderOK'  BY <2>1 DEF DecoderOK
  <2> QED  BY <2>2, <2>3
<1>3. CASE UNCHANGED vars
  <2>1. UNCHANGED <<file, cursor, tasks, classFile, outcome, methods, decoding>>
    BY <1>3 DEF vars
  <2>2. Top' = Top  BY <2>1 DEF Top
  <2>3. /\ FileOK' /\ TasksOK(tasks)' /\ ClassShape(classFile)'
        /\ LoopsFit(tasks, classFile) => LoopsFit(tasks, classFile)'
        /\ NotBeyond(Top, cursor) => NotBeyond(Top, cursor)'
    BY <2>1, <2>2 DEF ParserOK, FileOK, TasksOK, ClassShape, LoopsFit, NotBeyond
  <2>4. ParserOK'  BY <2>1, <2>3 DEF ParserOK
  <2>5. DecoderOK'  BY <2>1 DEF DecoderOK
  <2> QED  BY <2>4, <2>5
<1> QED
  BY <1>1, <1>2, <1>3, MethodStartSafe, MethodFailureSafe, TypeSafe, MethodAddedSafe DEF Next, Stop

LEMMA LoadingSafe == Spec => [](ParserOK /\ DecoderOK)
BY LoadingStarts, LoadingStep, PTL DEF Spec

(* Whatever the file, readable or not, what the parser and the decoder have *)
(* stored so far is well-typed, and no loop is under way once it is parsed. *)
THEOREM LoadingTypes == Spec => []LoadingTypeOK
<1>1. ParserOK /\ DecoderOK => LoadingTypeOK
  <2> SUFFICES ASSUME ParserOK, DecoderOK PROVE LoadingTypeOK  OBVIOUS
  <2>1. \A k \in DOMAIN tasks : IsTask(tasks[k])
    BY StackDomain DEF ParserOK, TasksOK
  <2>2. outcome = "parsing" => tasks # <<>> /\ Nested
    <3> SUFFICES ASSUME outcome = "parsing" PROVE tasks # <<>> /\ Nested  OBVIOUS
    <3>1. LoopsFit(tasks, classFile) /\ IsStack(tasks)  BY DEF ParserOK, TasksOK
    <3>2. tasks # <<>>  BY <3>1, StackNotEmpty DEF LoopsFit
    <3>3. Nested  BY <3>1 DEF LoopsFit, Fits, Nested
    <3> QED  BY <3>2, <3>3
  <2>3. \A members \in {"fields", "methods"} :
            \A k \in DOMAIN classFile[members] : IsMember(classFile[members][k])
    <3>1. AreMembers(classFile.fields) /\ AreMembers(classFile.methods)
      BY DEF ParserOK, ClassShape
    <3> QED  BY <3>1, StackDomain DEF AreMembers
  <2>4. IsPool(classFile.constantPool)  BY DEF ParserOK, ClassShape
  <2>5. /\ outcome \in Outcomes /\ cursor \in Nat /\ DOMAIN methods \subseteq Half
        /\ outcome \in {"parsed", "decoded"} => tasks = <<>>
    BY DEF ParserOK, DecoderOK
  <2> QED  BY <2>1, <2>2, <2>3, <2>4, <2>5 DEF LoadingTypeOK, IsPool
<1> QED  BY <1>1, LoadingSafe, PTL

(* Whatever the file, every step of the parser reads on in the file or gets *)
(* nearer to the end of a loop, so that no file is parsed forever.          *)
THEOREM ParsingAdvances == Spec => ParserAdvances
<1>1. ParserOK /\ [Next]_vars =>
        [outcome = "parsing" /\ outcome' = "parsing" => Before(Remaining', Remaining)]_vars
  <2> SUFFICES ASSUME ParserOK, Next, outcome = "parsing", outcome' = "parsing"
               PROVE  Before(Remaining', Remaining)
    OBVIOUS
  <2>1. ParserNext
    BY DEF Next, Starting, StartMethod, MethodFails, ParseType, AddMethod, ReturnProgram, Stop
  <2> QED  BY <2>1, ParserStepSafe DEF Advances
<1> QED  BY <1>1, LoadingSafe, PTL DEF ParserAdvances, Spec

=============================================================================
