------------------------------ MODULE ClassFile ------------------------------
(***************************************************************************)
(* The structures of a class file, and the bytes javac writes for them:    *)
(* every structure is its members in order, numbers big-endian.            *)
(***************************************************************************)
EXTENDS Naturals, SequencesExt

Byte == {n \in Nat : n < 256}
Half == {n \in Nat : n < 65536}

U1(n) == <<n>>
U2(n) == <<n \div 256, n % 256>>
U4(n) == U2(n \div 65536) \o U2(n % 65536)

WriteAll(Write(_), items) == FlattenSeq([i \in DOMAIN items |-> Write(items[i])])

(* A table is preceded by its length.                                      *)
WriteTable(Write(_), items) == U2(Len(items)) \o WriteAll(Write, items)

IsTable(items) == Len(items) \in Half /\ items = [k \in 1 .. Len(items) |-> items[k]]

(* A map with an entry, which takes the place of one with the same key.    *)
Entered(map, key, value) ==
    [k \in DOMAIN map \cup {key} |-> IF k = key THEN value ELSE map[k]]

(* A length fits in a u4.                                                  *)
FitsU4(n) == n \div 65536 \in Half

-----------------------------------------------------------------------------
(* cp_info: the tag of each kind of constant, and how many u2 follow; a u4 *)
(* is two of them (TLC's numbers have 31 bits).                            *)
Layout(tag, halves) == [tag |-> tag, halves |-> halves]

IndexConstants ==
    [Class |-> Layout(7, 1), FieldRef |-> Layout(9, 2), MethodRef |-> Layout(10, 2),
     InterfaceMethodRef |-> Layout(11, 2), String |-> Layout(8, 1)]

NumberConstants ==
    [Integer |-> Layout(3, 2), Float |-> Layout(4, 2),
     Long |-> Layout(5, 4), Double |-> Layout(6, 4)]

(* The characters of a Utf8 follow, and a method handle begins with a byte.*)
OtherConstants ==
    [NameAndType |-> Layout(12, 2), Utf8 |-> Layout(1, 0), MethodHandle |-> Layout(15, 0),
     MethodType |-> Layout(16, 1), InvokeDynamic |-> Layout(18, 2)]

Kinds == DOMAIN IndexConstants \cup DOMAIN NumberConstants \cup DOMAIN OtherConstants

CPInfo(kind) ==
    CASE kind \in DOMAIN IndexConstants  -> IndexConstants[kind]
      [] kind \in DOMAIN NumberConstants -> NumberConstants[kind]
      [] kind \in DOMAIN OtherConstants  -> OtherConstants[kind]

(* A constant is [kind, values]; a Utf8's values are its characters.       *)
IsConstant(c) ==
    /\ c \in [kind : Kinds, values : Seq(Half)]
    /\ CASE c.kind = "Utf8"         -> c.values \in Seq(Byte) /\ IsTable(c.values)
         [] c.kind = "MethodHandle" -> Len(c.values) = 2 /\ c.values[1] \in Byte
         [] OTHER                   -> Len(c.values) = CPInfo(c.kind).halves

WriteConstant(c) ==
    U1(CPInfo(c.kind).tag)
    \o CASE c.kind = "Utf8"         -> WriteTable(U1, c.values)
         [] c.kind = "MethodHandle" -> U1(c.values[1]) \o U2(c.values[2])
         [] OTHER                   -> WriteAll(U2, c.values)

(* Indices start at 1, and long and double take two of them.               *)
IndicesOf(c) == IF c.kind \in {"Long", "Double"} THEN 2 ELSE 1

PoolIndices(constants) ==
    LET index[i \in 1 .. Len(constants) + 1] ==
            IF i = 1 THEN 1 ELSE index[i - 1] + IndicesOf(constants[i - 1])
    IN  index

PoolCount(constants) == PoolIndices(constants)[Len(constants) + 1]

PoolOf(constants) ==
    LET index == PoolIndices(constants)
    IN  [k \in {index[i] : i \in DOMAIN constants} |->
            constants[CHOOSE i \in DOMAIN constants : index[i] = k]]

IsName(constants, name) ==
    \E i \in DOMAIN constants : constants[i].kind = "Utf8" /\ constants[i].values = name

NameIndex(constants, name) ==
    PoolIndices(constants)[CHOOSE i \in DOMAIN constants :
                               constants[i].kind = "Utf8" /\ constants[i].values = name]

-----------------------------------------------------------------------------
(* Attributes are [name, info].  A name is one character here.             *)
AttributeName ==
    [ConstantValue |-> <<1>>, Code |-> <<2>>, StackMapTable |-> <<3>>, SourceFile |-> <<4>>,
     BootstrapMethods |-> <<5>>, NestHost |-> <<6>>, NestMembers |-> <<7>>]

KnownNames == {AttributeName[kind] : kind \in DOMAIN AttributeName}

(* ConstantValue, SourceFile and NestHost are one index.                   *)
IndexNames == {AttributeName[kind] : kind \in {"ConstantValue", "SourceFile", "NestHost"}}

IsException(e) == e \in [startPC : Half, endPC : Half, handlerPC : Half, catchType : Half]

WriteException(e) == U2(e.startPC) \o U2(e.endPC) \o U2(e.handlerPC) \o U2(e.catchType)

(* A verification_type_info is its tag, with an index or offset if the tag *)
(* is that of an object (7) or of an uninitialized value (8).              *)
IsVerification(v) ==
    \/ v = <<v[1]>> /\ v[1] \in Byte \ {7, 8}
    \/ v = <<v[1], v[2]>> /\ v[1] \in {7, 8} /\ v[2] \in Half

WriteVerification(v) ==
    U1(v[1]) \o IF v[1] \in {7, 8} THEN U2(v[2]) ELSE <<>>

AreVerifications(vs) == IsTable(vs) /\ \A k \in DOMAIN vs : IsVerification(vs[k])

(* A frame [tag, offsetDelta, locals, stack]: the tag says what follows.   *)
IsFrame(f) ==
    /\ f.tag \in (0 .. 127) \cup (247 .. 255) /\ f.offsetDelta \in Half
    /\ AreVerifications(f.locals) /\ AreVerifications(f.stack)
    /\ f.tag # 255 => /\ Len(f.locals) = IF f.tag \in 252 .. 254 THEN f.tag - 251 ELSE 0
                      /\ Len(f.stack) = IF f.tag \in (64 .. 127) \cup {247} THEN 1 ELSE 0

WriteFrame(f) ==
    U1(f.tag)
    \o (IF f.tag >= 247 THEN U2(f.offsetDelta) ELSE <<>>)
    \o (IF f.tag = 255 THEN U2(Len(f.locals)) ELSE <<>>)
    \o WriteAll(WriteVerification, f.locals)
    \o (IF f.tag = 255 THEN U2(Len(f.stack)) ELSE <<>>)
    \o WriteAll(WriteVerification, f.stack)

WriteBootstrapMethod(b) == U2(b.methodRef) \o WriteTable(U2, b.arguments)

WriteAttribute(constants, name, info) ==
    U2(NameIndex(constants, name)) \o U4(Len(info)) \o info

(* What a member or a class, and what code, can have as attributes.        *)
SimpleInfo(a) ==
    CASE a.name \in IndexNames                -> U2(a.info.index)
      [] a.name = AttributeName.NestMembers   -> WriteTable(U2, a.info.classes)
      [] a.name = AttributeName.StackMapTable -> WriteTable(WriteFrame, a.info.entries)
      [] a.name = AttributeName.BootstrapMethods ->
            WriteTable(WriteBootstrapMethod, a.info.bootstrapMethods)
      [] OTHER -> a.info.bytes

WriteSimpleAttribute(constants, a) == WriteAttribute(constants, a.name, SimpleInfo(a))

WriteCode(constants, code) ==
    LET Write(a) == WriteSimpleAttribute(constants, a)
    IN  U2(code.maxStack) \o U2(code.maxLocals)
        \o U4(Len(code.code)) \o code.code
        \o WriteTable(WriteException, code.exceptionTable)
        \o WriteTable(Write, code.attributes)

WriteAnyAttribute(constants, a) ==
    IF a.name = AttributeName.Code
    THEN WriteAttribute(constants, a.name, WriteCode(constants, a.info))
    ELSE WriteSimpleAttribute(constants, a)

WriteMember(constants, m) ==
    LET Write(a) == WriteAnyAttribute(constants, a)
    IN  U2(m.accessFlags) \o U2(m.nameIndex) \o U2(m.descriptorIndex)
        \o WriteTable(Write, m.attributes)

(* version is the two halves of the magic number, minor and major; access  *)
(* is <<flags, this, super>>.                                              *)
WriteClassFile(cf) ==
    LET Attribute(a) == WriteAnyAttribute(cf.constants, a)
        Member(m)    == WriteMember(cf.constants, m)
    IN  WriteAll(U2, cf.version)
        \o U2(PoolCount(cf.constants))
        \o WriteAll(WriteConstant, cf.constants)
        \o WriteAll(U2, cf.access)
        \o WriteTable(U2, cf.interfaces)
        \o WriteTable(Member, cf.fields)
        \o WriteTable(Member, cf.methods)
        \o WriteTable(Attribute, cf.attributes)

-----------------------------------------------------------------------------
(* Descriptors.  A type is its base types: an array of int is List, Int.   *)
Characters ==
    [I |-> 73, J |-> 74, F |-> 70, D |-> 68, V |-> 86, Z |-> 90, L |-> 76,
     array |-> 91, open |-> 40, close |-> 41, dollar |-> 36, end |-> 59, letter |-> 97]

NameOfString == [k \in 1 .. 16 |-> Characters.letter]

(* Boolean stands for the types of one letter that a program has no type   *)
(* for, Object for the classes but java.lang.String.                       *)
JavaTypes == {"Int", "Long", "Float", "Double", "Boolean", "String", "Object"}

BaseCharacters(base) ==
    CASE base = "Int"     -> <<Characters.I>>
      [] base = "Long"    -> <<Characters.J>>
      [] base = "Float"   -> <<Characters.F>>
      [] base = "Double"  -> <<Characters.D>>
      [] base = "Void"    -> <<Characters.V>>
      [] base = "Boolean" -> <<Characters.Z>>
      [] base = "String"  -> <<Characters.L>> \o NameOfString \o <<Characters.end>>
      [] base = "Object"  -> <<Characters.L, Characters.letter, Characters.end>>

CharactersOf(type) ==
    [k \in 1 .. Len(type) - 1 |-> Characters.array] \o BaseCharacters(Last(type))

Descriptor(types, result) ==
    <<Characters.open>> \o WriteAll(CharactersOf, types) \o <<Characters.close>>
    \o CharactersOf(result)

IsType(type) ==
    /\ type \in Seq({"List"} \cup JavaTypes) /\ type # <<>>
    /\ \A k \in DOMAIN type : IF k = Len(type) THEN type[k] # "List" ELSE type[k] = "List"

(* The descriptor of a method is in the pool.                              *)
HasDescriptor(constants, m) ==
    /\ IsTable(m.types) /\ \A k \in DOMAIN m.types : IsType(m.types[k])
    /\ IsType(m.result) \/ m.result = <<"Void">>
    /\ m.descriptorIndex \in DOMAIN PoolOf(constants)
    /\ LET descriptor == PoolOf(constants)[m.descriptorIndex]
       IN  descriptor.kind = "Utf8" /\ descriptor.values = Descriptor(m.types, m.result)

-----------------------------------------------------------------------------
(* What javac writes: numbers in their width, names that are in the pool,  *)
(* attributes where they belong and none the parser knows twice.           *)
NamesOf(kinds) == {AttributeName[kind] : kind \in kinds}

AreAttributes(constants, attributes, kinds) ==
    /\ IsTable(attributes)
    /\ \A k \in DOMAIN attributes :
        /\ IsName(constants, attributes[k].name)
        /\ attributes[k].name \in KnownNames => attributes[k].name \in NamesOf(kinds)
    /\ \A j, k \in DOMAIN attributes :
        attributes[j].name = attributes[k].name /\ attributes[j].name \in KnownNames => j = k

IsBootstrapMethod(b) == b.methodRef \in Half /\ b.arguments \in Seq(Half) /\ IsTable(b.arguments)

IsSimpleInfo(a) ==
    /\ CASE a.name \in IndexNames                -> a.info.index \in Half
         [] a.name = AttributeName.NestMembers   ->
               a.info.classes \in Seq(Half) /\ IsTable(a.info.classes)
         [] a.name = AttributeName.StackMapTable ->
               /\ IsTable(a.info.entries)
               /\ \A k \in DOMAIN a.info.entries : IsFrame(a.info.entries[k])
         [] a.name = AttributeName.BootstrapMethods ->
               LET bs == a.info.bootstrapMethods
               IN  IsTable(bs) /\ \A k \in DOMAIN bs : IsBootstrapMethod(bs[k])
         [] OTHER -> a.info.bytes \in Seq(Byte)
    /\ FitsU4(Len(SimpleInfo(a)))

AreSimpleAttributes(constants, attributes, kinds) ==
    /\ AreAttributes(constants, attributes, kinds)
    /\ \A k \in DOMAIN attributes : IsSimpleInfo(attributes[k])

IsCode(constants, code) ==
    /\ code.maxStack \in Half /\ code.maxLocals \in Half
    /\ code.code \in Seq(Byte) /\ FitsU4(Len(code.code))
    /\ IsTable(code.exceptionTable)
    /\ \A k \in DOMAIN code.exceptionTable : IsException(code.exceptionTable[k])
    /\ AreSimpleAttributes(constants, code.attributes, {"StackMapTable"})
    /\ FitsU4(Len(WriteCode(constants, code)))

AreMethodAttributes(constants, attributes) ==
    /\ AreAttributes(constants, attributes, {"Code"})
    /\ \A k \in DOMAIN attributes :
        IF attributes[k].name = AttributeName.Code
        THEN IsCode(constants, attributes[k].info)
        ELSE IsSimpleInfo(attributes[k])

HasNumbers(m) == m.accessFlags \in Half /\ m.nameIndex \in Half /\ m.descriptorIndex \in Half

IsClassFile(cf) ==
    /\ cf.version \in Seq(Half) /\ Len(cf.version) = 4
    /\ IsTable(cf.constants) /\ PoolCount(cf.constants) \in Half
    /\ \A i \in DOMAIN cf.constants : IsConstant(cf.constants[i])
    /\ cf.access \in Seq(Half) /\ Len(cf.access) = 3
    /\ cf.interfaces \in Seq(Half) /\ IsTable(cf.interfaces)
    /\ IsTable(cf.fields) /\ IsTable(cf.methods)
    /\ \A k \in DOMAIN cf.fields :
        /\ HasNumbers(cf.fields[k])
        /\ AreSimpleAttributes(cf.constants, cf.fields[k].attributes, {"ConstantValue"})
    /\ \A k \in DOMAIN cf.methods :
        /\ HasNumbers(cf.methods[k]) /\ HasDescriptor(cf.constants, cf.methods[k])
        /\ AreMethodAttributes(cf.constants, cf.methods[k].attributes)
    /\ AreSimpleAttributes(cf.constants, cf.attributes,
                           {"SourceFile", "BootstrapMethods", "NestHost", "NestMembers"})
=============================================================================
