------------------------ MODULE ClassLoadingProperties ------------------------
(***************************************************************************)
(* What parser and decoder are to make of a class file.                    *)
(***************************************************************************)
EXTENDS Decoder

Outcomes == {"parsing", "parsed", "decoded", "aborted", "crashed", "overrun"}

Loops ==
    {"parse", "constants", "fields", "methods", "attributes", "StackMapTable", "BootstrapMethods"}

(* Type invariant, of every file, also of one that is misread.  The calls  *)
(* under way nest as the code nests them, those for the attributes of code *)
(* to any depth, and a member whose attributes are read is the last one.   *)
IsTask(t) ==
    /\ t = [do |-> t.do, i |-> t.i, n |-> t.n, found |-> t.found, name |-> t.name,
            body |-> t.body, bodyEnd |-> t.bodyEnd]
    /\ t.do \in Loops /\ t.i \in Nat /\ t.n \in Nat /\ t.bodyEnd \in Nat
    /\ DOMAIN t.found \subseteq KnownNames
    /\ t.name \in Seq(Half) \cup {NoName}

CallersOf(do) ==
    CASE do \in {"constants", "fields", "methods"} -> {"parse"}
      [] do \in Tables                             -> {"attributes"}
      [] do = "attributes" -> {"parse", "fields", "methods", "attributes"}
      [] OTHER             -> {}

Nested ==
    /\ tasks[1].do = "parse" /\ tasks[1].i \in 0 .. 5
    /\ Len(tasks) = 1 => tasks[1].i < 5
    /\ \A k \in 2 .. Len(tasks) :
        /\ tasks[k - 1].do \in CallersOf(tasks[k].do)
        /\ tasks[k].do \in {"fields", "methods"} => Len(classFile[tasks[k].do]) = tasks[k].i
        /\ tasks[k].do \in Tables => tasks[k - 1].name = AttributeName[tasks[k].do]
        /\ tasks[k].do = "attributes" /\ tasks[k - 1].do = "attributes" =>
            tasks[k - 1].name = AttributeName.Code /\ Len(tasks[k - 1].body) = 1

IsMember(m) ==
    /\ m = [accessFlags |-> m.accessFlags, nameIndex |-> m.nameIndex,
            descriptorIndex |-> m.descriptorIndex, attributes |-> m.attributes]
    /\ HasNumbers(m) /\ DOMAIN m.attributes \subseteq KnownNames

LoadingTypeOK ==
    /\ outcome \in Outcomes
    /\ cursor \in Nat
    /\ \A k \in DOMAIN tasks : IsTask(tasks[k])
    /\ IF outcome \in {"parsed", "decoded"} THEN tasks = <<>>
       ELSE outcome = "parsing" => tasks # <<>> /\ Nested
    /\ DOMAIN classFile.constantPool \subseteq Nat \ {0}
    /\ \A index \in DOMAIN classFile.constantPool :
        classFile.constantPool[index] \in [kind : Kinds, values : Seq(Half)]
    /\ \A members \in {"fields", "methods"} :
        \A k \in DOMAIN classFile[members] : IsMember(classFile[members][k])
    /\ DOMAIN methods \subseteq Half

-----------------------------------------------------------------------------
(* The files that are read as they are written: no class with nested       *)
(* classes, no bootstrap methods, no frame of tag 247.                     *)
Readable(cf) ==
    /\ \A a \in Range(cf.attributes) :
        a.name \notin {AttributeName.NestMembers, AttributeName.BootstrapMethods}
    /\ \A m \in Range(cf.methods) : \A a \in Range(m.attributes) :
        a.name = AttributeName.Code =>
            \A b \in Range(a.info.attributes) :
                b.name = AttributeName.StackMapTable => \A f \in Range(b.info.entries) : f.tag # 247

(* The methods that a Program can hold: with code, one of each name, and   *)
(* no object among its parameters but strings.                             *)
Decodable(cf) ==
    /\ \A m \in Range(cf.methods) :
        /\ \E a \in Range(m.attributes) : a.name = AttributeName.Code
        /\ \A type \in Range(m.types) : Last(type) \in BaseTypes
    /\ \A i, j \in DOMAIN cf.methods : cf.methods[i].nameIndex = cf.methods[j].nameIndex => i = j

(* Whatever the file, parsing it ends: every step goes on in the file, or  *)
(* returns from a loop, or is done with an attribute without contents, or  *)
(* is the last one.  Lengths, counts and tags come from the file, and what *)
(* is read by its structure may end anywhere.                              *)
Remaining == <<Len(file) - cursor, Len(tasks), IF tasks # <<>> /\ Top.name # NoName THEN 1 ELSE 0>>

Before(r, s) ==
    \/ r[1] < s[1]
    \/ r[1] = s[1] /\ r[2] < s[2]
    \/ r[1] = s[1] /\ r[2] = s[2] /\ r[3] < s[3]

ParserAdvances ==
    [][outcome = "parsing" /\ outcome' = "parsing" => Before(Remaining', Remaining)]_vars

(* Such a file never fails an assertion, is never read past its end, and   *)
(* nothing in it is taken for what it is not: the assertions of parse and  *)
(* parseAttributeInfo, and the casts and iterators they rely on.           *)
ReadableIsLoaded ==
    Readable(written) /\ Decodable(written) => outcome \in {"parsing", "parsed", "decoded"}

(* Known attributes are read by what they should contain and unknown ones  *)
(* skipped by their length.  The two agree: each ends where its length says*)
AttributesKeepToTheirLength ==
    [][Readable(written) =>
        \A k \in DOMAIN tasks \cap DOMAIN tasks' :
            /\ tasks[k].do = "attributes" /\ tasks'[k].do = "attributes"
            /\ tasks'[k].i = tasks[k].i + 1
            => cursor' = tasks[k].bodyEnd]_vars

-----------------------------------------------------------------------------
(* The class file as the program keeps it: attributes it knows, by name,   *)
(* and constants by index.                                                 *)
KeptAs(attributes, infos) ==
    LET Known == {k \in DOMAIN attributes : attributes[k].name \in KnownNames}
    IN  [name \in {attributes[k].name : k \in Known} |->
            infos[CHOOSE k \in Known : attributes[k].name = name]]

FrameType(tag) ==
    CASE tag \in 0 .. 63    -> "Same"
      [] tag \in 64 .. 127  -> "SameLocals"
      [] tag = 247          -> "SameLocalsExtended"
      [] tag \in 248 .. 250 -> "Chop"
      [] tag = 251          -> "SameExtended"
      [] tag \in 252 .. 254 -> "Append"
      [] tag = 255          -> "Full"

KeptFrame(f) ==
    [type |-> FrameType(f.tag), locals |-> f.locals, stack |-> f.stack,
     offsetDelta |-> IF f.tag >= 247 THEN <<f.offsetDelta>> ELSE <<>>]

KeptInfo(a) ==
    IF a.name = AttributeName.StackMapTable
    THEN [entries |-> [k \in DOMAIN a.info.entries |-> KeptFrame(a.info.entries[k])]]
    ELSE [index |-> a.info.index]

KeptInfos(attributes) == KeptAs(attributes, [k \in DOMAIN attributes |-> KeptInfo(attributes[k])])

KeptCode(code) ==
    [maxStack |-> code.maxStack, maxLocals |-> code.maxLocals, code |-> code.code,
     exceptionTable |-> code.exceptionTable, attributes |-> KeptInfos(code.attributes)]

KeptAny(a) == IF a.name = AttributeName.Code THEN KeptCode(a.info) ELSE KeptInfo(a)

KeptAnys(attributes) == KeptAs(attributes, [k \in DOMAIN attributes |-> KeptAny(attributes[k])])

KeptMember(m) ==
    [accessFlags |-> m.accessFlags, nameIndex |-> m.nameIndex,
     descriptorIndex |-> m.descriptorIndex, attributes |-> KeptAnys(m.attributes)]

Kept(cf) ==
    [version |-> cf.version, access |-> cf.access, constantPool |-> PoolOf(cf.constants),
     interfaces |-> cf.interfaces,
     fields  |-> [k \in DOMAIN cf.fields |-> KeptMember(cf.fields[k])],
     methods |-> [k \in DOMAIN cf.methods |-> KeptMember(cf.methods[k])],
     attributes |-> KeptInfos(cf.attributes)]

(* What comes out of the parser is what went into the file, each constant  *)
(* under the index the rest of the file uses for it.                       *)
ParsedAsWritten ==
    Readable(written) /\ outcome \in {"parsed", "decoded"} => classFile = Kept(written)

-----------------------------------------------------------------------------
(* Every method is found under the index of its name, with its own code,   *)
(* the types of its parameters and that of its result.                     *)
MethodsAsWritten ==
    Readable(written) /\ Decodable(written) /\ outcome = "decoded" =>
        /\ DOMAIN methods = {m.nameIndex : m \in Range(written.methods)}
        /\ \A m \in Range(written.methods) :
            /\ methods[m.nameIndex].argTypes = m.types
            /\ Last(m.result) \in BaseTypes => methods[m.nameIndex].retType = m.result
            /\ methods[m.nameIndex].code = KeptMember(m).attributes[AttributeName.Code]
=============================================================================
