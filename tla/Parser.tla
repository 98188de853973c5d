-------------------------------- MODULE Parser --------------------------------
(***************************************************************************)
(* Parser::parse: a cursor that moves over the bytes of a class file.  The *)
(* calls and loops under way are a stack of tasks; an action is one turn   *)
(* of a loop, with the reads it makes.                                     *)
(***************************************************************************)
EXTENDS ClassFile

CONSTANTS
    ClassFiles    \* the class files, with constants as a sequence

ASSUME WellFormedFiles == \A cf \in ClassFiles : IsClassFile(cf)

VARIABLES
    written,      \* the class file
    file,         \* its bytes
    cursor,       \* how many bytes have been passed
    tasks,        \* the innermost loop last
    classFile,    \* what has been parsed
    outcome       \* "parsing", "parsed", "decoded", or how it ended otherwise

parserVars == <<written, file, cursor, tasks, classFile, outcome>>

-----------------------------------------------------------------------------
(* Numbers at a place of the file.  Past its end the read is undefined     *)
(* behaviour: any byte will do, since nothing is parsed after it.          *)
ByteAt(at) == IF at < Len(file) THEN file[at + 1] ELSE 0
U2At(at) == 256 * ByteAt(at) + ByteAt(at + 1)
U4At(at) == 65536 * U2At(at) + U2At(at + 2)

(* Of what should be n items, each at least a byte, what the file can hold.*)
Bounded(n) == IF n <= Len(file) THEN n ELSE Len(file)

HalvesAt(at, n) == [k \in 1 .. Bounded(n) |-> U2At(at + 2 * (k - 1))]
BytesAt(at, n) == [k \in 1 .. Bounded(n) |-> ByteAt(at + k - 1)]

(* Mutant of HalvesOf: the second u4 of a double is not read.              *)
HalvesOfShortDouble(kind) ==
    CASE kind \in {"Class", "String", "MethodType"} -> 1
      [] kind \in {"FieldRef", "MethodRef", "InterfaceMethodRef", "NameAndType",
                   "InvokeDynamic", "Integer", "Float", "Double"} -> 2
      [] kind = "Long" -> 4

(* How many u2 are read for a constant of each kind, a u4 being two.       *)
HalvesOf(kind) ==
    CASE kind \in {"Class", "String", "MethodType"} -> 1
      [] kind \in {"FieldRef", "MethodRef", "InterfaceMethodRef", "NameAndType",
                   "InvokeDynamic", "Integer", "Float"} -> 2
      [] kind \in {"Long", "Double"} -> 4

KindsOf(tag) == {kind \in Kinds : CPInfo(kind).tag = tag}
KindOf(tag) == IF KindsOf(tag) = {} THEN "unrecognized" ELSE CHOOSE kind \in KindsOf(tag) : TRUE

ConstantAt(at, kind) ==
    [kind |-> kind,
     values |-> CASE kind = "Utf8"         -> BytesAt(at + 3, U2At(at + 1))
                  [] kind = "MethodHandle" -> <<ByteAt(at + 1), U2At(at + 2)>>
                  [] OTHER                 -> HalvesAt(at + 1, HalvesOf(kind))]

ConstantWidth(at, kind) ==
    1 + CASE kind = "Utf8"         -> 2 + U2At(at + 1)
          [] kind = "MethodHandle" -> 3
          [] kind = "unrecognized" -> 0
          [] OTHER                 -> 2 * HalvesOf(kind)

(* Mutant of VerificationWidth: only objects come with an index.           *)
VerificationWidthOfObject(at) == IF ByteAt(at) = 7 THEN 3 ELSE 1

VerificationWidth(at) == IF ByteAt(at) \in {7, 8} THEN 3 ELSE 1

VerificationAt(at) ==
    IF ByteAt(at) \in {7, 8} THEN <<ByteAt(at), U2At(at + 1)>> ELSE <<ByteAt(at)>>

(* Where each of n verification infos ends, the first of which begins at   *)
(* a place.                                                                *)
VerificationsFrom(at, n) ==
    LET place[k \in 0 .. n] ==
            IF k = 0 THEN at ELSE place[k - 1] + VerificationWidth(place[k - 1])
    IN  place

(* n verification infos: <<where they end, the infos>>.                    *)
VerificationsAt(at, n) ==
    LET count == Bounded(n)
        place == VerificationsFrom(at, count)
    IN  <<place[count], [k \in 1 .. count |-> VerificationAt(place[k - 1])]>>

ParsedFrame(type, offset, locals, stack) ==
    [type |-> type, offsetDelta |-> offset, locals |-> locals, stack |-> stack]

(* A stack map frame: <<where it ends, the frame>>, with offsetDelta <<>>  *)
(* when it is not read.  Tag 247 is not followed by an offset here.        *)
FrameAt(at) ==
    LET tag    == ByteAt(at)
        offset == <<U2At(at + 1)>>
        one    == VerificationsAt(at + 1, 1)
        locals == VerificationsAt(at + 3, tag - 251)
        all    == VerificationsAt(at + 5, U2At(at + 3))
        items  == VerificationsAt(all[1] + 2, U2At(all[1]))
    IN  CASE tag < 64       -> <<at + 1, ParsedFrame("Same", <<>>, <<>>, <<>>)>>
          [] tag >= 64 /\ tag < 128 ->
                <<one[1], ParsedFrame("SameLocals", <<>>, <<>>, one[2])>>
          [] tag = 247      -> <<one[1], ParsedFrame("SameLocalsExtended", <<>>, <<>>, one[2])>>
          [] tag >= 248 /\ tag < 251 -> <<at + 3, ParsedFrame("Chop", offset, <<>>, <<>>)>>
          [] tag = 251      -> <<at + 3, ParsedFrame("SameExtended", offset, <<>>, <<>>)>>
          [] tag >= 252 /\ tag < 255 ->
                <<locals[1], ParsedFrame("Append", offset, locals[2], <<>>)>>
          [] tag = 255      -> <<items[1], ParsedFrame("Full", offset, all[2], items[2])>>
          [] tag >= 128 /\ tag < 247 -> <<at, ParsedFrame("NotCaught", <<>>, <<>>, <<>>)>>

-----------------------------------------------------------------------------
(* The mark for no attribute under way: no name of the file, nor the empty *)
(* one, since its members are no characters.                               *)
NoName == <<65536>>

(* Tasks.  A loop makes turns i + 1 to n and is left when i >= n.  For     *)
(* parseAttributeInfo, found is the map it will return, and name the       *)
(* attribute under way, if any, which should end at bodyEnd.  body is what *)
(* has been read of a table, or of a Code attribute before its own.        *)
Loop(do, i, n) ==
    [do |-> do, i |-> i, n |-> n, found |-> <<>>, name |-> NoName, body |-> <<>>, bodyEnd |-> 0]

Top == tasks[Len(tasks)]
TurnOver(task) == [task EXCEPT !.i = @ + 1]
WithTop(task) == [tasks EXCEPT ![Len(tasks)] = task]
Calling(task, called) == Append(WithTop(task), called)
Doing(do) == outcome = "parsing" /\ cursor <= Len(file) /\ Top.do = do
LoopDone(task) == task.do # "parse" /\ task.i >= task.n

(* The attribute under way enters the map.                                 *)
Found(task, ai) ==
    TurnOver([task EXCEPT !.found = Entered(@, task.name, ai), !.name = NoName, !.body = <<>>])

(* assert(finder == attributes.end()).                                     *)
AssertNotFound(task) ==
    outcome' = IF task.name \in DOMAIN task.found THEN "aborted" ELSE outcome

-----------------------------------------------------------------------------
ParserInit ==
    /\ written \in ClassFiles
    /\ file = WriteClassFile(written)
    /\ cursor = 0
    /\ tasks = <<Loop("parse", 0, 5)>>
    /\ classFile = [version |-> <<>>, access |-> <<>>, constantPool |-> <<>>, interfaces |-> <<>>,
                    fields |-> <<>>, methods |-> <<>>, attributes |-> <<>>]
    /\ outcome = "parsing"

(* Mutant of FirstIndex, which the pool has no constant at.                *)
FirstIndexZero == 0

FirstIndex == 1

(* The class file's sections: magic number and version, then constants.    *)
ParseVersion ==
    /\ Doing("parse") /\ Top.i = 0
    /\ classFile' = [classFile EXCEPT !.version = HalvesAt(cursor, 4)]
    /\ cursor' = cursor + 10
    /\ tasks' = Calling(TurnOver(Top), Loop("constants", FirstIndex, U2At(cursor + 8)))
    /\ UNCHANGED <<written, file, outcome>>

(* The loop's i++ and, for long and double, another.                       *)
Advance(kind) == IF kind \in {"Long", "Double"} THEN 2 ELSE 1

(* A constant; one with an unknown tag is one byte and has no entry.       *)
ParseConstant ==
    /\ Doing("constants") /\ ~LoopDone(Top)
    /\ LET kind == KindOf(ByteAt(cursor))
       IN  /\ cursor' = cursor + ConstantWidth(cursor, kind)
           /\ classFile' = [classFile EXCEPT !.constantPool =
                    IF kind = "unrecognized" THEN @ ELSE Entered(@, Top.i, ConstantAt(cursor, kind))]
           /\ tasks' = WithTop([Top EXCEPT !.i = @ + Advance(kind)])
    /\ UNCHANGED <<written, file, outcome>>

(* Access flags, this class, its super class, interfaces.                  *)
ParseAccess ==
    /\ Doing("parse") /\ Top.i = 1
    /\ LET count == U2At(cursor + 6)
       IN  /\ classFile' = [classFile EXCEPT !.access = HalvesAt(cursor, 3),
                                             !.interfaces = HalvesAt(cursor + 8, count)]
           /\ cursor' = cursor + 8 + 2 * count
    /\ tasks' = WithTop(TurnOver(Top))
    /\ UNCHANGED <<written, file, outcome>>

(* parseFields and parseMethods differ in where the members go.            *)
StartMembers(members) ==
    /\ Doing("parse") /\ Top.i = IF members = "fields" THEN 2 ELSE 3
    /\ cursor' = cursor + 2
    /\ tasks' = Calling(TurnOver(Top), Loop(members, 0, U2At(cursor)))
    /\ UNCHANGED <<written, file, classFile, outcome>>

ParseMember(members) ==
    /\ Doing(members) /\ ~LoopDone(Top)
    /\ LET member == [accessFlags |-> U2At(cursor), nameIndex |-> U2At(cursor + 2),
                      descriptorIndex |-> U2At(cursor + 4), attributes |-> <<>>]
       IN  classFile' = [classFile EXCEPT ![members] = Append(@, member)]
    /\ cursor' = cursor + 8
    /\ tasks' = Calling(TurnOver(Top), Loop("attributes", 0, U2At(cursor + 6)))
    /\ UNCHANGED <<written, file, outcome>>

StartClassAttributes ==
    /\ Doing("parse") /\ Top.i = 4
    /\ cursor' = cursor + 2
    /\ tasks' = Calling(TurnOver(Top), Loop("attributes", 0, U2At(cursor)))
    /\ UNCHANGED <<written, file, classFile, outcome>>

-----------------------------------------------------------------------------
(* parseAttributeInfo: name and length, then what the name asks for.       *)
NameIsThere ==
    LET index == U2At(cursor)
    IN  /\ index \in DOMAIN classFile.constantPool
        /\ classFile.constantPool[index].kind = "Utf8"

(* Some string that is no known name.                                      *)
Gibberish == <<0>>

(* Mutant of AttributeEnd: the length is taken to include the head.        *)
AttributeEndFromHead(at) == at + U4At(at + 2)

AttributeEnd(at) == at + 6 + U4At(at + 2)

(* A null pointer for a constant that is not there: the process ends.  Any *)
(* other constant is cast to a Utf8: undefined behaviour, which ends the   *)
(* process or finds what is no known name.                                 *)
ParseAttributeHead ==
    /\ Doing("attributes") /\ ~LoopDone(Top) /\ Top.name = NoName
    /\ U2At(cursor) \in DOMAIN classFile.constantPool
    /\ cursor' = cursor + 6
    /\ tasks' = WithTop([Top EXCEPT
            !.name = IF NameIsThere THEN classFile.constantPool[U2At(cursor)].values
                                    ELSE Gibberish,
            !.bodyEnd = AttributeEnd(cursor)])
    /\ UNCHANGED <<written, file, classFile, outcome>>

AttributeWithoutName ==
    /\ Doing("attributes") /\ ~LoopDone(Top) /\ Top.name = NoName
    /\ ~NameIsThere
    /\ outcome' = "crashed"
    /\ UNCHANGED <<written, file, cursor, tasks, classFile>>

Attribute(name) == Doing("attributes") /\ Top.name = AttributeName[name]

(* ConstantValue, SourceFile and NestHost are one index.                   *)
ParseIndexAttribute ==
    /\ Doing("attributes") /\ Top.name \in IndexNames
    /\ cursor' = cursor + 2
    /\ tasks' = WithTop(Found(Top, [index |-> U2At(cursor)]))
    /\ AssertNotFound(Top)
    /\ UNCHANGED <<written, file, classFile>>

(* The classes of NestMembers are read as bytes.                           *)
ParseNestMembers ==
    /\ Attribute("NestMembers")
    /\ cursor' = cursor + 2 + U2At(cursor)
    /\ tasks' = WithTop(Found(Top, [classes |-> BytesAt(cursor + 2, U2At(cursor))]))
    /\ AssertNotFound(Top)
    /\ UNCHANGED <<written, file, classFile>>

(* Only what is not known is passed over by its length.                    *)
SkipAttribute ==
    /\ Doing("attributes") /\ Top.name \notin KnownNames \cup {NoName}
    /\ cursor' = Top.bodyEnd
    /\ tasks' = WithTop(TurnOver([Top EXCEPT !.name = NoName]))
    /\ UNCHANGED <<written, file, classFile, outcome>>

(* Mutant of ExceptionsAt: its entries overlap.                            *)
ExceptionsAtOverlapping(at, n) ==
    [k \in 1 .. Bounded(n) |->
        LET entry == HalvesAt(at + 6 * (k - 1), 4)
        IN  [startPC |-> entry[1], endPC |-> entry[2],
             handlerPC |-> entry[3], catchType |-> entry[4]]]

ExceptionsAt(at, n) ==
    [k \in 1 .. Bounded(n) |->
        LET entry == HalvesAt(at + 8 * (k - 1), 4)
        IN  [startPC |-> entry[1], endPC |-> entry[2],
             handlerPC |-> entry[3], catchType |-> entry[4]]]

(* Code, up to its own attributes.                                         *)
ParseCode ==
    /\ Attribute("Code")
    /\ LET length     == U4At(cursor + 4)
           exceptions == cursor + 8 + length
           after      == exceptions + 2 + 8 * U2At(exceptions)
           code == [maxStack |-> U2At(cursor), maxLocals |-> U2At(cursor + 2),
                    code |-> BytesAt(cursor + 8, length),
                    exceptionTable |-> ExceptionsAt(exceptions + 2, U2At(exceptions)),
                    attributes |-> <<>>]
       IN  /\ cursor' = after + 2
           /\ tasks' = Calling([Top EXCEPT !.body = <<code>>],
                               Loop("attributes", 0, U2At(after)))
    /\ UNCHANGED <<written, file, classFile, outcome>>

(* StackMapTable and BootstrapMethods are tables of their own.             *)
Tables == {"StackMapTable", "BootstrapMethods"}

StartTable(name) ==
    /\ Attribute(name)
    /\ cursor' = cursor + 2
    /\ tasks' = Append(tasks, Loop(name, 0, U2At(cursor)))
    /\ UNCHANGED <<written, file, classFile, outcome>>

ParseFrame ==
    /\ Doing("StackMapTable") /\ ~LoopDone(Top)
    /\ cursor' = FrameAt(cursor)[1]
    /\ tasks' = WithTop(TurnOver([Top EXCEPT !.body = Append(@, FrameAt(cursor)[2])]))
    /\ outcome' = IF FrameAt(cursor)[2].type = "NotCaught" THEN "aborted" ELSE outcome
    /\ UNCHANGED <<written, file, classFile>>

(* The arguments are read as bytes, and the method is not kept.            *)
ParseBootstrapMethod ==
    /\ Doing("BootstrapMethods") /\ ~LoopDone(Top)
    /\ cursor' = cursor + 4 + U2At(cursor + 2)
    /\ tasks' = WithTop(TurnOver(Top))
    /\ UNCHANGED <<written, file, classFile, outcome>>

-----------------------------------------------------------------------------
(* Returns: the attributes found belong to the code, the member or the     *)
(* class that asked for them.                                              *)
Caller == tasks[Len(tasks) - 1]
Callers == Front(tasks)
CallerWith(ai) == [Callers EXCEPT ![Len(Callers)] = Found(Caller, ai)]
Returning(do) == Doing(do) /\ LoopDone(Top)

ReturnFromLoop ==
    /\ Returning("constants") \/ Returning("fields") \/ Returning("methods")
    /\ tasks' = Callers
    /\ UNCHANGED <<written, file, cursor, classFile, outcome>>

ReturnTable(name) ==
    /\ Returning(name)
    /\ tasks' = CallerWith([entries |-> Top.body])
    /\ AssertNotFound(Caller)
    /\ UNCHANGED <<written, file, cursor, classFile>>

ReturnToCode ==
    /\ Returning("attributes") /\ Caller.do = "attributes"
    /\ tasks' = CallerWith([Caller.body[1] EXCEPT !.attributes = Top.found])
    /\ AssertNotFound(Caller)
    /\ UNCHANGED <<written, file, cursor, classFile>>

ReturnToMember ==
    /\ Returning("attributes") /\ Caller.do \in {"fields", "methods"}
    /\ tasks' = Callers
    /\ classFile' = [classFile EXCEPT ![Caller.do][Caller.i].attributes = Top.found]
    /\ UNCHANGED <<written, file, cursor, outcome>>

(* parse() returns: assert(classCursor == classBytes.end()).               *)
ReturnClassFile ==
    /\ Returning("attributes") /\ Caller.do = "parse"
    /\ tasks' = <<>>
    /\ classFile' = [classFile EXCEPT !.attributes = Top.found]
    /\ outcome' = IF cursor = Len(file) THEN "parsed" ELSE "aborted"
    /\ UNCHANGED <<written, file, cursor>>

(* Something was read, or is about to be, that is not in the file.         *)
Overrun ==
    /\ outcome = "parsing" /\ cursor > Len(file)
    /\ outcome' = "overrun"
    /\ UNCHANGED <<written, file, cursor, tasks, classFile>>

ParserNext ==
    \/ ParseVersion \/ ParseConstant \/ ParseAccess
    \/ \E members \in {"fields", "methods"} : StartMembers(members) \/ ParseMember(members)
    \/ StartClassAttributes
    \/ ParseAttributeHead \/ AttributeWithoutName
    \/ ParseIndexAttribute \/ ParseNestMembers \/ SkipAttribute \/ ParseCode
    \/ \E name \in Tables : StartTable(name) \/ ReturnTable(name)
    \/ ParseFrame \/ ParseBootstrapMethod
    \/ ReturnFromLoop \/ ReturnToCode \/ ReturnToMember \/ ReturnClassFile
    \/ Overrun
=============================================================================
