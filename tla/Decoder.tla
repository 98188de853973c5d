------------------------------- MODULE Decoder -------------------------------
(***************************************************************************)
(* Decoder::decode: the methods of the class file become the methods of    *)
(* the program, under the pool index of their name.                        *)
(***************************************************************************)
EXTENDS Parser

VARIABLES
    methods,     \* Program::methods
    decoding     \* the method under way: [index, underWay, argString, retString, argTypes]

vars == <<written, file, cursor, tasks, classFile, outcome, methods, decoding>>

BaseTypes == {"Int", "Long", "Float", "Double", "Void", "String", "List"}

BaseTypeOf(character) ==
    CASE character = Characters.I -> "Int"
      [] character = Characters.F -> "Float"
      [] character = Characters.D -> "Double"
      [] character = Characters.V -> "Void"
      [] character = Characters.J -> "Long"
      [] OTHER -> "String"

(* getTypeFromString: the first type of a string.  Where the string ends,  *)
(* the character is a null.                                                *)
TypeFromString(string) ==
    LET other  == SelectInSeq(string, LAMBDA c : c # Characters.array)
        arrays == IF other = 0 THEN Len(string) ELSE other - 1
    IN  [k \in 1 .. arrays |-> "List"]
        \o <<IF other = 0 THEN "String" ELSE BaseTypeOf(string[other])>>

(* How much of the string that type is taken to be: every object is taken  *)
(* for a java.lang.String.                                                 *)
TypeStringLength(type) == Len(type) - 1 + IF Last(type) = "String" THEN 18 ELSE 1

-----------------------------------------------------------------------------
DecoderInit ==
    /\ ParserInit
    /\ methods = <<>>
    /\ decoding = [index |-> 0, underWay |-> FALSE, argString |-> <<>>, retString |-> <<>>,
                   argTypes |-> <<>>]

(* typesRegex: where in a string there are parentheses with none that     *)
(* closes between them, and at least one character that is no dollar after.*)
Parentheses(string) ==
    {p \in (DOMAIN string) \X (DOMAIN string) :
        /\ p[1] < p[2] /\ p[2] < Len(string)
        /\ string[p[1]] = Characters.open /\ string[p[2]] = Characters.close
        /\ \A k \in p[1] + 1 .. p[2] - 1 : string[k] # Characters.close
        /\ string[p[2] + 1] # Characters.dollar}

(* regex_search finds the first ones.  They enclose argString, and what    *)
(* follows them, up to a dollar, is retString.                             *)
FirstParentheses(string) ==
    CHOOSE p \in Parentheses(string) : \A q \in Parentheses(string) : p[1] <= q[1]

ArgString(string) ==
    LET p == FirstParentheses(string) IN SubSeq(string, p[1] + 1, p[2] - 1)

RetString(string) ==
    LET rest   == SubSeq(string, FirstParentheses(string)[2] + 1, Len(string))
        dollar == SelectInSeq(rest, LAMBDA c : c = Characters.dollar)
    IN  IF dollar = 0 THEN rest ELSE SubSeq(rest, 1, dollar - 1)

NextMethod == decoding.index + 1
NextDescriptor == classFile.methods[NextMethod].descriptorIndex
Starting ==
    /\ outcome = "parsed" /\ ~decoding.underWay
    /\ NextMethod <= Len(classFile.methods)

(* What may be found at a method's descriptorIndex.  A constant that is no *)
(* Utf8 is cast to one: undefined behaviour, which ends the process or     *)
(* finds some string, one that the regex matches or one that it does not.  *)
IsUtf8 == classFile.constantPool[NextDescriptor].kind = "Utf8"

DescriptorsFound ==
    IF NextDescriptor \notin DOMAIN classFile.constantPool THEN {}
    ELSE IF IsUtf8 THEN {classFile.constantPool[NextDescriptor].values}
    ELSE {Gibberish, Descriptor(<<>>, <<"Void">>)}

(* Mutant of StartMethod: the types of the method before are still there.  *)
StartMethodKeepingTypes ==
    /\ Starting
    /\ \E string \in DescriptorsFound :
        /\ Parentheses(string) # {}
        /\ decoding' = [decoding EXCEPT !.index = NextMethod, !.underWay = TRUE,
                            !.argString = ArgString(string), !.retString = RetString(string)]
    /\ UNCHANGED <<written, file, cursor, tasks, classFile, outcome, methods>>

(* The two strings of a method's descriptor: what its parentheses enclose  *)
(* is still to be split.                                                   *)
StartMethod ==
    /\ Starting
    /\ \E string \in DescriptorsFound :
        /\ Parentheses(string) # {}
        /\ decoding' = [index |-> NextMethod, underWay |-> TRUE, argTypes |-> <<>>,
                        argString |-> ArgString(string), retString |-> RetString(string)]
    /\ UNCHANGED <<written, file, cursor, tasks, classFile, outcome, methods>>

(* No match: parseTypes throws.  No Utf8, or no constant at all, where the *)
(* pointer is a null pointer: it crashes.                                  *)
MethodFails ==
    /\ Starting
    /\ \/ /\ \E string \in DescriptorsFound : Parentheses(string) = {}
          /\ outcome' = "aborted"
       \/ /\ NextDescriptor \in DOMAIN classFile.constantPool => ~IsUtf8
          /\ outcome' = "crashed"
    /\ UNCHANGED <<written, file, cursor, tasks, classFile, methods, decoding>>

(* One turn of parseTypes; substr throws when the string is shorter than   *)
(* the type is taken to be.                                                *)
ParseType ==
    /\ outcome = "parsed" /\ decoding.underWay /\ decoding.argString # <<>>
    /\ LET type   == TypeFromString(decoding.argString)
           length == TypeStringLength(type)
       IN  IF length <= Len(decoding.argString)
           THEN /\ decoding' = [decoding EXCEPT
                        !.argString = SubSeq(@, length + 1, Len(@)),
                        !.argTypes = Append(@, type)]
                /\ UNCHANGED outcome
           ELSE /\ outcome' = "aborted"
                /\ UNCHANGED decoding
    /\ UNCHANGED <<written, file, cursor, tasks, classFile, methods>>

(* maxStack, maxLocals and code are those of the Code attribute, a null    *)
(* pointer if there is none.  A method of the same name is replaced.       *)
AddMethod ==
    /\ outcome = "parsed" /\ decoding.underWay /\ decoding.argString = <<>>
    /\ LET info == classFile.methods[decoding.index]
       IN  IF AttributeName.Code \in DOMAIN info.attributes
           THEN /\ methods' = Entered(methods, info.nameIndex,
                        [argTypes |-> decoding.argTypes,
                         retType |-> TypeFromString(decoding.retString),
                         code |-> info.attributes[AttributeName.Code]])
                /\ UNCHANGED outcome
           ELSE /\ outcome' = "crashed"
                /\ UNCHANGED methods
    /\ decoding' = [decoding EXCEPT !.underWay = FALSE]
    /\ UNCHANGED <<written, file, cursor, tasks, classFile>>

ReturnProgram ==
    /\ outcome = "parsed" /\ ~decoding.underWay
    /\ NextMethod > Len(classFile.methods)
    /\ outcome' = "decoded"
    /\ UNCHANGED <<written, file, cursor, tasks, classFile, methods, decoding>>

(* main() goes on to run the program, or has ended.                        *)
Stop == outcome \notin {"parsing", "parsed"} /\ UNCHANGED vars

Next ==
    \/ ParserNext /\ UNCHANGED <<methods, decoding>>
    \/ StartMethod \/ MethodFails \/ ParseType \/ AddMethod \/ ReturnProgram
    \/ Stop

Spec == DecoderInit /\ [][Next]_vars
=============================================================================
