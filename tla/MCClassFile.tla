----------------------------- MODULE MCClassFile -----------------------------
(***************************************************************************)
(* Small class files with every kind of constant, attribute and frame.     *)
(***************************************************************************)
EXTENDS ClassLoadingProperties

Constant(kind, values) == [kind |-> kind, values |-> values]
Utf8(characters) == Constant("Utf8", characters)

(* Attributes the parser does not know, one of them without contents and   *)
(* one without a name.                                                     *)
LineNumberTable == <<8>>
DeprecatedName == <<9>>
Nameless == <<>>
AttributeUtf8s == [k \in 1 .. 9 |-> Utf8(<<k>>)]

(* Descriptors.                                                            *)
Void == <<"Void">>
Strings == <<<<"List", "String">>>>
Signatures ==
    {<<>>, <<<<"Int">>, <<"Long">>, <<"Float">>, <<"Double">>>>,
     <<<<"Double">>, <<"Int">>, <<"Int">>>>, <<<<"String">>, <<"List", "Int">>>>,
     <<<<"Boolean">>>>, <<<<"Object">>, <<"Int">>>>}

(* Numbers before the names move the indices of all of these.              *)
Numbers ==
    <<Constant("Long", <<0, 0, 0, 7>>), Constant("Integer", <<1, 4464>>),
      Constant("Double", <<1, 2, 3, 4>>), Constant("Float", <<0, 3>>)>>

References ==
    <<Constant("Class", <<1>>), Constant("FieldRef", <<1, 2>>), Constant("MethodRef", <<1, 2>>),
      Constant("InterfaceMethodRef", <<1, 2>>), Constant("String", <<1>>),
      Constant("NameAndType", <<9, 10>>), Constant("MethodHandle", <<6, 1>>),
      Constant("MethodType", <<300>>), Constant("InvokeDynamic", <<0, 1>>)>>

(* A method returns a value of the type of its first parameter.            *)
ResultOf(types) == IF types = <<>> THEN Void ELSE types[1]

Pool(types, numbersFirst) ==
    LET descriptors == <<Utf8(Descriptor(Strings, Void)), Utf8(Descriptor(types, ResultOf(types)))>>
        names == AttributeUtf8s \o <<Utf8(<<97>>), Utf8(<<98>>), Utf8(Nameless)>> \o descriptors
    IN  IF numbersFirst THEN Numbers \o names \o References ELSE References \o names \o Numbers

(* Attributes.                                                             *)
Attr(kind, info) == [name |-> AttributeName[kind], info |-> info]
Frame(tag, locals, stack) == [tag |-> tag, offsetDelta |-> 258, locals |-> locals, stack |-> stack]

FrameTables ==
    {<<Frame(0, <<>>, <<>>), Frame(63, <<>>, <<>>)>>,
     <<Frame(64, <<>>, <<<<7, 5>>>>), Frame(127, <<>>, <<<<1>>>>)>>,
     <<Frame(248, <<>>, <<>>), Frame(250, <<>>, <<>>), Frame(251, <<>>, <<>>)>>,
     <<Frame(252, <<<<1>>>>, <<>>), Frame(254, <<<<4>>, <<8, 258>>, <<0>>>>, <<>>)>>,
     <<Frame(255, <<<<7, 1>>, <<3>>>>, <<<<2>>>>), Frame(255, <<>>, <<>>)>>,
     <<Frame(247, <<>>, <<<<1>>>>), Frame(0, <<>>, <<>>)>>}

LineNumbers == [name |-> LineNumberTable, info |-> [bytes |-> <<0, 1, 0, 0, 0, 9>>]]
Deprecated == [name |-> DeprecatedName, info |-> [bytes |-> <<>>]]
Exceptions ==
    <<[startPC |-> 0, endPC |-> 4, handlerPC |-> 7, catchType |-> 0],
      [startPC |-> 2, endPC |-> 5, handlerPC |-> 9, catchType |-> 1]>>

Code(exceptions, attributes) ==
    Attr("Code", [maxStack |-> 2, maxLocals |-> 3, code |-> <<27, 5, 104, 172>>,
                  exceptionTable |-> exceptions, attributes |-> attributes])

PlainCode == Code(<<>>, <<LineNumbers>>)

CodesWith(frames) ==
    {Code(exceptions, <<LineNumbers, Attr("StackMapTable", [entries |-> frames])>>)
        : exceptions \in {<<>>, Exceptions}}

SourceFile == Attr("SourceFile", [index |-> 9])

BootstrapMethod(arguments) == [methodRef |-> 1, arguments |-> arguments]

(* A class with two string concatenations.                                 *)
Concatenations ==
    [bootstrapMethods |-> <<BootstrapMethod(<<1>>), BootstrapMethod(<<1>>)>>]

ClassAttributes ==
    {<<SourceFile>>,
     <<Attr("NestHost", [index |-> 1]), LineNumbers, SourceFile>>,
     <<[name |-> Nameless, info |-> [bytes |-> <<0, 4>>]], SourceFile>>,
     <<SourceFile, Attr("NestMembers", [classes |-> <<2, 5, 2>>])>>,
     <<Attr("NestMembers", [classes |-> <<2, 5>>]), SourceFile>>,
     <<Attr("BootstrapMethods", Concatenations), SourceFile>>}

(* A class with a field, main(String[]) and a method of the signature.     *)
File(types, numbersFirst, sameName, code, attributes) ==
    LET pool == Pool(types, numbersFirst)
        main == NameIndex(pool, <<97>>)
        Method(name, parameters, result, its) ==
            [accessFlags |-> 9, nameIndex |-> name, types |-> parameters, result |-> result,
             descriptorIndex |-> NameIndex(pool, Descriptor(parameters, result)),
             attributes |-> its]
    IN  [version |-> <<51966, 47806, 0, 55>>, access |-> <<33, 5, 6>>,
         constants |-> pool, interfaces |-> <<300, 7>>,
         fields |-> <<[accessFlags |-> 25, nameIndex |-> main, descriptorIndex |-> main,
                       attributes |-> <<Deprecated, Attr("ConstantValue", [index |-> 3])>>]>>,
         methods |-> <<Method(main, Strings, Void, code),
                       Method(IF sameName THEN main ELSE NameIndex(pool, <<98>>),
                              types, ResultOf(types), <<PlainCode>>)>>,
         attributes |-> attributes]

(* A frame of tag 247 makes the parser miss the next method by two bytes,  *)
(* so that the index of its name is taken for that of its descriptor; with *)
(* these attributes it still ends where the file does.                     *)
MisreadFile(nameIndex) ==
    LET Method(name, its) ==
            [accessFlags |-> 9, nameIndex |-> name, types |-> <<>>, result |-> Void,
             descriptorIndex |-> 1, attributes |-> its]
        frames == <<Frame(247, <<>>, <<<<1>>>>), Frame(0, <<>>, <<>>), Frame(0, <<>>, <<>>)>>
        Unknown(bytes) == [name |-> LineNumberTable, info |-> [bytes |-> bytes]]
    IN  [version |-> <<51966, 47806, 0, 55>>, access |-> <<33, 5, 6>>,
         constants |-> <<Utf8(Descriptor(<<>>, Void)), Utf8(AttributeName.SourceFile),
                         Utf8(AttributeName.Code), Utf8(AttributeName.StackMapTable),
                         Utf8(LineNumberTable), Constant("Class", <<1>>)>>,
         interfaces |-> <<>>, fields |-> <<>>,
         methods |-> <<Method(2, <<Code(<<>>, <<Attr("StackMapTable", [entries |-> frames])>>)>>),
                       Method(nameIndex, <<Unknown(<<0, 1, 0, 5, 0, 0, 0, 8>>), Unknown(<<>>)>>)>>,
         attributes |-> <<>>]

(* A descriptor, a name, another constant, no constant.                    *)
MisreadNames == {1, 2, 6, 7}

SmallClassFiles ==
    {File(types, numbersFirst, FALSE, <<PlainCode>>, <<SourceFile>>)
        : types \in Signatures, numbersFirst \in BOOLEAN}
    \cup {File(<<>>, TRUE, FALSE, <<code>>, <<SourceFile>>)
        : code \in UNION {CodesWith(frames) : frames \in FrameTables}}
    \cup {File(<<>>, FALSE, FALSE, <<LineNumbers, PlainCode>>, attributes)
        : attributes \in ClassAttributes}
    \cup {File(<<>>, TRUE, TRUE, <<PlainCode>>, <<SourceFile>>),
          File(<<>>, TRUE, FALSE, <<>>, <<SourceFile>>)}
    \cup {MisreadFile(nameIndex) : nameIndex \in MisreadNames}
=============================================================================
