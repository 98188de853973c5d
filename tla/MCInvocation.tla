---------------------------- MODULE MCInvocation ----------------------------
(***************************************************************************)
(* Methods of up to three parameters of all sizes.                         *)
(***************************************************************************)
EXTENDS Invocation

SomeSignatures ==
    {<<>>, <<<<"Int">>>>, <<<<"Long">>, <<"Int">>>>, <<<<"Float">>, <<"Double">>, <<"Int">>>>,
     <<<<"List", "Int">>, <<"String">>>>, <<<<"String">>, <<"Long">>>>}
=============================================================================
