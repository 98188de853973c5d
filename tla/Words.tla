-------------------------------- MODULE Words --------------------------------
(***************************************************************************)
(* Two's complement words.  An `int` of the byte code lies in              *)
(* -IntHalf .. IntHalf - 1 and a 64-bit register or slot of native code in *)
(* -LongHalf .. LongHalf - 1; the program's halves are 2^31 and 2^63.      *)
(***************************************************************************)
EXTENDS Integers

CONSTANTS IntHalf, LongHalf, ByteHalf

ASSUME WordAssumption ==
    /\ IntHalf \in Nat \ {0}
    /\ ByteHalf \in Nat \ {0} /\ 2 * ByteHalf <= IntHalf
    /\ LongHalf \in Nat \ {0}
    /\ LongHalf = (LongHalf \div IntHalf) * IntHalf

Ints  == -IntHalf .. IntHalf - 1
Longs == -LongHalf .. LongHalf - 1
Bytes == 0 .. 2 * ByteHalf - 1

(* The word congruent to x: what is left of a sum or product that does not *)
(* fit.                                                                    *)
Wrap(x, half) == ((x + half) % (2 * half)) - half

AsInt(x) == Wrap(x, IntHalf)
AsLong(x) == Wrap(x, LongHalf)

(* The cast to int8_t.                                                     *)
AsSignedByte(byte) == IF byte < ByteHalf THEN byte ELSE byte - 2 * ByteHalf

(* Division in C++ and on the x86 rounds towards zero.                     *)
Magnitude(x) == IF x < 0 THEN -x ELSE x

Quotient(a, b) ==
    LET q == Magnitude(a) \div Magnitude(b)
    IN  IF (a < 0) = (b < 0) THEN q ELSE -q

Remainder(a, b) == a - b * Quotient(a, b)

Related(relation, a, b) ==
    CASE relation = "eq" -> a = b
      [] relation = "ne" -> a # b
      [] relation = "lt" -> a < b
      [] relation = "ge" -> a >= b
      [] relation = "gt" -> a > b
      [] relation = "le" -> a <= b
=============================================================================
