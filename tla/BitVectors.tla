----------------------------- MODULE BitVectors -----------------------------
(***************************************************************************)
(* A program that makes a bit-vector literal of an integer and reads it    *)
(* again, by the conversions of z3/bitvec.                                 *)
(***************************************************************************)
EXTENDS Conversions

CONSTANTS
    WordBits,   \* bits of a machine word
    Widths      \* widths of bit vectors

VARIABLES width, value, literal, read

vars == <<width, value, literal, read>>

Nothing == -(2 ^ WordBits)

\* SomeInteger: a signed or an unsigned word.
SomeInteger == -(2 ^ (WordBits - 1)) .. (2 ^ WordBits - 1)

Init ==
    /\ width \in Widths /\ value \in SomeInteger
    /\ literal = Nothing /\ read = Nothing

Make ==
    /\ literal = Nothing
    /\ literal' = MkBitVec(2 ^ WordBits, 2 ^ (width - 1), value)
    /\ UNCHANGED <<width, value, read>>

\* static: assert W <= 64.
Read ==
    /\ literal # Nothing /\ read = Nothing
    /\ width <= WordBits /\ Fits(2 ^ WordBits, literal)
    /\ read' = ToInt(2 ^ WordBits, 2 ^ (width - 1), literal)
    /\ UNCHANGED <<width, value, literal>>

Next == Make \/ Read

Spec == Init /\ [][Next]_vars

\* mkBitVec's doc: a "literal of width W carrying the unsigned (mod 2^W)
\* interpretation of v", where "width is unrestricted": vectors that are wider
\* than the word which the integer goes through included.
CarriesModulo == literal # Nothing => literal = value % (2 ^ width)

\* toInt's doc: the signed two's-complement value, which is the integer that the
\* literal was made of if that has w bits.
ReadsBack ==
    read # Nothing /\ value \in -(2 ^ (width - 1)) .. (2 ^ (width - 1) - 1) => read = value
=============================================================================
