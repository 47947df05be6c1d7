----------------------------- MODULE Conversions -----------------------------
(***************************************************************************)
(* Nim integers as bit-vector literals and back (z3/bitvec): mkBitVec, on  *)
(* which every mixed operator of the module relies, and the extractions    *)
(* toUint, toInt and their Option forms.                                   *)
(*                                                                         *)
(* Machine arithmetic is explicit.  A machine word holds `word' values     *)
(* (2^64); `half' is half the values of a bit vector, 2^(w-1), so that     *)
(* its modulus is half + half.                                             *)
(***************************************************************************)
EXTENDS Integers

-----------------------------------------------------------------------------
(* Machine words.                                                          *)

\* uint64(v), which wraps a negative number.
ToWord(word, v) == IF v < 0 THEN v + word ELSE v

\* a - b of two words.
Minus(word, a, b) == IF a < b THEN a - b + word ELSE a - b

\* cast[int64](u).
AsSigned(word, u) == IF u + u >= word THEN u - word ELSE u

-----------------------------------------------------------------------------
(* The conversions.                                                        *)

\* Z3_mk_unsigned_int64: a numeral of a bit-vector sort is taken modulo 2^w.
Numeral(modulus, n) == n % modulus

\* mkBitVec[W](v).
MkBitVec(word, half, v) == Numeral(half + half, ToWord(word, v))

\* toUint, toUintOpt: Z3_get_numeral_uint64 tells whether the value fits a word.
Fits(word, n) == n < word

\* toInt, toInt64Opt and toIntOpt: the sign bit is tested, and 2^w subtracted in
\* the unsigned domain; of a vector as wide as a word the bits are reinterpreted.
ToInt(word, half, n) ==
    IF half + half = word THEN AsSigned(word, n)
    ELSE IF n >= half THEN AsSigned(word, Minus(word, n, half + half))
    ELSE AsSigned(word, n)
=============================================================================
