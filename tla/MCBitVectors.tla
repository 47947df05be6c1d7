---------------------------- MODULE MCBitVectors ----------------------------
(* BitVectors with words of a few bits.                                    *)
EXTENDS BitVectors
=============================================================================
