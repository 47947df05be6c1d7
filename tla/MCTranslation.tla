---------------------------- MODULE MCTranslation ----------------------------
(* Translation on an instance small enough for TLC.                        *)
EXTENDS Translation, TLC

Symmetry == Permutations(Contexts)
=============================================================================
