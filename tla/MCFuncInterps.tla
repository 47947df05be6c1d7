--------------------------- MODULE MCFuncInterps ---------------------------
(* FuncInterps on an instance small enough for TLC.                        *)
EXTENDS FuncInterps, TLC

Symmetry == Permutations(Contexts)
=============================================================================
