---------------------------- MODULE MCLifecycle ----------------------------
(* Lifecycle on an instance small enough for TLC.                          *)
EXTENDS Lifecycle, TLC

\* ASTs, values and contexts are interchangeable in every property.
Symmetry == Permutations(Contexts) \cup Permutations(Asts) \cup Permutations(Values)
=============================================================================
