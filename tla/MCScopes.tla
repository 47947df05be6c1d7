------------------------------ MODULE MCScopes ------------------------------
(* Scopes on an instance small enough for TLC.                             *)
EXTENDS Scopes, TLC

\* Constraints, and terms, are interchangeable in every property.
Symmetry == Permutations(Constraints) \cup Permutations(Terms)
=============================================================================
