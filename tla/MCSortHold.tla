----------------------------- MODULE MCSortHold -----------------------------
(* SortHold on an instance small enough for TLC.                           *)
EXTENDS SortHold, TLC

\* Addresses are interchangeable in every property.
Symmetry == Permutations(Addrs)
=============================================================================
