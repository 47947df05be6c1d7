----------------------- MODULE MCFixedpointCallbacks -----------------------
(* FixedpointCallbacks on an instance small enough for TLC.                *)
EXTENDS FixedpointCallbacks, TLC

Symmetry == Permutations(Fixedpoints) \cup Permutations(Boxes) \cup Permutations(Events)
=============================================================================
