---------------------------- MODULE MCPropagator ----------------------------
(* Propagator on an instance small enough for TLC.                         *)
EXTENDS Propagator, TLC

\* Boxes and solvers are interchangeable in every property.
Symmetry == Permutations(Boxes) \cup Permutations(Solvers)
=============================================================================
