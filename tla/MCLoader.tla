------------------------------ MODULE MCLoader ------------------------------
(* Loader on an instance small enough for TLC.                             *)
EXTENDS Loader, TLC
=============================================================================
