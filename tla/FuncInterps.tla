---------------------------- MODULE FuncInterps ----------------------------
(***************************************************************************)
(* Lifecycle with the handles whose =destroy is neither stamped by         *)
(* z3/lifecycle nor complete: Z3FuncDecl (z3/funcdecl_types), Z3FuncInterp *)
(* (z3/funcdecl) and the move-only Z3RcfNum (z3/rcf), a cell that is never *)
(* shared.  Each gives the raw object back and leaves the ctx field alone, *)
(* and a custom =destroy replaces Nim's own destruction of the fields:     *)
(* ContextsFreed fails.                                                    *)
(***************************************************************************)
EXTENDS Lifecycle

\* The last reference ends: the object is dropped, the cell is freed, and the
\* count that its ctx field held is not given back.
DropUnreleased(o) ==
    /\ pc = "idle" /\ shares[o] > 0 /\ cell[o] = "owned"
    /\ shares' = [shares EXCEPT ![o] = @ - 1]
    /\ IF shares[o] > 1
       THEN UNCHANGED <<cell, objOwner, holds>>
       ELSE /\ cell' = [cell EXCEPT ![o] = "free"]
            /\ objOwner' = [objOwner EXCEPT ![o] = NoCtx]
            /\ holds' = [holds EXCEPT ![o] = NoCtx]
    /\ UNCHANGED <<z3ctx, borrowed, concurrent, strong, depth, astVars, hookVars>>

InterpNext == Next \/ \E o \in Cells : DropUnreleased(o)

InterpSpec == Init /\ [][InterpNext]_vars
=============================================================================
