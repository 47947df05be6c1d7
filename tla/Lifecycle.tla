----------------------------- MODULE Lifecycle -----------------------------
(***************************************************************************)
(* Ownership in nim-z3: the reference counts that keep Z3 contexts, Z3     *)
(* ASTs and Z3 objects (solvers, models, vectors, ...) alive.              *)
(*                                                                         *)
(* Every location of type Z3Context is a HOLDER of one ARC reference: the  *)
(* ctx field of a value (Z3Ast, Z3BitVec, ...), the ctx field of a handle  *)
(* cell (Z3SolverOwn, Z3AstVectorOwn, ...), a user variable, the           *)
(* currentZ3Ctx threadvar, and the `prev' local of each withContext on the *)
(* stack.  A value also owns one Z3 reference on its raw AST.  The hooks   *)
(* =destroy, =copy and =dup (z3/lifecycle) keep both counts; the contexts' *)
(* own =destroy (z3/context) deletes the Z3 context when ARC finds no      *)
(* holder left.  One thread owns a context (docs/THREADING.md), so a hook  *)
(* runs with no other operation between its steps: pc is "idle" whenever   *)
(* the program may call the wrapper, and names the rest of a hook between. *)
(***************************************************************************)
EXTENDS Integers, FiniteSets

CONSTANTS
    Contexts,   \* Z3 contexts, each created at most once
    Asts,       \* raw AST addresses: freed ones are handed out again
    Values,     \* locations of a value family (Z3Ast, Z3BitVec, ...)
    Cells,      \* heap cells of ref handles, each with its Z3 object
    CtxVars,    \* user variables of type Z3Context
    Current,    \* the currentZ3Ctx threadvar of the thread
    MaxNest,    \* bound: nested withContext blocks
    MaxShares,  \* bound: ref variables that share one handle cell
    NoCtx,      \* nil of type Z3Context
    NoAst       \* nil raw handle

Prevs == 1..MaxNest     \* the `prev' locals, by nesting depth
Holders == Values \cup Cells \cup CtxVars \cup {Current} \cup Prevs

ASSUME FiniteAssumption ==
    IsFiniteSet(Values) /\ IsFiniteSet(Cells) /\ IsFiniteSet(CtxVars)
ASSUME BoundAssumption == MaxNest \in Nat /\ MaxShares \in Nat \ {0}
ASSUME NilAssumption == NoCtx \notin Contexts /\ NoAst \notin Asts
ASSUME DisjointAssumption ==
    /\ Values \cap Cells = {} /\ Values \cap CtxVars = {} /\ Values \cap Prevs = {}
    /\ Cells \cap CtxVars = {} /\ Cells \cap Prevs = {} /\ CtxVars \cap Prevs = {}
    /\ Current \notin Values \cup Cells \cup CtxVars \cup Prevs

VARIABLES
    z3ctx,      \* the Z3 side of each context: "none", "live" or "deleted"
    borrowed,   \* contexts that Z3 owns (Z3ContextOwn.borrowed)
    concurrent, \* contexts with concurrent dec_ref enabled
    strong,     \* ARC count of each Z3ContextOwn cell
    holds,      \* what each holder refers to
    depth,      \* withContext blocks on the stack
    raw,        \* raw handle of each value
    owner,      \* the context each allocated AST belongs to
    zref,       \* Z3's reference count of each AST (the wrapper's share)
    cell,       \* "free", "owned" or "borrowed": the object behind a cell
    objOwner,   \* the context each live object belongs to
    shares,     \* ARC count of each handle cell
    pc,         \* the rest of the running hook, or "idle"
    dst, src    \* the hook's operands: holders

ctxVars == <<z3ctx, borrowed, concurrent, strong, holds, depth>>
astVars == <<raw, owner, zref>>
objVars == <<cell, objOwner, shares>>
hookVars == <<pc, dst, src>>
vars == <<ctxVars, astVars, objVars, hookVars>>

Init ==
    /\ z3ctx = [c \in Contexts |-> "none"]
    /\ borrowed = [c \in Contexts |-> FALSE]
    /\ concurrent = [c \in Contexts |-> FALSE]
    /\ strong = [c \in Contexts |-> 0]
    /\ holds = [h \in Holders |-> NoCtx]
    /\ depth = 0
    /\ raw = [v \in Values |-> NoAst]
    /\ owner = [a \in Asts |-> NoCtx]
    /\ zref = [a \in Asts |-> 0]
    /\ cell = [o \in Cells |-> "free"]
    /\ objOwner = [o \in Cells |-> NoCtx]
    /\ shares = [o \in Cells |-> 0]
    /\ pc = "idle" /\ dst = Current /\ src = Current

-----------------------------------------------------------------------------
(* Contexts.                                                               *)

Same(c, d) == IF c = d THEN 1 ELSE 0

\* A context the program can name.  One that Z3 owns may be used only while
\* Z3 keeps it, the condition wrapContextBorrowed documents.
Usable(c) == /\ \E h \in Holders : holds[h] = c
             /\ borrowed[c] => z3ctx[c] = "live"

\* k references to new are taken, then one to old is dropped.
Count(new, k, old) ==
    strong' = [c \in Contexts |-> strong[c] + k * Same(c, new) - Same(c, old)]

\* Dropping a reference to old leaves no holder.
Dies(c, old) == c = old /\ strong[c] = 1

\* Z3 contexts appear (born) and disappear (gone) with every AST and object in them.
Z3Contexts(born, gone) ==
    /\ z3ctx' = [c \in Contexts |-> IF c \in gone THEN "deleted"
                                    ELSE IF c \in born THEN "live" ELSE z3ctx[c]]
    /\ owner' = [a \in Asts |-> IF owner[a] \in gone THEN NoCtx ELSE owner[a]]
    /\ zref' = [a \in Asts |-> IF owner[a] \in gone THEN 0 ELSE zref[a]]
    /\ objOwner' = [o \in Cells |->
                      IF objOwner[o] \in gone THEN NoCtx ELSE objOwner[o]]
    /\ cell' = [o \in Cells |-> IF objOwner[o] \in gone THEN "free" ELSE cell[o]]

\* Seeded fault for Destroyed: =destroy without its `borrowed' test.
DestroyedAnyway(old, new) == {c \in Contexts : Dies(c, old) /\ c # new}

\* `=destroy' of Z3ContextOwn, run when the last reference to old is dropped.
Destroyed(old, new) == {c \in Contexts : Dies(c, old) /\ c # new /\ ~borrowed[c]}

\* Nim's assignment h = c of a Z3Context location.
Assign(h, c) ==
    /\ holds' = [holds EXCEPT ![h] = c]
    /\ Count(c, 1, holds[h])
    /\ Z3Contexts({}, Destroyed(holds[h], c))

\* newContext: a live Z3 context, held by the result and by currentZ3Ctx.
CreateContext(x, c) ==
    /\ pc = "idle" /\ holds[x] = NoCtx /\ z3ctx[c] = "none"
    /\ holds' = [holds EXCEPT ![x] = c, ![Current] = c]
    /\ Count(c, 2, holds[Current])
    /\ Z3Contexts({c}, Destroyed(holds[Current], c))
    /\ UNCHANGED <<borrowed, depth, raw, shares, hookVars>>

NewContext(x, c) == CreateContext(x, c) /\ UNCHANGED concurrent

NewScratchContext(x, c) ==
    /\ CreateContext(x, c)
    /\ concurrent' = [concurrent EXCEPT ![c] = TRUE]

\* A context of Z3's own, such as the one of a propagator's fresh callback.
WrapContextBorrowed(x, c) ==
    /\ pc = "idle" /\ holds[x] = NoCtx /\ z3ctx[c] = "none"
    /\ borrowed' = [borrowed EXCEPT ![c] = TRUE]
    /\ holds' = [holds EXCEPT ![x] = c]
    /\ Count(c, 1, NoCtx)
    /\ Z3Contexts({c}, {})
    /\ UNCHANGED <<concurrent, depth, raw, shares, hookVars>>

\* Z3 frees its own context.  The wrap was short-lived, as it must be: no value
\* and no handle made in the context is left.
Z3FreesBorrowed(c) ==
    /\ pc = "idle" /\ borrowed[c] /\ z3ctx[c] = "live"
    /\ \A h \in Values \cup Cells : holds[h] # c
    /\ Z3Contexts({}, {c})
    /\ UNCHANGED <<borrowed, concurrent, strong, holds, depth, raw, shares, hookVars>>

\* setCurrentContext, and the user's own assignments and scope exits.
AssignContext(h, c) ==
    /\ pc = "idle" /\ (c # NoCtx => Usable(c))
    /\ Assign(h, c)
    /\ UNCHANGED <<borrowed, concurrent, depth, raw, shares, hookVars>>

\* Seeded fault for EnterWith: prev is a cursor and retains nothing.
EnterWithCursor(c) ==
    /\ pc = "idle" /\ depth < MaxNest /\ Usable(c)
    /\ depth' = depth + 1
    /\ holds' = [holds EXCEPT ![depth + 1] = holds[Current], ![Current] = c]
    /\ Count(c, 1, holds[Current])
    /\ Z3Contexts({}, Destroyed(holds[Current], c))
    /\ UNCHANGED <<borrowed, concurrent, raw, shares, hookVars>>

\* withContext, entry: let prev = currentZ3Ctx; currentZ3Ctx = ctx.
EnterWith(c) ==
    /\ pc = "idle" /\ depth < MaxNest /\ Usable(c)
    /\ depth' = depth + 1
    /\ holds' = [holds EXCEPT ![depth + 1] = holds[Current], ![Current] = c]
    /\ Count(c, 1, NoCtx)
    /\ Z3Contexts({}, {})
    /\ UNCHANGED <<borrowed, concurrent, raw, shares, hookVars>>

\* withContext, exit (returning or raising): currentZ3Ctx = prev; prev ends.
ExitWith ==
    /\ pc = "idle" /\ depth > 0
    /\ depth' = depth - 1
    /\ holds' = [holds EXCEPT ![Current] = holds[depth], ![depth] = NoCtx]
    /\ Count(NoCtx, 0, holds[Current])
    /\ Z3Contexts({}, Destroyed(holds[Current], holds[depth]))
    /\ UNCHANGED <<borrowed, concurrent, raw, shares, hookVars>>

-----------------------------------------------------------------------------
(* Values.  A hook that has dropped the value's raw handle leaves NoAst.    *)

Empty(v) == holds[v] = NoCtx /\ raw[v] = NoAst

IncRef(a) == zref' = [zref EXCEPT ![a] = @ + 1]

\* Z3 frees an AST with its last reference.
DecRef(a) ==
    /\ zref' = [zref EXCEPT ![a] = @ - 1]
    /\ owner' = IF zref[a] = 1 THEN [owner EXCEPT ![a] = NoCtx] ELSE owner

\* A builder: Z3 returns a new AST of c or one it has (hash-consing); wrap.
Build(v, c, a) ==
    /\ pc = "idle" /\ Empty(v) /\ Usable(c)
    /\ owner[a] \in {NoCtx, c}
    /\ owner' = [owner EXCEPT ![a] = c]
    /\ IncRef(a)
    /\ raw' = [raw EXCEPT ![v] = a]
    /\ holds' = [holds EXCEPT ![v] = c]
    /\ Count(c, 1, NoCtx)
    /\ UNCHANGED <<z3ctx, borrowed, concurrent, depth, objVars, hookVars>>

\* wrap of a nil handle: no inc_ref, but the value refers to the context.
WrapNil(v, c) ==
    /\ pc = "idle" /\ Empty(v) /\ Usable(c)
    /\ holds' = [holds EXCEPT ![v] = c]
    /\ Count(c, 1, NoCtx)
    /\ UNCHANGED <<z3ctx, borrowed, concurrent, depth, astVars, objVars, hookVars>>

\* Seeded fault for DupValue: the duplicate shares the original's reference.
DupWithoutIncRef(v, w) ==
    /\ pc = "idle" /\ Empty(v) /\ holds[w] # NoCtx
    /\ raw' = [raw EXCEPT ![v] = raw[w]]
    /\ holds' = [holds EXCEPT ![v] = holds[w]]
    /\ Count(holds[w], 1, NoCtx)
    /\ UNCHANGED <<z3ctx, borrowed, concurrent, depth, owner, zref, objVars, hookVars>>

DupValue(v, w) ==
    /\ pc = "idle" /\ Empty(v) /\ holds[w] # NoCtx
    /\ raw' = [raw EXCEPT ![v] = raw[w]]
    /\ holds' = [holds EXCEPT ![v] = holds[w]]
    /\ Count(holds[w], 1, NoCtx)
    /\ IF raw[w] # NoAst THEN IncRef(raw[w]) ELSE UNCHANGED zref
    /\ UNCHANGED <<z3ctx, borrowed, concurrent, depth, owner, objVars, hookVars>>

\* Nim's move: no hook runs, the source is reset.
MoveValue(v, w) ==
    /\ pc = "idle" /\ Empty(v) /\ holds[w] # NoCtx
    /\ raw' = [raw EXCEPT ![v] = raw[w], ![w] = NoAst]
    /\ holds' = [holds EXCEPT ![v] = holds[w], ![w] = NoCtx]
    /\ UNCHANGED <<z3ctx, borrowed, concurrent, strong, depth, owner, zref, objVars, hookVars>>

\* The dec_ref with which termDestroy and termCopy start.
DropRaw(v) ==
    /\ IF raw[v] # NoAst THEN DecRef(raw[v]) ELSE UNCHANGED <<owner, zref>>
    /\ raw' = [raw EXCEPT ![v] = NoAst]

\* Seeded fault for DestroyValue: the context goes first, the dec_ref is lost.
DestroyContextFirst(v) ==
    /\ pc = "idle" /\ holds[v] # NoCtx
    /\ Assign(v, NoCtx)
    /\ UNCHANGED <<borrowed, concurrent, depth, raw, shares, hookVars>>

\* termDestroy: the dec_ref needs the context, whose release comes after it.
DestroyValue(v) ==
    /\ pc = "idle" /\ holds[v] # NoCtx
    /\ DropRaw(v)
    /\ pc' = "release" /\ dst' = v
    /\ UNCHANGED <<ctxVars, objVars, src>>

\* Seeded fault for ReleaseContext: a hook that forgets its ctx field (before
\* ADR-FC-0012).
ReleaseNothing ==
    /\ pc = "release"
    /\ holds' = [holds EXCEPT ![dst] = NoCtx]
    /\ Z3Contexts({}, {})
    /\ pc' = "idle"
    /\ UNCHANGED <<borrowed, concurrent, strong, depth, raw, shares, dst, src>>

\* The end of a hook: `=destroy'(v.ctx).
ReleaseContext ==
    /\ pc = "release"
    /\ Assign(dst, NoCtx)
    /\ pc' = "idle"
    /\ UNCHANGED <<borrowed, concurrent, depth, raw, shares, dst, src>>

\* termCopy v = w: nothing at all between equal raw handles.
CopyValue(v, w) ==
    /\ pc = "idle" /\ raw[v] # raw[w]
    /\ DropRaw(v)
    /\ pc' = "copyCtx" /\ dst' = v /\ src' = w
    /\ UNCHANGED <<ctxVars, objVars>>

CopyContext ==
    /\ pc = "copyCtx"
    /\ Assign(dst, holds[src])
    /\ pc' = "copyInc"
    /\ UNCHANGED <<borrowed, concurrent, depth, raw, shares, dst, src>>

\* Seeded fault for CopyIncRef: the copy takes the handle without a reference.
CopyWithoutIncRef ==
    /\ pc = "copyInc"
    /\ raw' = [raw EXCEPT ![dst] = raw[src]]
    /\ pc' = "idle"
    /\ UNCHANGED <<ctxVars, owner, zref, objVars, dst, src>>

CopyIncRef ==
    /\ pc = "copyInc"
    /\ raw' = [raw EXCEPT ![dst] = raw[src]]
    /\ IF raw[src] # NoAst THEN IncRef(raw[src]) ELSE UNCHANGED zref
    /\ pc' = "idle"
    /\ UNCHANGED <<ctxVars, owner, objVars, dst, src>>

-----------------------------------------------------------------------------
(* Ref handles: one Z3 object behind each cell.                            *)

\* wrapSolver, wrapModel, wrapAstVector, ...: the cell's one inc_ref; and
\* wrapAstVectorBorrowed: no inc_ref, Z3 frees the object with the context.
WrapHandle(o, c, kind) ==
    /\ pc = "idle" /\ cell[o] = "free" /\ holds[o] = NoCtx /\ Usable(c)
    /\ cell' = [cell EXCEPT ![o] = kind]
    /\ objOwner' = [objOwner EXCEPT ![o] = c]
    /\ shares' = [shares EXCEPT ![o] = 1]
    /\ holds' = [holds EXCEPT ![o] = c]
    /\ Count(c, 1, NoCtx)
    /\ UNCHANGED <<z3ctx, borrowed, concurrent, depth, astVars, hookVars>>

ShareHandle(o) ==
    /\ pc = "idle" /\ shares[o] \in 1..(MaxShares - 1)
    /\ shares' = [shares EXCEPT ![o] = @ + 1]
    /\ UNCHANGED <<ctxVars, astVars, cell, objOwner, hookVars>>

\* A ref variable ends; with the last one, emitRefcountLifecycle's =destroy
\* drops the object, unless it is borrowed, and then the context.
DropHandle(o) ==
    /\ pc = "idle" /\ shares[o] > 0
    /\ shares' = [shares EXCEPT ![o] = @ - 1]
    /\ IF shares[o] > 1
       THEN UNCHANGED <<cell, objOwner, hookVars>>
       ELSE /\ IF cell[o] = "borrowed"
               THEN UNCHANGED <<cell, objOwner>>
               ELSE /\ cell' = [cell EXCEPT ![o] = "free"]
                    /\ objOwner' = [objOwner EXCEPT ![o] = NoCtx]
            /\ pc' = "release" /\ dst' = o /\ src' = src
    /\ UNCHANGED <<ctxVars, astVars>>

-----------------------------------------------------------------------------
ContextStep ==
    \/ \E x \in CtxVars, c \in Contexts :
          NewContext(x, c) \/ NewScratchContext(x, c) \/ WrapContextBorrowed(x, c)
    \/ \E c \in Contexts : Z3FreesBorrowed(c) \/ EnterWith(c)
    \/ \E h \in CtxVars \cup {Current}, c \in Contexts \cup {NoCtx} : AssignContext(h, c)
    \/ ExitWith

ValueStep ==
    \/ \E v \in Values, c \in Contexts, a \in Asts : Build(v, c, a)
    \/ \E v \in Values, c \in Contexts : WrapNil(v, c)
    \/ \E v, w \in Values : DupValue(v, w) \/ MoveValue(v, w) \/ CopyValue(v, w)
    \/ \E v \in Values : DestroyValue(v)

HandleStep ==
    \/ \E o \in Cells, c \in Contexts, kind \in {"owned", "borrowed"} : WrapHandle(o, c, kind)
    \/ \E o \in Cells : ShareHandle(o) \/ DropHandle(o)

HookStep == ReleaseContext \/ CopyContext \/ CopyIncRef

Next == ContextStep \/ ValueStep \/ HandleStep \/ HookStep

Spec == Init /\ [][Next]_vars

-----------------------------------------------------------------------------
TypeOK ==
    /\ z3ctx \in [Contexts -> {"none", "live", "deleted"}]
    /\ borrowed \in [Contexts -> BOOLEAN]
    /\ concurrent \in [Contexts -> BOOLEAN]
    /\ strong \in [Contexts -> Nat]
    /\ holds \in [Holders -> Contexts \cup {NoCtx}]
    /\ depth \in 0..MaxNest
    /\ raw \in [Values -> Asts \cup {NoAst}]
    /\ owner \in [Asts -> Contexts \cup {NoCtx}]
    /\ zref \in [Asts -> Nat]
    /\ cell \in [Cells -> {"free", "owned", "borrowed"}]
    /\ objOwner \in [Cells -> Contexts \cup {NoCtx}]
    /\ shares \in [Cells -> 0..MaxShares]
    /\ pc \in {"idle", "release", "copyCtx", "copyInc"}
    /\ dst \in Holders /\ src \in Holders
    /\ pc = "release" => dst \in Values \cup Cells
    /\ pc \in {"copyCtx", "copyInc"} => dst \in Values /\ src \in Values

\* How many locations of S refer to x.
Tally(S, f, x) == Cardinality({s \in S : f[s] = x})

\* The hooks' ARC traffic balances: between any two steps of any hook, a
\* context's count is the number of locations that refer to it.
StrongExact ==
    \A c \in Contexts : strong[c] = Tally(Holders, holds, c)

\* The hooks' inc_ref and dec_ref balance: Z3's count of an AST is the number
\* of values that carry it, whatever was copied, moved, duplicated over.
RefsExact ==
    \A a \in Asts : zref[a] = Tally(Values, raw, a)

\* No dangling handle: a reference to a context of the wrapper's own finds it
\* live, a value's AST and a handle's object are still allocated, and in the
\* very context the value or handle would pass to Z3.
ContextsLive ==
    \A h \in Holders : holds[h] # NoCtx =>
       \/ z3ctx[holds[h]] = "live"
       \/ borrowed[holds[h]] /\ h \notin Values \cup Cells
AstsAllocated ==
    \A v \in Values : raw[v] # NoAst => holds[v] # NoCtx /\ owner[raw[v]] = holds[v]
ObjectsAllocated ==
    \A o \in Cells : shares[o] > 0 => holds[o] # NoCtx /\ objOwner[o] = holds[o]
HandlesValid == ContextsLive /\ AstsAllocated /\ ObjectsAllocated

\* What makes the invariants above inductive: where a hook stands, and which
\* withContext locals are in use.
HookInv ==
    /\ \A i \in Prevs : i > depth => holds[i] = NoCtx
    /\ \A c \in Contexts : borrowed[c] => z3ctx[c] # "none"
    /\ pc = "release" => /\ dst \in Values => raw[dst] = NoAst
                         /\ dst \in Cells => shares[dst] = 0
    /\ pc \in {"copyCtx", "copyInc"} => dst # src /\ raw[dst] = NoAst
    /\ pc = "copyInc" => holds[dst] = holds[src]

\* Only a drop of a reference can delete a context, so its count never stays
\* at zero.
NoContextLeak ==
    \A c \in Contexts : z3ctx[c] = "live" /\ ~borrowed[c] => strong[c] > 0

Inv == StrongExact /\ RefsExact /\ HandlesValid /\ HookInv /\ NoContextLeak

\* Z3Context, as documented: "=destroy fires only when the last reference drops, at
\* which point both the Z3 context and its config are freed".  A context that is
\* live and the wrapper's own is referred to from somewhere.
ContextsFreed ==
    \A c \in Contexts : z3ctx[c] = "live" /\ ~borrowed[c] =>
       \E h \in Holders : holds[h] = c

\* The wrapper deletes a context only with nothing left in it: no reference,
\* no AST it still counts, no object it still owns.
DeletedClean ==
    [][\A c \in Contexts :
         z3ctx[c] = "live" /\ z3ctx'[c] = "deleted" /\ ~borrowed[c] =>
            /\ \A h \in Holders : holds'[h] # c
            /\ \A a \in Asts : owner[a] = c => zref[a] = 0
            /\ \A o \in Cells : objOwner[o] = c => cell[o] = "borrowed"]_vars

\* What Z3 owns the wrapper never frees: a borrowed vector goes only with its
\* context, and a borrowed context outlives every drop of a reference to it.
BorrowedLeftToZ3 ==
    [][/\ \A o \in Cells : cell[o] = "borrowed" /\ cell'[o] # "borrowed" =>
             z3ctx'[objOwner[o]] = "deleted"
       /\ \A c \in Contexts : borrowed[c] /\ strong'[c] # strong[c] =>
             z3ctx'[c] = "deleted" <=> z3ctx[c] = "deleted"]_vars
=============================================================================
