------------------------------- MODULE Scopes -------------------------------
(***************************************************************************)
(* The scopes of a Z3Solver (z3/solver) or a Z3Optimize (z3/optimize): the *)
(* assertions and objectives of each frame, the withFrame blocks on the    *)
(* program's stack, the exceptions that unwind them, and the objective     *)
(* handles that name an objective of the optimiser by its index.           *)
(*                                                                         *)
(* Every call may fail: checkErr finds an error code and raises, and Z3    *)
(* has then changed nothing.  A raised exception unwinds blocks, running   *)
(* their finally, until the program catches it.                            *)
(*                                                                         *)
(* The finally of a block pops one scope, whatever the body has pushed,    *)
(* popped or reset; nobody compares the scopes with those at its entry.    *)
(***************************************************************************)
EXTENDS Naturals, Sequences, FiniteSets

CONSTANTS
    Constraints,    \* Boolean terms
    Terms,          \* terms to maximise or minimise
    Groups,         \* names of groups of soft constraints
    MaxScopes,      \* bound: open frames, and blocks on the stack
    MaxObjectives   \* bound: objectives of the optimiser

ASSUME ObjectiveAssumption == Terms \cap Groups = {}
ASSUME BoundAssumption == MaxScopes \in Nat /\ MaxObjectives \in Nat

VARIABLES
    kind,       \* "solver" or "optimize"
    frames,     \* the assertions of each scope, the outermost first, and how
                \* many objectives there were when it was opened
    objs,       \* the objectives, in index order
    blocks,     \* for each withFrame block on the stack, how many frames there
                \* were at its entry (history), or 0 once its own was closed
                \* under it
    handles,    \* the Z3OptHandles the program keeps
    raising     \* the exception in flight: "none", that of a "call", or that of
                \* the "pop" in the finally of a block

vars == <<kind, frames, objs, blocks, handles, raising>>

Frame(n) == [asserted |-> {}, before |-> n]

Init ==
    /\ kind \in {"solver", "optimize"}
    /\ frames = <<Frame(0)>>
    /\ objs = <<>> /\ blocks = <<>> /\ handles = {}
    /\ raising = "none"

NumScopes == Len(frames) - 1

\* The program runs, and is not being unwound.
Calm == raising = "none"

\* Of the blocks entered, those that n frames leave with their own.
Above(entered, n) == [i \in 1..Len(entered) |-> IF entered[i] < n THEN entered[i] ELSE 0]

Outer == SubSeq(blocks, 1, Len(blocks) - 1)

\* Z3 discards the n innermost scopes with their assertions and objectives.
PopScopes(n) ==
    LET k == Len(frames) - n
    IN  /\ frames' = SubSeq(frames, 1, k)
        /\ objs' = SubSeq(objs, 1, frames[k + 1].before)

\* The program gives up the handles of objectives registered in scopes that end.
HandlesWithin(scopes) == {h \in handles : h.scope <= scopes}

-----------------------------------------------------------------------------
(* Calls.                                                                  *)

\* checkErr raises: any call below, instead of taking effect.
Fail ==
    /\ Calm /\ raising' = "call"
    /\ UNCHANGED <<kind, frames, objs, blocks, handles>>

Add(c) ==
    /\ Calm
    /\ frames' = [frames EXCEPT ![Len(frames)].asserted = @ \cup {c}]
    /\ UNCHANGED <<kind, objs, blocks, handles, raising>>

Handle(i, o) == [idx |-> i, obj |-> o, scope |-> NumScopes]

\* maximize and minimize: a new objective.
Maximize(t) ==
    /\ Calm /\ kind = "optimize" /\ Len(objs) < MaxObjectives
    /\ objs' = Append(objs, t)
    /\ handles' = handles \cup {Handle(Len(objs) + 1, t)}
    /\ UNCHANGED <<kind, frames, blocks, raising>>

\* Seeded fault for AddSoft: the index is that of a new objective in any case.
AddSoftNewIndex(g) ==
    /\ Calm /\ kind = "optimize" /\ Len(objs) < MaxObjectives
    /\ IF \E i \in 1..Len(objs) : objs[i] = g THEN UNCHANGED objs ELSE objs' = Append(objs, g)
    /\ handles' = handles \cup {Handle(Len(objs) + 1, g)}
    /\ UNCHANGED <<kind, frames, blocks, raising>>

\* addSoft: the soft constraints of a group are one objective.
AddSoft(g) ==
    /\ Calm /\ kind = "optimize"
    /\ \/ /\ \A i \in 1..Len(objs) : objs[i] # g
          /\ Len(objs) < MaxObjectives
          /\ objs' = Append(objs, g)
          /\ handles' = handles \cup {Handle(Len(objs) + 1, g)}
       \/ /\ \E i \in 1..Len(objs) :
                objs[i] = g /\ handles' = handles \cup {Handle(i, g)}
          /\ UNCHANGED objs
    /\ UNCHANGED <<kind, frames, blocks, raising>>

DropHandle(h) ==
    /\ h \in handles
    /\ handles' = handles \ {h}
    /\ UNCHANGED <<kind, frames, objs, blocks, raising>>

OpenScope == NumScopes < MaxScopes /\ frames' = Append(frames, Frame(Len(objs)))

Push ==
    /\ Calm /\ OpenScope
    /\ UNCHANGED <<kind, objs, blocks, handles, raising>>

\* pop(n), in the body of a block too, and of more than it has pushed.  Too large
\* an n is Z3's error (Fail), and pop(0) returns at once.
Pop(n) ==
    /\ Calm /\ n \in 1..NumScopes
    /\ kind = "optimize" => n = 1
    /\ PopScopes(n)
    /\ blocks' = Above(blocks, Len(frames) - n)
    /\ handles' = HandlesWithin(NumScopes - n)
    /\ UNCHANGED <<kind, raising>>

\* reset, which only Z3Solver has.
Reset ==
    /\ Calm /\ kind = "solver"
    /\ frames' = <<Frame(0)>>
    /\ blocks' = Above(blocks, 1)
    /\ UNCHANGED <<kind, objs, handles, raising>>

-----------------------------------------------------------------------------
(* withFrame.                                                              *)

\* Seeded fault for EnterBlock: push is inside the try.
EnterBlockInTry ==
    /\ Calm /\ Len(blocks) < MaxScopes
    /\ blocks' = Append(blocks, Len(frames))
    /\ \/ OpenScope /\ UNCHANGED raising
       \/ raising' = "call" /\ NumScopes < MaxScopes /\ UNCHANGED frames
    /\ UNCHANGED <<kind, objs, handles>>

\* push(s), before the try: if it fails there is no block.
EnterBlock ==
    /\ Calm /\ OpenScope /\ Len(blocks) < MaxScopes
    /\ blocks' = Append(blocks, Len(frames))
    /\ UNCHANGED <<kind, objs, handles, raising>>

\* Seeded fault for LeaveBlock: pop is not in a finally.
LeaveOnSuccess ==
    /\ blocks # <<>>
    /\ IF ~Calm
       THEN blocks' = Outer /\ UNCHANGED <<frames, objs, handles>>
       ELSE /\ NumScopes > 0 /\ PopScopes(1)
            /\ blocks' = Above(Outer, Len(frames) - 1)
            /\ handles' = HandlesWithin(NumScopes - 1)
    /\ UNCHANGED <<kind, raising>>

\* pop(s, 1) in the finally, whether the body returns or raises, and whatever it
\* has left open.
LeaveBlock ==
    /\ blocks # <<>> /\ NumScopes > 0
    /\ PopScopes(1)
    /\ blocks' = Above(Outer, Len(frames) - 1)
    /\ handles' = HandlesWithin(NumScopes - 1)
    /\ UNCHANGED <<kind, raising>>

\* That pop fails, as it does on a solver without scopes: an exception leaves the
\* block, in place of the body's own.  An optimiser without scopes may ignore it.
LeaveBlockFails ==
    /\ blocks # <<>> /\ blocks' = Outer
    /\ \/ raising' = "pop"
       \/ kind = "optimize" /\ NumScopes = 0 /\ UNCHANGED raising
    /\ UNCHANGED <<kind, frames, objs, handles>>

\* The program catches the exception.
Catch ==
    /\ ~Calm /\ raising' = "none"
    /\ UNCHANGED <<kind, frames, objs, blocks, handles>>

-----------------------------------------------------------------------------

\* The program's side of it: a handle is given up with the scope it was made in.
Next ==
    \/ \E c \in Constraints : Add(c)
    \/ \E t \in Terms : Maximize(t)
    \/ \E g \in Groups : AddSoft(g)
    \/ \E h \in handles : DropHandle(h)
    \/ \E n \in 1..MaxScopes : Pop(n)
    \/ Fail \/ Push \/ Reset \/ EnterBlock \/ LeaveBlock \/ LeaveBlockFails \/ Catch

Spec == Init /\ [][Next]_vars

-----------------------------------------------------------------------------
(* Properties.                                                             *)

HandleSet == [idx : 1..MaxObjectives, obj : Terms \cup Groups, scope : 0..MaxScopes]

\* Every state variable is well formed.  A block whose body has popped nothing of
\* what was there before has the scope it pushed, so that the pop of its finally has
\* a scope to discard (withFrame, push before the try); such blocks are nested.
TypeOK ==
    /\ kind \in {"solver", "optimize"}
    /\ Len(frames) \in 1..(MaxScopes + 1)
    /\ \A i \in 1..Len(frames) :
          frames[i] \in [asserted : SUBSET Constraints, before : 0..Len(objs)]
    /\ Len(objs) <= MaxObjectives
    /\ \A i \in 1..Len(objs) : objs[i] \in Terms \cup Groups
    /\ Len(blocks) <= MaxScopes
    /\ \A i \in 1..Len(blocks) : blocks[i] \in 0..NumScopes
    /\ \A i, j \in 1..Len(blocks) : i < j /\ blocks[j] # 0 => blocks[i] < blocks[j]
    /\ handles \subseteq HandleSet
    /\ raising \in {"none", "call", "pop"}

\* A handle kept no longer than its scope names the objective it was made for,
\* through any pops and any objectives registered since (Z3OptHandle's idx, on
\* which upper and lower rely to give the bound the type of the term).
HandlesValid == \A h \in handles : h.idx <= Len(objs) /\ objs[h.idx] = h.obj

Abstract == INSTANCE AssertionStack WITH
    stack  <- [i \in 1..Len(frames) |-> frames[i].asserted],
    open   <- [i \in 1..Len(blocks) |-> [j \in 1..blocks[i] |-> frames[j].asserted]],
    raised <- raising

\* The scopes are a stack of assertions.  A block whose body has closed the scopes
\* it opened, and no other, leaves no trace however it ends, through failed calls,
\* exceptions caught at any depth and blocks inside blocks; any other loses the
\* innermost scope, or says that it could not (push, pop, reset and withFrame of
\* z3/solver and z3/optimize).
Promise == Abstract!Spec
=============================================================================
