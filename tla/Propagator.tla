----------------------------- MODULE Propagator -----------------------------
(***************************************************************************)
(* User propagators (z3/propagator) and clause callbacks (z3/onclause):    *)
(* the boxes whose addresses Z3 keeps as the user pointers of its solvers, *)
(* and the callbacks through which Z3 re-enters Nim while a check() runs.  *)
(*                                                                         *)
(* Z3 holds no reference on a box.  A box lives while ARC finds it: from a *)
(* Z3Propagator the user keeps, from the subBoxes of a box that lives, or  *)
(* from currentBox and the `prev' locals of the shims on the stack.  The   *)
(* box of a clause callback lives in onClauseBoxes, whence nothing is ever *)
(* removed.                                                                *)
(* Z3 asks for a new box, by the fresh callback, whenever it clones a      *)
(* solver: for Z3_solver_translate, outside any check, or for a check's    *)
(* own use, and that clone is gone when the check returns.                 *)
(*                                                                         *)
(* One thread runs everything.  User code runs at the bottom of the stack  *)
(* and inside handlers, where it may call into other solvers.              *)
(***************************************************************************)
EXTENDS Naturals, Sequences

CONSTANTS
    Boxes,      \* PropagatorCtxBox and RawZ3OnClauseBox cells, allocated once
    Solvers,    \* Z3 solvers, each created at most once
    Events,     \* the callbacks of Z3PropagatorHandlers other than fresh
    MaxDepth,   \* bound: checks and callbacks on the stack
    NoBox,
    NoSolver

ASSUME NilAssumption == NoBox \notin Boxes /\ NoSolver \notin Solvers
ASSUME DepthAssumption == MaxDepth \in Nat

\* Z3_solver_propagate_init registers these whether or not a handler is set.
Mandatory == Events \cap {"push", "pop"}

VARIABLES
    handles,    \* the boxes whose Z3Propagator the user keeps
    keepers,    \* for each box, itself and the boxes whose subBoxes lead to it
    handlers,   \* the events each box has a handler for
    onClauseBoxes,  \* the boxes of clause callbacks, by any solver
    live,       \* solvers that exist
    user,       \* Z3's user pointer of each solver
    prop,       \* the box of newPropagator each solver's callbacks stem from
    clauseUser, \* Z3's user pointer for the clause callback of each solver
    clone,      \* the solver whose check a solver was cloned for, or NoSolver
    cutOff,     \* history: the solvers whose box clearSubBoxes freed under them
    frames,     \* checks and callbacks on the stack, the innermost last
    currentBox

boxVars == <<handles, keepers, handlers, onClauseBoxes>>
solverVars == <<live, user, prop, clauseUser, clone, cutOff>>
stackVars == <<frames, currentBox>>
vars == <<boxVars, solverVars, stackVars>>

Init ==
    /\ handles = {}
    /\ keepers = [b \in Boxes |-> {}]
    /\ handlers = [b \in Boxes |-> {}]
    /\ onClauseBoxes = {}
    /\ live = {}
    /\ user = [s \in Solvers |-> NoBox]
    /\ prop = [s \in Solvers |-> NoBox]
    /\ clauseUser = [s \in Solvers |-> NoBox]
    /\ clone = [s \in Solvers |-> NoSolver]
    /\ cutOff = {}
    /\ frames = <<>>
    /\ currentBox = NoBox

\* A check of solver s; a handler that box runs for it, with the shim's `prev';
\* the fresh handler of box, called to clone s into new; a clause callback of s.
CheckFrame(s) == [kind |-> "check", solver |-> s, box |-> NoBox,
                  prev |-> NoBox, new |-> NoSolver]
HandlerFrame(s, b) == [kind |-> "handler", solver |-> s, box |-> b,
                       prev |-> currentBox, new |-> NoSolver]
FreshFrame(s, b, t) == [kind |-> "fresh", solver |-> s, box |-> b,
                        prev |-> NoBox, new |-> t]
ClauseFrame(s) == [kind |-> "clause", solver |-> s, box |-> clauseUser[s],
                   prev |-> NoBox, new |-> NoSolver]

Depth == Len(frames)
Top == frames[Depth]
Frames == {frames[i] : i \in 1..Depth}
Push(f) == Depth < MaxDepth /\ frames' = Append(frames, f)
Pop == frames' = SubSeq(frames, 1, Depth - 1)

\* User code has control.
InUserCode == Depth > 0 => Top.kind # "check"

\* What ARC finds directly, and through the subBoxes of what it finds.
Roots == handles \cup onClauseBoxes \cup {currentBox} \cup {f.prev : f \in Frames}
Alive(b) == keepers[b] \cap Roots # {}
Made(b) == keepers[b] # {}

\* Solvers that Z3 works on: in a check, or being cloned.
Busy(s) == \E f \in Frames : f.solver = s \/ f.new = s

\* RFC-completeness, ADR-N0004: "The Z3Propagator must outlive every check()
\* call that uses it", and so every clone made by such a call.
InUse(b) == \E f \in Frames : prop[f.solver] = b

-----------------------------------------------------------------------------
(* The user's calls.                                                       *)

NewSolver(s) ==
    /\ InUserCode /\ s \notin live /\ user[s] = NoBox /\ ~Busy(s)
    /\ live' = live \cup {s}
    /\ UNCHANGED <<boxVars, user, prop, clauseUser, clone, cutOff, stackVars>>

\* newPropagator: the box is registered as the solver's user pointer.
NewPropagator(s, b, es) ==
    /\ InUserCode /\ s \in live /\ user[s] = NoBox /\ ~Busy(s) /\ ~Made(b)
    /\ keepers' = [keepers EXCEPT ![b] = {b}]
    /\ handlers' = [handlers EXCEPT ![b] = es]
    /\ handles' = handles \cup {b}
    /\ user' = [user EXCEPT ![s] = b]
    /\ prop' = [prop EXCEPT ![s] = b]
    /\ UNCHANGED <<onClauseBoxes, live, clauseUser, clone, cutOff, stackVars>>

\* The last reference to a Z3Propagator goes.
DropPropagator(b) ==
    /\ InUserCode /\ b \in handles /\ ~InUse(b)
    /\ handles' = handles \ {b}
    /\ UNCHANGED <<keepers, handlers, onClauseBoxes, solverVars, stackVars>>

\* subBoxes.setLen(0): the box no longer keeps what is below it.
Cut(b) == keepers' = [c \in Boxes |-> IF c = b THEN keepers[c] ELSE keepers[c] \ {b}]

\* clearSubBoxes, outside the checks of the propagator, as its doc asks.  A solver
\* cloned from the propagator's that the program keeps, as translate makes one, is
\* no obstacle: Z3 goes on with the address of its box, which is freed.
ClearSubBoxes(b) ==
    /\ InUserCode /\ b \in handles /\ ~InUse(b)
    /\ Cut(b)
    /\ cutOff' = cutOff \cup {s \in live : prop[s] = b /\ user[s] # b}
    /\ UNCHANGED <<handles, handlers, onClauseBoxes, live, user, prop, clauseUser, clone,
                   stackVars>>

\* registerOnClause: the box is added to those kept for the solver's address, and
\* registered in place of the one before, which is kept too.
RegisterOnClause(s, b) ==
    /\ InUserCode /\ s \in live /\ clone[s] = NoSolver /\ ~Busy(s) /\ ~Made(b)
    /\ keepers' = [keepers EXCEPT ![b] = {b}]
    /\ onClauseBoxes' = onClauseBoxes \cup {b}
    /\ clauseUser' = [clauseUser EXCEPT ![s] = b]
    /\ UNCHANGED <<handles, handlers, live, user, prop, clone, cutOff, stackVars>>

\* The last reference to a solver goes.  The box of newPropagator and the
\* Z3Propagator hold one on the solver they were made for.
DropSolver(s) ==
    /\ InUserCode /\ s \in live /\ ~Busy(s) /\ clone[s] = NoSolver
    /\ user[s] # NoBox /\ user[s] = prop[s] => ~Alive(user[s])
    /\ live' = live \ {s}
    /\ clauseUser' = [clauseUser EXCEPT ![s] = NoBox]
    /\ UNCHANGED <<boxVars, user, prop, clone, cutOff, stackVars>>

\* check() on a solver whose Z3Propagator is still kept.
CheckBegin(s) ==
    /\ InUserCode /\ s \in live /\ ~Busy(s)
    /\ prop[s] # NoBox => prop[s] \in handles
    /\ Push(CheckFrame(s))
    /\ UNCHANGED <<boxVars, solverVars, currentBox>>

\* check() returns: Z3 has deleted the solvers it cloned for it.
CheckEnd ==
    /\ Depth > 0 /\ Top.kind = "check"
    /\ live' = {s \in live : clone[s] # Top.solver}
    /\ Pop
    /\ UNCHANGED <<boxVars, user, prop, clauseUser, clone, cutOff, currentBox>>

-----------------------------------------------------------------------------
(* Callbacks.                                                              *)

\* The solver of the innermost check, and its clones.
Checked(s) ==
    /\ s \in live /\ Depth > 0 /\ Top.kind = "check"
    /\ s = Top.solver \/ clone[s] = Top.solver

\* A shim whose box has a handler for e: let prev = currentBox; currentBox = box.
\* A shim whose box has none returns at once.
Callback(s, e) ==
    /\ Checked(s) /\ user[s] # NoBox
    /\ e \in Mandatory \cup handlers[prop[s]] /\ e \in handlers[user[s]]
    /\ Push(HandlerFrame(s, user[s]))
    /\ currentBox' = user[s]
    /\ UNCHANGED <<boxVars, solverVars>>

\* Seeded fault for HandlerEnds: nil is restored and not prev.
HandlerEndsWithNil ==
    /\ Depth > 0 /\ Top.kind = "handler"
    /\ currentBox' = NoBox
    /\ Pop
    /\ UNCHANGED <<boxVars, solverVars>>

\* Seeded fault for HandlerEnds: the final shim releases the sub-boxes, the plan
\* that RFC-completeness found unsound.
FinalClearsSubBoxes ==
    /\ Depth > 0 /\ Top.kind = "handler"
    /\ currentBox' = Top.prev
    /\ Cut(Top.box)
    /\ Pop
    /\ UNCHANGED <<handles, handlers, onClauseBoxes, solverVars>>

\* The shim's finally, after a handler that returned or raised.
HandlerEnds ==
    /\ Depth > 0 /\ Top.kind = "handler"
    /\ currentBox' = Top.prev
    /\ Pop
    /\ UNCHANGED <<boxVars, solverVars>>

\* onClauseShim, which leaves currentBox as it is.
ClauseCallback(s) ==
    /\ Checked(s) /\ clauseUser[s] # NoBox
    /\ Push(ClauseFrame(s))
    /\ UNCHANGED <<boxVars, solverVars, currentBox>>

ClauseEnds ==
    /\ Depth > 0 /\ Top.kind = "clause"
    /\ Pop
    /\ UNCHANGED <<boxVars, solverVars, currentBox>>

\* Z3 clones s into t, and calls the fresh shim if s has a propagator: for
\* translate, called by the user, or within a check.
FreshBegin(s, t) ==
    /\ s \in live /\ t \notin live /\ user[t] = NoBox /\ ~Busy(t) /\ t # s
    /\ user[s] # NoBox
    /\ \/ /\ InUserCode /\ ~Busy(s) /\ clone[s] = NoSolver /\ prop[s] \in handles
          /\ UNCHANGED clone
       \/ /\ Checked(s)
          /\ clone' = [clone EXCEPT ![t] = Top.solver]
    /\ Push(FreshFrame(s, user[s], t))
    /\ UNCHANGED <<boxVars, live, user, prop, clauseUser, cutOff, currentBox>>

\* Seeded fault for FreshEnds: no sub-box when the fresh handler raised.
FreshEndsOrFails(b, es) ==
    /\ Depth > 0 /\ Top.kind = "fresh" /\ ~Made(b)
    /\ keepers' = [keepers EXCEPT ![b] = keepers[Top.box] \cup {b}]
    /\ handlers' = [handlers EXCEPT ![b] = es]
    /\ live' = live \cup {Top.new}
    /\ user' = [user EXCEPT ![Top.new] = IF es = {} THEN NoBox ELSE b]
    /\ prop' = [prop EXCEPT ![Top.new] = prop[Top.solver]]
    /\ cutOff' = IF Top.solver \in cutOff THEN cutOff \cup {Top.new} ELSE cutOff
    /\ Pop
    /\ UNCHANGED <<handles, onClauseBoxes, clauseUser, clone, currentBox>>

\* Seeded fault for FreshEnds: the sub-box is not added to the parent's subBoxes.
FreshEndsUnrooted(b, es) ==
    /\ Depth > 0 /\ Top.kind = "fresh" /\ ~Made(b)
    /\ keepers' = [keepers EXCEPT ![b] = {b}]
    /\ handlers' = [handlers EXCEPT ![b] = es]
    /\ live' = live \cup {Top.new}
    /\ user' = [user EXCEPT ![Top.new] = b]
    /\ prop' = [prop EXCEPT ![Top.new] = prop[Top.solver]]
    /\ cutOff' = IF Top.solver \in cutOff THEN cutOff \cup {Top.new} ELSE cutOff
    /\ Pop
    /\ UNCHANGED <<handles, onClauseBoxes, clauseUser, clone, currentBox>>

\* The fresh handler returned the events es, or there is none or it raised
\* (es = {}): the shim makes a sub-box, adds it to the subBoxes of its own box,
\* and gives Z3 its address as the clone's user pointer.  A box that is freed
\* already keeps nothing.
FreshEnds(b, es) ==
    /\ Depth > 0 /\ Top.kind = "fresh" /\ ~Made(b)
    /\ keepers' = [keepers EXCEPT ![b] = keepers[Top.box] \cup {b}]
    /\ handlers' = [handlers EXCEPT ![b] = es]
    /\ live' = live \cup {Top.new}
    /\ user' = [user EXCEPT ![Top.new] = b]
    /\ prop' = [prop EXCEPT ![Top.new] = prop[Top.solver]]
    /\ cutOff' = IF Top.solver \in cutOff THEN cutOff \cup {Top.new} ELSE cutOff
    /\ Pop
    /\ UNCHANGED <<handles, onClauseBoxes, clauseUser, clone, currentBox>>

-----------------------------------------------------------------------------
Z3Step ==
    \/ CheckEnd \/ HandlerEnds \/ ClauseEnds
    \/ \E s \in Solvers, e \in Events : Callback(s, e)
    \/ \E s \in Solvers : ClauseCallback(s)
    \/ \E s, t \in Solvers : FreshBegin(s, t)
    \/ \E b \in Boxes, es \in SUBSET Events : FreshEnds(b, es)

UserStep ==
    \/ \E s \in Solvers : NewSolver(s) \/ DropSolver(s) \/ CheckBegin(s)
    \/ \E s \in Solvers, b \in Boxes, es \in SUBSET Events : NewPropagator(s, b, es)
    \/ \E s \in Solvers, b \in Boxes : RegisterOnClause(s, b)
    \/ \E b \in Boxes : DropPropagator(b) \/ ClearSubBoxes(b)

Next == Z3Step \/ UserStep

Spec == Init /\ [][Next]_vars

-----------------------------------------------------------------------------
Frame == [kind: {"check", "handler", "fresh", "clause"}, solver: Solvers,
          box: Boxes \cup {NoBox}, prev: Boxes \cup {NoBox}, new: Solvers \cup {NoSolver}]

TypeOK ==
    /\ handles \subseteq Boxes
    /\ keepers \in [Boxes -> SUBSET Boxes]
    /\ handlers \in [Boxes -> SUBSET Events]
    /\ live \subseteq Solvers
    /\ user \in [Solvers -> Boxes \cup {NoBox}]
    /\ prop \in [Solvers -> Boxes \cup {NoBox}]
    /\ onClauseBoxes \subseteq Boxes
    /\ clauseUser \in [Solvers -> Boxes \cup {NoBox}]
    /\ clone \in [Solvers -> Solvers \cup {NoSolver}]
    /\ cutOff \subseteq Solvers
    /\ frames \in Seq(Frame) /\ Depth <= MaxDepth
    /\ currentBox \in Boxes \cup {NoBox}
    /\ \A s \in Solvers : user[s] = NoBox <=> prop[s] = NoBox
    /\ \A f \in Frames : f.kind = "check" <=> f.box = NoBox

\* While a check or a clone is on the stack, every user pointer Z3 may call a
\* shim with belongs to a box that ARC has not freed: for clauses always, and for a
\* propagator unless the program has called clearSubBoxes over a solver that it
\* kept, and uses that solver all the same (clearSubBoxes and the shims).
CallbacksLand ==
    \A f \in Frames :
       /\ f.box # NoBox /\ (f.kind = "clause" \/ f.solver \notin cutOff) => Alive(f.box)
       /\ f.kind = "check" =>
             \A s \in live : s = f.solver \/ clone[s] = f.solver =>
                /\ clauseUser[s] # NoBox => Alive(clauseUser[s])
                /\ user[s] # NoBox /\ s \notin cutOff => Alive(user[s])

\* consequence, nextSplit and propagateConflict find the context of the very
\* callback they are called in: currentBox is the box of the innermost handler
\* on the stack, however checks and handlers nest, and nil outside them.
Innermost(i) == /\ frames[i].kind = "handler"
                /\ \A j \in (i + 1)..Depth : frames[j].kind # "handler"
CurrentBoxIsRunning ==
    /\ \A i \in 1..Depth : Innermost(i) => currentBox = frames[i].box
    /\ (\A i \in 1..Depth : ~Innermost(i)) => currentBox = NoBox

\* While the Z3Propagator is kept, the box of a solver made from the propagator's
\* outlives every check and callback: nothing but clearSubBoxes, called when that
\* solver exists already, frees it (fresh, the shims, RFC-completeness ADR-N0004).
SubBoxesKept ==
    \A s \in live \ cutOff : prop[s] \in handles => Alive(user[s])
=============================================================================
