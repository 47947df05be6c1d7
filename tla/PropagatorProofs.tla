-------------------------- MODULE PropagatorProofs --------------------------
(***************************************************************************)
(* User propagators for any number of boxes and solvers and any nesting of *)
(* checks and callbacks: only a solver that clearSubBoxes cut off reaches a *)
(* freed box, and currentBox is the box of the handler that runs.          *)
(***************************************************************************)
EXTENDS Propagator, SequenceTheorems, TLAPS

-----------------------------------------------------------------------------
(* The inductive invariant.                                                *)

\* The box a solver calls is kept by the box of the newPropagator it stems from,
\* until clearSubBoxes cuts it off.
Owned == \A s \in live \ cutOff : user[s] # NoBox => prop[s] \in keepers[user[s]]

\* The Z3Propagator of whatever is on the stack is kept; so is the box a shim was
\* called with, unless the solver is cut off; and a solver that is being cloned for
\* a check has the propagator of that check.
PinnedFrame(f) ==
    /\ prop[f.solver] # NoBox => prop[f.solver] \in handles
    /\ f.kind \in {"handler", "fresh"} =>
          /\ prop[f.solver] # NoBox
          /\ f.solver \notin cutOff => prop[f.solver] \in keepers[f.box]
    /\ f.kind = "clause" => f.box \in onClauseBoxes
    /\ f.kind = "fresh" =>
          /\ f.new \in Solvers /\ prop[f.new] = NoBox
          /\ clone[f.new] # NoSolver => prop[f.solver] = prop[clone[f.new]]
Pinned == \A f \in Frames : PinnedFrame(f)

ClausesKept ==
    /\ \A b \in onClauseBoxes : b \in keepers[b]
    /\ \A s \in Solvers : clauseUser[s] # NoBox => clauseUser[s] \in onClauseBoxes

\* A solver that a check has cloned stems from the same propagator as the solver
\* that is checked.
Families ==
    \A s \in Solvers : clone[s] # NoSolver =>
       /\ prop[s] # NoBox => prop[s] = prop[clone[s]]
       /\ prop[s] = NoBox => \E f \in Frames : f.kind = "fresh" /\ f.new = s

OneFresh ==
    \A i, j \in 1..Depth :
       i # j /\ frames[i].kind = "fresh" /\ frames[j].kind = "fresh"
       => frames[i].new # frames[j].new

\* Frame i is the innermost handler among the first n of stack.
Last(stack, n, i) == /\ stack[i].kind = "handler"
                     /\ \A j \in (i + 1)..n : stack[j].kind # "handler"

\* b is the box of the innermost handler among the first n of stack, or nil.
Running(stack, n, b) ==
    /\ \A i \in 1..n : Last(stack, n, i) => b = stack[i].box
    /\ (\A i \in 1..n : ~Last(stack, n, i)) => b = NoBox

\* Every handler restores the box of the handler it interrupted.
Chain == \A i \in 1..Depth : frames[i].kind = "handler" => Running(frames, i - 1, frames[i].prev)

Inv == /\ TypeOK /\ Owned /\ Pinned /\ ClausesKept /\ Families /\ OneFresh
       /\ Chain /\ Running(frames, Depth, currentBox)

-----------------------------------------------------------------------------
(* The stack.                                                              *)

LEMMA PushFacts ==
  ASSUME TypeOK, NEW f \in Frame, Push(f)
  PROVE  /\ Depth' = Depth + 1 /\ Depth \in Nat /\ frames' \in Seq(Frame) /\ Depth' <= MaxDepth
         /\ \A i \in 1..Depth : frames'[i] = frames[i]
         /\ frames'[Depth + 1] = f
         /\ Frames' = Frames \cup {f}
<1>1. /\ Depth' = Depth + 1 /\ Depth \in Nat /\ frames' \in Seq(Frame) /\ Depth' <= MaxDepth
      /\ \A i \in 1..Depth : frames'[i] = frames[i]
      /\ frames'[Depth + 1] = f
  BY DepthAssumption DEF Push, Depth, TypeOK
<1>2. Frames' = Frames \cup {f}
  BY <1>1 DEF Frames
<1> QED
  BY <1>1, <1>2

LEMMA PopFacts ==
  ASSUME TypeOK, Depth > 0, Pop
  PROVE  /\ Depth' = Depth - 1 /\ Depth \in Nat /\ frames' \in Seq(Frame) /\ Depth' <= MaxDepth
         /\ \A i \in 1..(Depth - 1) : frames'[i] = frames[i]
         /\ Frames = Frames' \cup {Top}
         /\ Top \in Frame /\ Top \in Frames
<1>1. Depth \in Nat /\ Top \in Frame /\ frames \in Seq(Frame) /\ Depth <= MaxDepth
  BY DEF Depth, TypeOK, Top
<1>2. /\ frames' \in Seq(Frame) /\ Depth' = Depth - 1
      /\ \A i \in 1..(Depth - 1) : frames'[i] = frames[i]
  <2>1. \A i \in 1..(Depth - 1) : frames[i] \in Frame
    BY <1>1 DEF Depth
  <2>2. Depth - 1 \in Int /\ 1 \in Int
    BY <1>1
  <2>3. /\ SubSeq(frames, 1, Depth - 1) \in Seq(Frame)
        /\ Len(SubSeq(frames, 1, Depth - 1)) = Depth - 1
        /\ \A i \in 1..(Depth - 1) : SubSeq(frames, 1, Depth - 1)[i] = frames[i]
    BY <1>1, <2>1, <2>2, SubSeqProperties
  <2> QED
    BY <2>3 DEF Pop, Depth
<1>3. Depth' <= MaxDepth
  BY <1>1, <1>2, DepthAssumption
<1>4. Frames = Frames' \cup {Top}
  <2>1. Frames' = {frames[i] : i \in 1..(Depth - 1)}
    BY <1>1, <1>2 DEF Frames
  <2>2. 1..Depth = (1..(Depth - 1)) \cup {Depth}
    BY <1>1
  <2> QED
    BY <2>1, <2>2 DEF Frames, Top
<1>5. Top \in Frames
  BY <1>1 DEF Frames, Top
<1> QED
  BY <1>1, <1>2, <1>3, <1>4, <1>5

LEMMA FramesTyped == TypeOK => Frames \subseteq Frame
BY DEF TypeOK, Frames, Depth

\* What runs depends on the frames it counts alone.
LEMMA RunningPrefix ==
  ASSUME NEW old, NEW new, NEW n \in Nat, NEW b,
         \A i \in 1..n : new[i] = old[i], Running(old, n, b)
  PROVE  Running(new, n, b)
<1>1. \A i \in 1..n : Last(new, n, i) <=> Last(old, n, i)
  BY DEF Last
<1> QED
  BY <1>1 DEF Running

\* A step that leaves the stack as it is.
LEMMA StackSame ==
  ASSUME Inv, UNCHANGED stackVars
  PROVE  /\ OneFresh' /\ Chain' /\ Running(frames', Depth', currentBox')
         /\ Frames' = Frames /\ Depth' = Depth
         /\ frames' \in Seq(Frame) /\ Depth' <= MaxDepth
BY DEF Inv, TypeOK, stackVars, OneFresh, Chain, Running, Last, Depth, Frames

LEMMA NewSolverInv == ASSUME Inv, NEW s \in Solvers, NewSolver(s) PROVE Inv'
<1> USE DEF Inv
<1>1. UNCHANGED <<boxVars, user, prop, clauseUser, clone, cutOff, stackVars>> /\ live' = live \cup {s}
      /\ user[s] = NoBox
  BY DEF NewSolver
<1>2. TypeOK'
  BY <1>1, StackSame DEF TypeOK, boxVars, stackVars
<1>3. Owned' /\ Pinned' /\ ClausesKept' /\ Families'
  BY <1>1, StackSame DEF Owned, Pinned, PinnedFrame, ClausesKept, Families, boxVars, stackVars
<1> QED
  BY <1>1, <1>2, <1>3, StackSame

LEMMA NewPropagatorInv ==
  ASSUME Inv, NEW s \in Solvers, NEW b \in Boxes, NEW es \in SUBSET Events, NewPropagator(s, b, es)
  PROVE  Inv'
<1> USE DEF Inv
<1>1. /\ UNCHANGED <<onClauseBoxes, live, clauseUser, clone, cutOff, stackVars>>
      /\ s \in live /\ user[s] = NoBox /\ prop[s] = NoBox /\ keepers[b] = {}
      /\ \A f \in Frames : f.solver # s /\ f.new # s
      /\ keepers' = [keepers EXCEPT ![b] = {b}]
      /\ handlers' = [handlers EXCEPT ![b] = es]
      /\ handles' = handles \cup {b}
      /\ user' = [user EXCEPT ![s] = b]
      /\ prop' = [prop EXCEPT ![s] = b]
  BY DEF NewPropagator, Busy, Made, TypeOK
<1>2. TypeOK'
  BY <1>1, StackSame, NilAssumption DEF TypeOK, stackVars
<1>3. Owned' /\ ClausesKept'
  BY <1>1 DEF Owned, ClausesKept, TypeOK
<1>4. Pinned'
  <2> SUFFICES ASSUME NEW f \in Frames PROVE PinnedFrame(f)'
    BY <1>1, StackSame DEF Pinned
  <2>1. f \in Frame /\ f.solver # s /\ f.new # s
    BY <1>1, FramesTyped
  <2>2. prop[f.solver]' = prop[f.solver] /\ (f.new \in Solvers => prop[f.new]' = prop[f.new])
    BY <1>1, <2>1 DEF TypeOK, Frame
  <2>3. f.kind \in {"handler", "fresh"} =>
           /\ prop'[f.solver] # NoBox
           /\ f.solver \notin cutOff => prop'[f.solver] \in keepers'[f.box]
    BY <1>1, <2>1, <2>2 DEF TypeOK, Frame, Pinned, PinnedFrame
  <2>4. f.kind = "fresh" /\ clone[f.new] # NoSolver => prop'[f.solver] = prop'[clone[f.new]]
    BY <1>1, <2>1, <2>2, NilAssumption DEF TypeOK, Frame, Pinned, PinnedFrame
  <2> QED
    BY <1>1, <2>1, <2>2, <2>3, <2>4 DEF Pinned, PinnedFrame
<1>5. Families'
  BY <1>1, StackSame DEF Families, TypeOK
<1> QED
  BY <1>1, <1>2, <1>3, <1>4, <1>5, StackSame

LEMMA DropPropagatorInv == ASSUME Inv, NEW b \in Boxes, DropPropagator(b) PROVE Inv'
<1> USE DEF Inv
<1>1. /\ UNCHANGED <<keepers, handlers, onClauseBoxes, solverVars, stackVars>>
      /\ handles' = handles \ {b} /\ \A f \in Frames : prop[f.solver] # b
  BY DEF DropPropagator, InUse
<1>2. TypeOK'
  BY <1>1, StackSame DEF TypeOK, solverVars, stackVars
<1>3. Owned' /\ Pinned' /\ ClausesKept' /\ Families'
  BY <1>1, StackSame DEF Owned, Pinned, PinnedFrame, ClausesKept, Families, solverVars, stackVars
<1> QED
  BY <1>1, <1>2, <1>3, StackSame

LEMMA ClearSubBoxesInv == ASSUME Inv, NEW b \in Boxes, ClearSubBoxes(b) PROVE Inv'
<1> USE DEF Inv
<1>1. /\ UNCHANGED <<handles, handlers, onClauseBoxes, live, user, prop, clauseUser, clone, stackVars>>
      /\ keepers' = [c \in Boxes |-> IF c = b THEN keepers[c] ELSE keepers[c] \ {b}]
      /\ cutOff' = cutOff \cup {s \in live : prop[s] = b /\ user[s] # b}
      /\ \A f \in Frames : prop[f.solver] # b
  BY DEF ClearSubBoxes, InUse, Cut
<1>2. TypeOK'
  BY <1>1, StackSame DEF TypeOK, stackVars
<1>3. Owned' /\ ClausesKept'
  BY <1>1 DEF Owned, ClausesKept, TypeOK
<1>4. Pinned' /\ Families'
  BY <1>1, StackSame, FramesTyped DEF Pinned, PinnedFrame, Families, TypeOK, Frame, stackVars
<1> QED
  BY <1>1, <1>2, <1>3, <1>4, StackSame

LEMMA RegisterOnClauseInv ==
  ASSUME Inv, NEW s \in Solvers, NEW b \in Boxes, RegisterOnClause(s, b) PROVE Inv'
<1> USE DEF Inv
<1>1. /\ UNCHANGED <<handles, handlers, live, user, prop, clone, cutOff, stackVars>>
      /\ keepers[b] = {} /\ keepers' = [keepers EXCEPT ![b] = {b}]
      /\ onClauseBoxes' = onClauseBoxes \cup {b}
      /\ clauseUser' = [clauseUser EXCEPT ![s] = b]
  BY DEF RegisterOnClause, Made
<1>2. TypeOK'
  BY <1>1, StackSame DEF TypeOK, stackVars
<1>3. Owned' /\ ClausesKept'
  BY <1>1 DEF Owned, ClausesKept, TypeOK
<1>4. Pinned' /\ Families'
  BY <1>1, StackSame, FramesTyped DEF Pinned, PinnedFrame, Families, TypeOK, Frame, stackVars
<1> QED
  BY <1>1, <1>2, <1>3, <1>4, StackSame

LEMMA DropSolverInv == ASSUME Inv, NEW s \in Solvers, DropSolver(s) PROVE Inv'
<1> USE DEF Inv
<1>1. /\ UNCHANGED <<boxVars, user, prop, clone, cutOff, stackVars>>
      /\ live' = live \ {s} /\ clauseUser' = [clauseUser EXCEPT ![s] = NoBox]
  BY DEF DropSolver
<1>2. TypeOK'
  BY <1>1, StackSame DEF TypeOK, boxVars, stackVars
<1>3. Owned' /\ Pinned' /\ ClausesKept' /\ Families'
  BY <1>1, StackSame DEF Owned, Pinned, PinnedFrame, ClausesKept, Families, TypeOK, boxVars, stackVars
<1> QED
  BY <1>1, <1>2, <1>3, StackSame

-----------------------------------------------------------------------------
(* Pushes and pops.                                                        *)

\* A frame other than a handler goes on the stack, or off it.
LEMMA PushOther ==
  ASSUME Inv, NEW f \in Frame, Push(f), f.kind # "handler", currentBox' = currentBox
  PROVE  Chain' /\ Running(frames', Depth', currentBox')
<1>1. /\ Depth' = Depth + 1 /\ Depth \in Nat /\ frames'[Depth + 1] = f
      /\ \A i \in 1..Depth : frames'[i] = frames[i]
  BY PushFacts DEF Inv
<1>2. Chain'
  <2> SUFFICES ASSUME NEW i \in 1..(Depth + 1), frames'[i].kind = "handler"
               PROVE  Running(frames', i - 1, frames'[i].prev)
    BY <1>1 DEF Chain
  <2>1. i \in 1..Depth /\ frames'[i] = frames[i]
    BY <1>1
  <2> QED
    BY <1>1, <2>1 DEF Inv, Chain, Running, Last
<1>3. Running(frames', Depth', currentBox')
  BY <1>1 DEF Inv, Running, Last
<1> QED
  BY <1>2, <1>3

LEMMA PopOther ==
  ASSUME Inv, Depth > 0, Pop, Top.kind # "handler", currentBox' = currentBox
  PROVE  Chain' /\ Running(frames', Depth', currentBox')
<1>1. /\ Depth' = Depth - 1 /\ Depth \in Nat
      /\ \A i \in 1..(Depth - 1) : frames'[i] = frames[i]
  BY PopFacts DEF Inv
<1>2. Chain'
  BY <1>1 DEF Inv, Chain, Running, Last
<1>3. Running(frames', Depth', currentBox')
  BY <1>1 DEF Inv, Running, Last, Top
<1> QED
  BY <1>2, <1>3

\* A frame that clones nothing.
LEMMA PushOneFresh ==
  ASSUME Inv, NEW f \in Frame, Push(f),
         f.kind = "fresh" => \A g \in Frames : g.new # f.new
  PROVE  OneFresh'
<1>1. /\ Depth' = Depth + 1 /\ Depth \in Nat /\ frames'[Depth + 1] = f
      /\ \A i \in 1..Depth : frames'[i] = frames[i] /\ frames[i] \in Frames
  BY PushFacts DEF Inv, Frames
<1> QED
  BY <1>1 DEF Inv, OneFresh

LEMMA PopOneFresh == ASSUME Inv, Depth > 0, Pop PROVE OneFresh'
BY PopFacts DEF Inv, OneFresh

LEMMA CheckBeginInv == ASSUME Inv, NEW s \in Solvers, CheckBegin(s) PROVE Inv'
<1> USE DEF Inv
<1> DEFINE f == CheckFrame(s)
<1>1. /\ UNCHANGED <<boxVars, solverVars, currentBox>> /\ Push(f)
      /\ prop[s] # NoBox => prop[s] \in handles
  BY DEF CheckBegin
<1>2. f \in Frame /\ f.kind = "check" /\ f.solver = s /\ f.box = NoBox
  BY DEF CheckFrame, Frame
<1> HIDE DEF f
<1>3. Frames' = Frames \cup {f} /\ Depth' <= MaxDepth /\ frames' \in Seq(Frame)
  BY <1>1, <1>2, PushFacts
<1>4. TypeOK'
  BY <1>1, <1>2, <1>3 DEF TypeOK, boxVars, solverVars
<1>5. Owned' /\ Pinned' /\ ClausesKept' /\ Families'
  BY <1>1, <1>2, <1>3 DEF Owned, Pinned, PinnedFrame, ClausesKept, Families, boxVars, solverVars
<1> QED
  BY <1>1, <1>2, <1>4, <1>5, PushOther, PushOneFresh

LEMMA CheckEndInv == ASSUME Inv, CheckEnd PROVE Inv'
<1> USE DEF Inv
<1>1. /\ UNCHANGED <<boxVars, user, prop, clauseUser, clone, cutOff, currentBox>>
      /\ Depth > 0 /\ Pop /\ Top.kind = "check" /\ live' \subseteq live
  BY DEF CheckEnd
<1>2. Frames = Frames' \cup {Top} /\ Depth' <= MaxDepth /\ frames' \in Seq(Frame)
  BY <1>1, PopFacts
<1>3. TypeOK'
  BY <1>1, <1>2 DEF TypeOK, boxVars
<1>4. Owned' /\ Pinned' /\ ClausesKept' /\ Families'
  BY <1>1, <1>2 DEF Owned, Pinned, PinnedFrame, ClausesKept, Families, boxVars
<1> QED
  BY <1>1, <1>3, <1>4, PopOther, PopOneFresh

\* A solver in the innermost check stems from a propagator that is kept.
LEMMA CheckedKept ==
  ASSUME Inv, NEW s \in Solvers, Checked(s), user[s] # NoBox
  PROVE  /\ prop[s] \in handles /\ prop[s] # NoBox
         /\ s \notin cutOff => prop[s] \in keepers[user[s]]
         /\ Top.solver \in Solvers /\ prop[s] = prop[Top.solver]
<1>1. Top \in Frames /\ Top \in Frame
  BY DEF Checked, Inv, TypeOK, Frames, Top, Depth
<1>2. /\ s \in live /\ prop[s] # NoBox /\ Top.solver \in Solvers
      /\ s = Top.solver \/ clone[s] = Top.solver
  BY <1>1 DEF Checked, Inv, TypeOK, Frame
<1>3. prop[s] = prop[Top.solver]
  BY <1>2, NilAssumption DEF Inv, Families
<1> QED
  BY <1>1, <1>2, <1>3 DEF Inv, Owned, Pinned, PinnedFrame

LEMMA CallbackInv ==
  ASSUME Inv, NEW s \in Solvers, NEW e \in Events, Callback(s, e) PROVE Inv'
<1> USE DEF Inv
<1> DEFINE f == HandlerFrame(s, user[s])
<1>1. /\ UNCHANGED <<boxVars, solverVars>> /\ Push(f) /\ currentBox' = user[s]
      /\ Checked(s) /\ user[s] # NoBox
  BY DEF Callback
<1>2. /\ f \in Frame /\ f.kind = "handler" /\ f.solver = s /\ f.box = user[s]
      /\ f.prev = currentBox /\ user[s] \in Boxes
  BY <1>1 DEF HandlerFrame, Frame, TypeOK
<1> HIDE DEF f
<1>3. /\ Frames' = Frames \cup {f} /\ Depth' <= MaxDepth /\ frames' \in Seq(Frame)
      /\ Depth' = Depth + 1 /\ Depth \in Nat /\ frames'[Depth + 1] = f
      /\ \A i \in 1..Depth : frames'[i] = frames[i]
  BY <1>1, <1>2, PushFacts
<1>4. TypeOK'
  BY <1>1, <1>2, <1>3 DEF TypeOK, boxVars, solverVars
<1>5. Owned' /\ ClausesKept' /\ Families'
  BY <1>1, <1>3 DEF Owned, ClausesKept, Families, boxVars, solverVars
<1>6. Pinned'
  BY <1>1, <1>2, <1>3, CheckedKept DEF Pinned, PinnedFrame, boxVars, solverVars
<1>7. Chain'
  <2> SUFFICES ASSUME NEW i \in 1..(Depth + 1), frames'[i].kind = "handler"
               PROVE  Running(frames', i - 1, frames'[i].prev)
    BY <1>3 DEF Chain
  <2>1. CASE i = Depth + 1
    <3>1. /\ frames'[i] = f /\ i - 1 = Depth /\ Running(frames, Depth, f.prev)
      BY <1>2, <1>3, <2>1
    <3> QED
      BY <1>3, <3>1, RunningPrefix
  <2>2. CASE i \in 1..Depth
    <3>1. /\ frames'[i] = frames[i] /\ Running(frames, i - 1, frames[i].prev)
          /\ i - 1 \in Nat /\ \A j \in 1..(i - 1) : frames'[j] = frames[j]
      BY <1>3, <2>2 DEF Chain
    <3> QED
      BY <3>1, RunningPrefix
  <2> QED
    BY <1>3, <2>1, <2>2
<1>8. Running(frames', Depth', currentBox')
  BY <1>1, <1>2, <1>3 DEF Running, Last
<1> QED
  BY <1>1, <1>2, <1>4, <1>5, <1>6, <1>7, <1>8, PushOneFresh

LEMMA HandlerEndsInv == ASSUME Inv, HandlerEnds PROVE Inv'
<1> USE DEF Inv
<1>1. /\ UNCHANGED <<boxVars, solverVars>>
      /\ Depth > 0 /\ Pop /\ Top.kind = "handler" /\ currentBox' = Top.prev
  BY DEF HandlerEnds
<1>2. /\ Frames = Frames' \cup {Top} /\ Depth' <= MaxDepth /\ frames' \in Seq(Frame)
      /\ Depth' = Depth - 1 /\ Depth \in Nat /\ Top \in Frame
      /\ \A i \in 1..(Depth - 1) : frames'[i] = frames[i]
  BY <1>1, PopFacts
<1>3. TypeOK'
  BY <1>1, <1>2 DEF TypeOK, boxVars, solverVars, Frame
<1>4. Owned' /\ Pinned' /\ ClausesKept' /\ Families'
  BY <1>1, <1>2 DEF Owned, Pinned, PinnedFrame, ClausesKept, Families, boxVars, solverVars
<1>5. Chain'
  <2> SUFFICES ASSUME NEW i \in 1..(Depth - 1), frames'[i].kind = "handler"
               PROVE  Running(frames', i - 1, frames'[i].prev)
    BY <1>2 DEF Chain
  <2>1. /\ frames'[i] = frames[i] /\ Running(frames, i - 1, frames[i].prev)
        /\ i - 1 \in Nat /\ \A j \in 1..(i - 1) : frames'[j] = frames[j]
    BY <1>2 DEF Chain
  <2> QED
    BY <2>1, RunningPrefix
<1>6. Running(frames', Depth', currentBox')
  BY <1>1, <1>2 DEF Chain, Running, Last, Top
<1> QED
  BY <1>1, <1>3, <1>4, <1>5, <1>6, PopOneFresh

LEMMA ClauseCallbackInv == ASSUME Inv, NEW s \in Solvers, ClauseCallback(s) PROVE Inv'
<1> USE DEF Inv
<1> DEFINE f == ClauseFrame(s)
<1>1. /\ UNCHANGED <<boxVars, solverVars, currentBox>> /\ Push(f)
      /\ Checked(s) /\ clauseUser[s] # NoBox
  BY DEF ClauseCallback
<1>2. /\ f \in Frame /\ f.kind = "clause" /\ f.solver = s /\ f.box = clauseUser[s]
  BY <1>1 DEF ClauseFrame, Frame, TypeOK
<1> HIDE DEF f
<1>3. Frames' = Frames \cup {f} /\ Depth' <= MaxDepth /\ frames' \in Seq(Frame)
  BY <1>1, <1>2, PushFacts
<1>4. TypeOK'
  BY <1>1, <1>2, <1>3 DEF TypeOK, boxVars, solverVars
<1>5. Owned' /\ ClausesKept' /\ Families'
  BY <1>1, <1>3 DEF Owned, ClausesKept, Families, boxVars, solverVars
<1>6. prop[s] # NoBox => prop[s] \in handles
  BY <1>1, CheckedKept DEF TypeOK
<1>7. Pinned'
  BY <1>1, <1>2, <1>3, <1>6 DEF Pinned, PinnedFrame, ClausesKept, boxVars, solverVars
<1> QED
  BY <1>1, <1>2, <1>4, <1>5, <1>7, PushOther, PushOneFresh

LEMMA ClauseEndsInv == ASSUME Inv, ClauseEnds PROVE Inv'
<1> USE DEF Inv
<1>1. /\ UNCHANGED <<boxVars, solverVars, currentBox>>
      /\ Depth > 0 /\ Pop /\ Top.kind = "clause"
  BY DEF ClauseEnds
<1>2. Frames = Frames' \cup {Top} /\ Depth' <= MaxDepth /\ frames' \in Seq(Frame)
  BY <1>1, PopFacts
<1>3. TypeOK'
  BY <1>1, <1>2 DEF TypeOK, boxVars, solverVars
<1>4. Owned' /\ Pinned' /\ ClausesKept' /\ Families'
  BY <1>1, <1>2 DEF Owned, Pinned, PinnedFrame, ClausesKept, Families, boxVars, solverVars
<1> QED
  BY <1>1, <1>3, <1>4, PopOther, PopOneFresh

LEMMA FreshBeginInv ==
  ASSUME Inv, NEW s \in Solvers, NEW t \in Solvers, FreshBegin(s, t) PROVE Inv'
<1> USE DEF Inv
<1> DEFINE f == FreshFrame(s, user[s], t)
<1>1. /\ UNCHANGED <<boxVars, live, user, prop, clauseUser, cutOff, currentBox>> /\ Push(f)
      /\ user[s] # NoBox /\ user[t] = NoBox /\ prop[t] = NoBox /\ t # s /\ s \in live
      /\ \A g \in Frames : g.solver # t /\ g.new # t
  BY DEF FreshBegin, Busy, TypeOK
<1>2. /\ f \in Frame /\ f.kind = "fresh" /\ f.solver = s /\ f.box = user[s] /\ f.new = t
  BY <1>1 DEF FreshFrame, Frame, TypeOK
<1> HIDE DEF f
<1>3. Frames' = Frames \cup {f} /\ Depth' <= MaxDepth /\ frames' \in Seq(Frame)
  BY <1>1, <1>2, PushFacts
<1>4. clone[t] = NoSolver
  BY <1>1 DEF Families
\* For translate, or for a check of a solver of the same propagator.
<1>5. /\ prop[s] \in handles /\ prop[s] # NoBox
      /\ s \notin cutOff => prop[s] \in keepers[user[s]]
      /\ clone' \in [Solvers -> Solvers \cup {NoSolver}]
      /\ \A u \in Solvers \ {t} : clone'[u] = clone[u]
      /\ clone'[t] # NoSolver => prop[s] = prop[clone'[t]]
  <2>1. CASE prop[s] \in handles /\ UNCHANGED clone
    BY <1>1, <1>4, <2>1 DEF TypeOK, Owned
  <2>2. CASE Checked(s) /\ clone' = [clone EXCEPT ![t] = Top.solver]
    BY <1>1, <2>2, CheckedKept DEF TypeOK
  <2> QED
    BY <2>1, <2>2 DEF FreshBegin
<1>6. TypeOK'
  BY <1>1, <1>2, <1>3, <1>5 DEF TypeOK, boxVars
<1>7. Owned' /\ ClausesKept'
  BY <1>1 DEF Owned, ClausesKept, boxVars
<1>8. Families'
  BY <1>1, <1>2, <1>3, <1>5 DEF Families
<1>9. Pinned'
  <2> SUFFICES ASSUME NEW g \in Frames' PROVE PinnedFrame(g)'
    BY DEF Pinned
  <2>1. CASE g = f
    BY <1>1, <1>2, <1>5, <2>1 DEF PinnedFrame, boxVars
  <2>2. CASE g \in Frames
    <3>1. g.kind = "fresh" => g.new \in Solvers \ {t}
      BY <1>1, <2>2 DEF Pinned, PinnedFrame
    <3> QED
      BY <1>1, <1>5, <2>2, <3>1 DEF Pinned, PinnedFrame, boxVars
  <2> QED
    BY <1>3, <2>1, <2>2
<1> QED
  BY <1>1, <1>2, <1>6, <1>7, <1>8, <1>9, PushOther, PushOneFresh

LEMMA FreshEndsInv ==
  ASSUME Inv, NEW b \in Boxes, NEW es \in SUBSET Events, FreshEnds(b, es) PROVE Inv'
<1> USE DEF Inv
<1> DEFINE p == prop[Top.solver]
           n == Top.new
<1>1. /\ UNCHANGED <<handles, onClauseBoxes, clauseUser, clone, currentBox>>
      /\ Depth > 0 /\ Pop /\ Top.kind = "fresh" /\ keepers[b] = {}
      /\ keepers' = [keepers EXCEPT ![b] = keepers[Top.box] \cup {b}]
      /\ handlers' = [handlers EXCEPT ![b] = es]
      /\ live' = live \cup {n}
      /\ user' = [user EXCEPT ![n] = b]
      /\ prop' = [prop EXCEPT ![n] = p]
      /\ cutOff' = IF Top.solver \in cutOff THEN cutOff \cup {n} ELSE cutOff
  BY DEF FreshEnds, Made
<1>2. /\ Frames = Frames' \cup {Top} /\ Depth' <= MaxDepth /\ frames' \in Seq(Frame)
      /\ Depth' = Depth - 1 /\ Depth \in Nat /\ Top \in Frame /\ Top \in Frames
      /\ \A i \in 1..(Depth - 1) : frames'[i] = frames[i]
  BY <1>1, PopFacts
<1>3. /\ n \in Solvers /\ prop[n] = NoBox /\ user[n] = NoBox
      /\ Top.solver \notin cutOff => p \in keepers[Top.box]
      /\ Top.box \in Boxes /\ p \in Boxes /\ p # NoBox
      /\ p \in handles
      /\ clone[n] # NoSolver => p = prop[clone[n]]
  BY <1>1, <1>2, NilAssumption DEF Pinned, PinnedFrame, TypeOK, Frame
<1>4. \A g \in Frames' : g.kind = "fresh" => g.new # n
  <2> SUFFICES ASSUME NEW i \in 1..(Depth - 1), frames[i].kind = "fresh"
               PROVE  frames[i].new # n
    BY <1>2 DEF Frames
  <2>1. i # Depth /\ i \in 1..Depth /\ Depth \in 1..Depth /\ frames[Depth].kind = "fresh"
    BY <1>1, <1>2 DEF Top
  <2>2. frames[i].new # frames[Depth].new
    BY <2>1 DEF OneFresh
  <2> QED
    BY <2>2 DEF Top
<1> HIDE DEF p, n
<1>5. TypeOK'
  BY <1>1, <1>2, <1>3, NilAssumption DEF TypeOK
<1>6. Owned' /\ ClausesKept'
  BY <1>1, <1>3 DEF Owned, ClausesKept, TypeOK
<1>7. Families'
  <2> SUFFICES ASSUME NEW s \in Solvers, clone[s] # NoSolver
               PROVE  /\ prop'[s] # NoBox => prop'[s] = prop'[clone[s]]
                      /\ prop'[s] = NoBox => \E f \in Frames' : f.kind = "fresh" /\ f.new = s
    BY <1>1 DEF Families
  <2>1. CASE s = n
    BY <1>1, <1>3, <2>1 DEF TypeOK
  <2>2. CASE s # n /\ prop[s] # NoBox
    BY <1>1, <1>3, <2>2 DEF TypeOK, Families
  <2>3. CASE s # n /\ prop[s] = NoBox
    <3>1. PICK f \in Frames : f.kind = "fresh" /\ f.new = s
      BY <2>3 DEF Families
    <3>2. f \in Frames'
      BY <1>2, <2>3, <3>1 DEF n
    <3> QED
      BY <1>1, <1>3, <2>3, <3>1, <3>2 DEF TypeOK
  <2> QED
    BY <2>1, <2>2, <2>3
<1>8. Pinned'
  <2> SUFFICES ASSUME NEW g \in Frames' PROVE PinnedFrame(g)'
    BY DEF Pinned
  <2>1. /\ g \in Frames /\ g \in Frame /\ PinnedFrame(g)
        /\ g.kind \in {"handler", "fresh"} => g.box \in Boxes
    BY <1>2, FramesTyped DEF Pinned, TypeOK, Frame
  <2>2. prop'[g.solver] # NoBox => prop'[g.solver] \in handles'
    BY <1>1, <1>3, <2>1 DEF PinnedFrame, TypeOK, Frame
  <2>3. g.kind \in {"handler", "fresh"} => /\ prop[g.solver] # NoBox
                                           /\ prop'[g.solver] = prop[g.solver]
                                           /\ g.solver \notin cutOff' =>
                                                 prop'[g.solver] \in keepers'[g.box]
    BY <1>1, <1>3, <2>1, NilAssumption DEF PinnedFrame, TypeOK, Frame
  <2>4. g.kind = "fresh" => /\ g.new \in Solvers /\ prop'[g.new] = NoBox
                            /\ clone[g.new] # NoSolver => prop'[g.solver] = prop'[clone[g.new]]
    BY <1>1, <1>3, <1>4, <2>1, <2>3 DEF PinnedFrame, TypeOK, Frame
  <2> QED
    BY <1>1, <2>1, <2>2, <2>3, <2>4 DEF PinnedFrame
<1> QED
  BY <1>1, <1>5, <1>6, <1>7, <1>8, PopOther, PopOneFresh

-----------------------------------------------------------------------------
LEMMA InitInv == Init => Inv
<1> SUFFICES ASSUME Init PROVE Inv
  OBVIOUS
<1>1. Depth = 0 /\ Frames = {} /\ frames \in Seq(Frame)
  BY DEF Init, Depth, Frames
<1>2. TypeOK
  BY <1>1, DepthAssumption DEF Init, TypeOK
<1> QED
  BY <1>1, <1>2
     DEF Init, Inv, Owned, Pinned, ClausesKept, Families, OneFresh, Chain, Running, Last

LEMMA StepInv == Inv /\ [Next]_vars => Inv'
<1> SUFFICES ASSUME Inv, [Next]_vars PROVE Inv'
  OBVIOUS
<1>1. CASE UNCHANGED vars
  <2>1. UNCHANGED <<boxVars, solverVars, stackVars>>
    BY <1>1 DEF vars
  <2>2. TypeOK'
    BY <2>1, StackSame DEF Inv, TypeOK, boxVars, solverVars, stackVars
  <2>3. Owned' /\ Pinned' /\ ClausesKept' /\ Families'
    BY <2>1, StackSame
       DEF Inv, Owned, Pinned, PinnedFrame, ClausesKept, Families, boxVars, solverVars
  <2> QED
    BY <2>1, <2>2, <2>3, StackSame DEF Inv
<1>2. CASE Z3Step
  BY <1>2, CheckEndInv, HandlerEndsInv, ClauseEndsInv, CallbackInv, ClauseCallbackInv,
     FreshBeginInv, FreshEndsInv DEF Z3Step
<1>3. CASE UserStep
  BY <1>3, NewSolverInv, DropSolverInv, CheckBeginInv, NewPropagatorInv,
     RegisterOnClauseInv, DropPropagatorInv, ClearSubBoxesInv DEF UserStep
<1> QED
  BY <1>1, <1>2, <1>3 DEF Next

-----------------------------------------------------------------------------
(* The theorems.                                                           *)

THEOREM Safety == Spec => []Inv
BY InitInv, StepInv, PTL DEF Spec

\* The boxes, the user pointers and the stack of callbacks stay what they are meant
\* to be; a frame has a box exactly when it is a callback.
THEOREM TypeCorrect == Spec => []TypeOK
<1>1. Inv => TypeOK
  BY DEF Inv
<1> QED
  BY <1>1, Safety, PTL

\* While checks and clones are on the stack, a user pointer that Z3 may use is the
\* address of a box that lives, however deep the callbacks nest: of a clause box
\* always, and of a propagator's unless clearSubBoxes has cut its solver off.
THEOREM NoDanglingBox == Spec => []CallbacksLand
<1>1. Inv => CallbacksLand
  <2> SUFFICES ASSUME Inv, NEW f \in Frames
               PROVE  /\ f.box # NoBox /\ (f.kind = "clause" \/ f.solver \notin cutOff)
                            => Alive(f.box)
                      /\ f.kind = "check" =>
                            \A s \in live : s = f.solver \/ clone[s] = f.solver =>
                               /\ clauseUser[s] # NoBox => Alive(clauseUser[s])
                               /\ user[s] # NoBox /\ s \notin cutOff => Alive(user[s])
    BY DEF CallbacksLand
  <2> USE DEF Inv, Alive, Roots
  <2>1. f \in Frame /\ PinnedFrame(f)
    BY FramesTyped DEF Pinned
  <2>2. ASSUME f.box # NoBox, f.kind = "clause" \/ f.solver \notin cutOff PROVE Alive(f.box)
    <3>1. f.kind \in {"handler", "fresh", "clause"} /\ f.box \in Boxes
      BY <2>1, <2>2 DEF Frame, TypeOK
    <3>2. CASE f.kind = "clause"
      BY <2>1, <3>1, <3>2 DEF PinnedFrame, ClausesKept
    <3>3. CASE f.kind # "clause"
      BY <2>1, <2>2, <3>1, <3>3, NilAssumption DEF PinnedFrame, TypeOK
    <3> QED
      BY <3>2, <3>3
  <2>3. ASSUME f.kind = "check", NEW s \in live, s = f.solver \/ clone[s] = f.solver
        PROVE  /\ clauseUser[s] # NoBox => Alive(clauseUser[s])
               /\ user[s] # NoBox /\ s \notin cutOff => Alive(user[s])
    <3>1. s \in Solvers /\ f.solver \in Solvers
      BY <2>1 DEF TypeOK, Frame
    <3>2. clauseUser[s] # NoBox => Alive(clauseUser[s])
      BY <3>1 DEF ClausesKept
    <3>3. ASSUME user[s] # NoBox, s \notin cutOff PROVE Alive(user[s])
      <4>1. prop[s] # NoBox /\ prop[s] = prop[f.solver]
        BY <2>3, <3>1, <3>3, NilAssumption DEF TypeOK, Families
      <4> QED
        BY <2>1, <2>3, <3>1, <3>3, <4>1 DEF PinnedFrame, Owned
    <3> QED
      BY <3>2, <3>3
  <2> QED
    BY <2>2, <2>3
<1> QED
  BY <1>1, Safety, PTL

\* consequence, nextSplit and propagateConflict find the box of the handler that
\* runs, after any number of nested checks.
THEOREM RightContext == Spec => []CurrentBoxIsRunning
<1>1. Inv => CurrentBoxIsRunning
  BY DEF Inv, CurrentBoxIsRunning, Innermost, Running, Last
<1> QED
  BY <1>1, Safety, PTL

\* While its Z3Propagator is kept, a solver cloned from a propagator's solver has a
\* box that lives: clearSubBoxes alone, called after the solver was made, frees it.
THEOREM SubBoxesLive == Spec => []SubBoxesKept
<1>1. Inv => SubBoxesKept
  BY NilAssumption DEF Inv, SubBoxesKept, Alive, Roots, Owned, TypeOK
<1> QED
  BY <1>1, Safety, PTL
=============================================================================
