---------------------- MODULE FixedpointCallbacksProofs ----------------------
(***************************************************************************)
(* Handlers on fixedpoints, for any number of fixedpoints, boxes and       *)
(* events, in debug and release builds: what Z3 calls is what is rooted,   *)
(* the latches are exact, and handlers stay put while a query runs, until  *)
(* a query of the same fixedpoint has ended inside it.                     *)
(***************************************************************************)
EXTENDS FixedpointCallbacks, SequenceTheorems, FiniteSetTheorems, TLAPS

-----------------------------------------------------------------------------
(* The inductive invariant.                                                *)

\* A fixedpoint that does not exist has nothing.
DeadBare == \A fp \in Fixedpoints \ live :
    /\ cbBox[fp] = NoBox /\ registered[fp] = <<>> /\ ~OnStack(fp)
    /\ fp \notin reduce /\ fp \notin inQuery

\* Whatever box was registered for a fixedpoint is the one it roots, which no other
\* fixedpoint does.
Rooted == \A fp \in Fixedpoints : \A i \in DOMAIN registered[fp] :
    registered[fp][i].state \in Boxes => registered[fp][i].state = cbBox[fp]
BoxesApart == \A fp, gp \in Fixedpoints :
    cbBox[fp] = cbBox[gp] /\ cbBox[fp] # NoBox => fp = gp

\* A box is registered once, for all events, if it is activated, and else not.
Latched == \A fp \in Fixedpoints : cbBox[fp] # NoBox =>
    /\ cbBox[fp] \in exportActivated =>
          \E k \in DOMAIN registered[fp] :
             /\ registered[fp][k].state = cbBox[fp] /\ registered[fp][k].events = Events
             /\ \A i \in DOMAIN registered[fp] : registered[fp][i].state = cbBox[fp] => i = k
    /\ cbBox[fp] \notin exportActivated =>
          \A i \in DOMAIN registered[fp] : registered[fp][i].state # cbBox[fp]

\* A query that began under Spacer with handlers has them activated.
QueryFrames == \A f \in Frames : f.kind = "query" =>
    /\ engine[f.fp] # "none"
    /\ f.gate /\ f.on # {} /\ engine[f.fp] = "spacer" =>
          cbBox[f.fp] # NoBox /\ cbBox[f.fp] \in exportActivated

\* A query resets the flag of a cancelled one, and only a query inside it on the
\* same fixedpoint may set it again before it ends.
Uncanceled == \A fp \in Fixedpoints :
    OnStack(fp) /\ fp \notin nested => fp \notin lastQueryCanceled

RawMarked == ~release => reduce \subseteq rawCbUsed

Inv == /\ TypeOK /\ DeadBare /\ Rooted /\ BoxesApart /\ Latched /\ QueryFrames /\ Uncanceled
       /\ RawMarked /\ SurfacesApart /\ InQueryExact /\ CanceledExact

-----------------------------------------------------------------------------
(* The stack.                                                              *)

LEMMA PushFacts ==
  ASSUME TypeOK, NEW f \in Frame, Push(f)
  PROVE  /\ Depth' = Depth + 1 /\ Depth \in Nat /\ frames' \in Seq(Frame) /\ Depth' <= MaxDepth
         /\ \A i \in 1..Depth : frames'[i] = frames[i]
         /\ frames'[Depth + 1] = f
         /\ Frames' = Frames \cup {f}
<1>1. /\ Depth' = Depth + 1 /\ Depth \in Nat /\ frames' \in Seq(Frame) /\ Depth' <= MaxDepth
      /\ \A i \in 1..Depth : frames'[i] = frames[i]
      /\ frames'[Depth + 1] = f
  BY DepthAssumption DEF Push, Depth, TypeOK
<1>2. Frames' = Frames \cup {f}
  BY <1>1 DEF Frames
<1> QED
  BY <1>1, <1>2

LEMMA PopFacts ==
  ASSUME TypeOK, Depth > 0, Pop
  PROVE  /\ Depth' = Depth - 1 /\ Depth \in Nat /\ frames' \in Seq(Frame) /\ Depth' <= MaxDepth
         /\ \A i \in 1..(Depth - 1) : frames'[i] = frames[i]
         /\ Frames = Frames' \cup {Top}
         /\ Top \in Frame /\ Top \in Frames
<1>1. Depth \in Nat /\ Top \in Frame /\ frames \in Seq(Frame) /\ Depth <= MaxDepth
  BY DEF Depth, TypeOK, Top
<1>2. /\ frames' \in Seq(Frame) /\ Depth' = Depth - 1
      /\ \A i \in 1..(Depth - 1) : frames'[i] = frames[i]
  <2>1. \A i \in 1..(Depth - 1) : frames[i] \in Frame
    BY <1>1 DEF Depth
  <2>2. Depth - 1 \in Int /\ 1 \in Int
    BY <1>1
  <2>3. /\ SubSeq(frames, 1, Depth - 1) \in Seq(Frame)
        /\ Len(SubSeq(frames, 1, Depth - 1)) = Depth - 1
        /\ \A i \in 1..(Depth - 1) : SubSeq(frames, 1, Depth - 1)[i] = frames[i]
    BY <1>1, <2>1, <2>2, SubSeqProperties
  <2> QED
    BY <2>3 DEF Pop, Depth
<1>3. Depth' <= MaxDepth
  BY <1>1, <1>2, DepthAssumption
<1>4. Frames = Frames' \cup {Top}
  <2>1. Frames' = {frames[i] : i \in 1..(Depth - 1)}
    BY <1>1, <1>2 DEF Frames
  <2>2. 1..Depth = (1..(Depth - 1)) \cup {Depth}
    BY <1>1
  <2> QED
    BY <2>1, <2>2 DEF Frames, Top
<1>5. Top \in Frames
  BY <1>1 DEF Frames, Top
<1> QED
  BY <1>1, <1>2, <1>3, <1>4, <1>5

LEMMA FramesTyped == TypeOK => Frames \subseteq Frame
BY DEF TypeOK, Frames, Depth

\* What is said of a state depends on the stack through Frames alone.
LEMMA StackSame ==
  ASSUME Inv, frames' = frames
  PROVE  /\ Frames' = Frames /\ Depth' = Depth
         /\ frames' \in Seq(Frame) /\ Depth' <= MaxDepth
         /\ \A fp : OnStack(fp)' <=> OnStack(fp)
BY DEF Inv, TypeOK, Depth, Frames, OnStack

-----------------------------------------------------------------------------
(* The program's calls.                                                    *)

LEMMA NewFixedpointInv == ASSUME Inv, NEW fp \in Fixedpoints, NewFixedpoint(fp) PROVE Inv'
<1> USE DEF Inv
<1>1. UNCHANGED <<release, boxVars, flagVars, z3Vars, stackVars>> /\ live' = live \cup {fp}
  BY DEF NewFixedpoint
<1>2. frames' = frames
  BY <1>1 DEF stackVars
<1>3. TypeOK'
  BY <1>1, <1>2, StackSame DEF TypeOK, boxVars, flagVars, z3Vars, stackVars
<1>4. /\ DeadBare' /\ Rooted' /\ BoxesApart' /\ Latched' /\ QueryFrames'
      /\ RawMarked' /\ SurfacesApart' /\ Uncanceled' /\ InQueryExact' /\ CanceledExact'
  BY ZenonT(40), <1>1, <1>2, StackSame
     DEF DeadBare, Rooted, BoxesApart, Latched, QueryFrames, RawMarked, SurfacesApart, Uncanceled,
         InQueryExact, CanceledExact, boxVars, flagVars, z3Vars, stackVars
<1> QED
  BY <1>2, <1>3, <1>4, StackSame

LEMMA DestroyInv == ASSUME Inv, NEW fp \in Fixedpoints, Destroy(fp) PROVE Inv'
<1> USE DEF Inv
<1>1. /\ fp \in live /\ ~OnStack(fp) /\ live' = live \ {fp}
      /\ cbBox' = [cbBox EXCEPT ![fp] = NoBox]
      /\ handlers' = [b \in Boxes |-> IF b = cbBox[fp] THEN {} ELSE handlers[b]]
      /\ exportActivated' = exportActivated \ {cbBox[fp]}
      /\ rawCbUsed' = rawCbUsed \ {fp} /\ inQuery' = inQuery \ {fp}
      /\ lastQueryCanceled' = lastQueryCanceled \ {fp}
      /\ engine' = [engine EXCEPT ![fp] = "none"] /\ slot' = [slot EXCEPT ![fp] = NoBox]
      /\ reduce' = reduce \ {fp} /\ registered' = [registered EXCEPT ![fp] = <<>>]
      /\ outcome' = [outcome EXCEPT ![fp] = "none"] /\ nested' = nested \ {fp}
      /\ release' = release /\ frames' = frames
  BY DEF Destroy
<1>2. TypeOK'
  <2>1. exportActivated' \subseteq {cbBox'[gp] : gp \in Fixedpoints} \ {NoBox}
    BY <1>1 DEF TypeOK
  <2>2. registered' \in [Fixedpoints -> Seq(Registration)]
    BY <1>1 DEF TypeOK
  <2> QED
    BY <1>1, <2>1, <2>2, StackSame DEF TypeOK
<1>3. DeadBare' /\ Rooted' /\ BoxesApart'
  BY <1>1, StackSame DEF DeadBare, Rooted, BoxesApart, TypeOK
<1>4. Latched'
  <2>1. ASSUME NEW gp \in Fixedpoints, cbBox'[gp] # NoBox
        PROVE  /\ cbBox'[gp] = cbBox[gp] /\ registered'[gp] = registered[gp]
               /\ cbBox[gp] \in exportActivated' <=> cbBox[gp] \in exportActivated
    BY <1>1, <2>1 DEF BoxesApart, TypeOK
  <2> QED
    BY <2>1 DEF Latched
<1>5. QueryFrames'
  <2> SUFFICES ASSUME NEW f \in Frames, f.kind = "query"
               PROVE  /\ engine'[f.fp] # "none"
                      /\ f.gate /\ f.on # {} /\ engine'[f.fp] = "spacer"
                         => cbBox'[f.fp] # NoBox /\ cbBox'[f.fp] \in exportActivated'
    BY <1>1, StackSame DEF QueryFrames
  <2>1. f.fp \in Fixedpoints /\ f.fp # fp
    BY <1>1, FramesTyped DEF Frame, OnStack
  <2> QED
    BY <1>1, <2>1 DEF QueryFrames, BoxesApart, TypeOK
<1>6. RawMarked' /\ SurfacesApart' /\ Uncanceled' /\ InQueryExact' /\ CanceledExact'
  BY <1>1, StackSame DEF RawMarked, SurfacesApart, Uncanceled, InQueryExact, CanceledExact, TypeOK
<1> QED
  BY <1>1, <1>2, <1>3, <1>4, <1>5, <1>6, StackSame

\* A new box for a fixedpoint: no fixedpoint has it, and nothing is registered on it.
LEMMA SetHandlersInv ==
  ASSUME Inv, NEW fp \in Fixedpoints, NEW hs \in SUBSET Events, SetHandlers(fp, hs) PROVE Inv'
<1> USE DEF Inv
<1>1. /\ UNCHANGED <<release, live, exportActivated, rawCbUsed, inQuery, lastQueryCanceled>>
      /\ UNCHANGED <<engine, reduce, registered, frames, outcome, nested>>
      /\ fp \in live /\ (~release => fp \notin rawCbUsed)
  BY DEF SetHandlers, MayInstall, MayChange, flagVars, stackVars
<1>2. CASE cbBox[fp] = NoBox
  <2>1. PICK b \in Unused :
          /\ cbBox' = [cbBox EXCEPT ![fp] = b]
          /\ handlers' = [handlers EXCEPT ![b] = hs]
          /\ slot' \in {slot, [slot EXCEPT ![fp] = b]}
    BY <1>2 DEF SetHandlers
  <2>2. /\ b \in Boxes /\ b # NoBox /\ \A gp \in Fixedpoints : cbBox[gp] # b
        /\ b \notin exportActivated
    BY NilAssumption DEF Unused, TypeOK
  <2>3. TypeOK'
    <3>1. exportActivated' \subseteq {cbBox'[gp] : gp \in Fixedpoints} \ {NoBox}
      BY <1>1, <1>2, <2>1 DEF TypeOK
    <3> QED
      BY ZenonT(40), <1>1, <2>1, <2>2, <3>1, StackSame DEF TypeOK
  <2>4. DeadBare' /\ Rooted' /\ BoxesApart'
    BY <1>1, <1>2, <2>1, <2>2, NilAssumption, StackSame DEF DeadBare, Rooted, BoxesApart, TypeOK
  <2>5. Latched'
    <3>1. \A i \in DOMAIN registered[fp] : registered[fp][i].state # b
      BY <1>2, <2>2 DEF Rooted
    <3> QED
      BY <1>1, <2>1, <2>2, <3>1 DEF Latched, TypeOK
  <2>6. QueryFrames'
    BY <1>1, <1>2, <2>1, <2>2, StackSame, FramesTyped DEF QueryFrames, Frame, TypeOK
  <2>7. RawMarked' /\ SurfacesApart' /\ Uncanceled' /\ InQueryExact' /\ CanceledExact'
    BY <1>1, <2>1, StackSame DEF RawMarked, SurfacesApart, Uncanceled, InQueryExact, CanceledExact, TypeOK
  <2> QED
    BY <1>1, <2>3, <2>4, <2>5, <2>6, <2>7, StackSame
<1>3. CASE cbBox[fp] # NoBox
  <2>1. /\ handlers' = [handlers EXCEPT ![cbBox[fp]] = hs] /\ UNCHANGED <<cbBox, slot>>
        /\ cbBox[fp] \in Boxes
    BY <1>3 DEF SetHandlers, TypeOK
  <2>2. TypeOK'
    BY <1>1, <2>1, StackSame DEF TypeOK
  <2>3. DeadBare' /\ Rooted' /\ BoxesApart' /\ Latched' /\ QueryFrames'
    BY <1>1, <2>1, StackSame DEF DeadBare, Rooted, BoxesApart, Latched, QueryFrames
  <2>4. RawMarked' /\ SurfacesApart' /\ Uncanceled' /\ InQueryExact' /\ CanceledExact'
    BY <1>1, <2>1, StackSame DEF RawMarked, SurfacesApart, Uncanceled, InQueryExact, CanceledExact
  <2> QED
    BY <1>1, <2>2, <2>3, <2>4, StackSame
<1> QED
  BY <1>2, <1>3

LEMMA ClearHandlersInv == ASSUME Inv, NEW fp \in Fixedpoints, ClearHandlers(fp) PROVE Inv'
<1> USE DEF Inv
<1>1. /\ UNCHANGED <<release, live, cbBox, exportActivated, flagVars, z3Vars, stackVars>>
      /\ handlers' = [handlers EXCEPT ![cbBox[fp]] = {}] /\ frames' = frames
  BY DEF ClearHandlers, stackVars
<1>2. TypeOK'
  BY <1>1, StackSame DEF TypeOK, flagVars, z3Vars, stackVars
<1>3. /\ DeadBare' /\ Rooted' /\ BoxesApart' /\ Latched' /\ QueryFrames'
      /\ RawMarked' /\ SurfacesApart' /\ Uncanceled' /\ InQueryExact' /\ CanceledExact'
  BY ZenonT(40), <1>1, StackSame
     DEF DeadBare, Rooted, BoxesApart, Latched, QueryFrames, RawMarked, SurfacesApart, Uncanceled,
         InQueryExact, CanceledExact, flagVars, z3Vars, stackVars
<1> QED
  BY <1>1, <1>2, <1>3, StackSame

LEMMA RawInitInv ==
  ASSUME Inv, NEW fp \in Fixedpoints, NEW cb \in BOOLEAN, RawInit(fp, cb) PROVE Inv'
<1> USE DEF Inv
<1>1. /\ UNCHANGED <<release, live, boxVars, inQuery, lastQueryCanceled, engine, registered>>
      /\ UNCHANGED <<frames, outcome, nested>> /\ fp \in live
      /\ slot' = [slot EXCEPT ![fp] = UserState]
      /\ reduce' \in {reduce, reduce \cup {fp}}
      /\ rawCbUsed' = IF release THEN rawCbUsed ELSE rawCbUsed \cup {fp}
  BY DEF RawInit, RawSurfaceOk, stackVars
<1>2. TypeOK'
  BY <1>1, StackSame DEF TypeOK, boxVars
<1>3. DeadBare' /\ Rooted' /\ BoxesApart' /\ Latched' /\ QueryFrames'
  BY <1>1, StackSame DEF DeadBare, Rooted, BoxesApart, Latched, QueryFrames, boxVars
<1>4. RawMarked' /\ SurfacesApart'
  BY <1>1 DEF RawMarked, SurfacesApart, TypeOK
<1>5. Uncanceled' /\ InQueryExact' /\ CanceledExact'
  BY <1>1, StackSame DEF Uncanceled, InQueryExact, CanceledExact
<1> QED
  BY <1>1, <1>2, <1>3, <1>4, <1>5, StackSame

\* A registration goes after those there are.
LEMMA Appended ==
  ASSUME NEW q \in Seq(Registration), NEW r \in Registration
  PROVE  /\ Append(q, r) \in Seq(Registration)
         /\ DOMAIN Append(q, r) = DOMAIN q \cup {Len(q) + 1}
         /\ Len(q) + 1 \notin DOMAIN q
         /\ Append(q, r)[Len(q) + 1] = r
         /\ \A i \in DOMAIN q : Append(q, r)[i] = q[i]
OBVIOUS

LEMMA RawAddCallbackInv == ASSUME Inv, NEW fp \in Fixedpoints, RawAddCallback(fp) PROVE Inv'
<1> USE DEF Inv
<1> DEFINE r == [state |-> UserState, events |-> Events]
<1>1. /\ UNCHANGED <<release, live, boxVars, inQuery, lastQueryCanceled, slot, reduce>>
      /\ UNCHANGED <<frames, outcome, nested>> /\ fp \in live
      /\ rawCbUsed' = IF release THEN rawCbUsed ELSE rawCbUsed \cup {fp}
  BY DEF RawAddCallback, RawSurfaceOk, stackVars
<1>2. PICK g \in {"spacer", "other"} :
        /\ engine[fp] # "none" => g = engine[fp]
        /\ engine' = [engine EXCEPT ![fp] = g]
        /\ registered' = IF g = "spacer" THEN [registered EXCEPT ![fp] = Append(@, r)]
                         ELSE registered
  BY DEF RawAddCallback, Engines, TypeOK
<1>3. r \in Registration /\ registered[fp] \in Seq(Registration) /\ r.state \notin Boxes \cup {NoBox}
  BY NilAssumption DEF Registration, TypeOK
<1> HIDE DEF r
<1>4. TypeOK'
  BY <1>1, <1>2, <1>3, Appended, StackSame DEF TypeOK, boxVars
<1>5. DeadBare' /\ BoxesApart'
  BY <1>1, <1>2, StackSame DEF DeadBare, BoxesApart, TypeOK, boxVars
<1>6. Rooted' /\ Latched'
  <2>1. CASE registered' = registered
    BY <1>1, <2>1 DEF Rooted, Latched, boxVars
  <2>2. CASE registered' = [registered EXCEPT ![fp] = Append(@, r)]
    <3>1. /\ registered'[fp] = Append(registered[fp], r)
          /\ \A gp \in Fixedpoints : gp # fp => registered'[gp] = registered[gp]
      BY <2>2 DEF TypeOK
    <3>2. Rooted'
      BY <1>1, <1>3, <3>1, Appended DEF Rooted, boxVars
    <3>3. ASSUME NEW gp \in Fixedpoints, cbBox[gp] # NoBox
          PROVE  /\ cbBox[gp] \in exportActivated =>
                      \E k \in DOMAIN registered'[gp] :
                         /\ registered'[gp][k].state = cbBox[gp] /\ registered'[gp][k].events = Events
                         /\ \A i \in DOMAIN registered'[gp] :
                               registered'[gp][i].state = cbBox[gp] => i = k
                 /\ cbBox[gp] \notin exportActivated =>
                      \A i \in DOMAIN registered'[gp] : registered'[gp][i].state # cbBox[gp]
      <4>1. CASE gp # fp
        BY <3>1, <3>3, <4>1 DEF Latched
      <4>2. CASE gp = fp
        <5>1. r.state # cbBox[fp]
          BY <1>3 DEF TypeOK
        <5>2. /\ DOMAIN registered'[fp] = DOMAIN registered[fp] \cup {Len(registered[fp]) + 1}
              /\ registered'[fp][Len(registered[fp]) + 1] = r
              /\ \A i \in DOMAIN registered[fp] : registered'[fp][i] = registered[fp][i]
          BY <1>3, <3>1, Appended
        <5>3. ASSUME cbBox[fp] \in exportActivated
              PROVE  \E k \in DOMAIN registered'[fp] :
                        /\ registered'[fp][k].state = cbBox[fp] /\ registered'[fp][k].events = Events
                        /\ \A i \in DOMAIN registered'[fp] :
                              registered'[fp][i].state = cbBox[fp] => i = k
          <6>1. PICK k \in DOMAIN registered[fp] :
                  /\ registered[fp][k].state = cbBox[fp] /\ registered[fp][k].events = Events
                  /\ \A i \in DOMAIN registered[fp] : registered[fp][i].state = cbBox[fp] => i = k
            BY <3>3, <4>2, <5>3 DEF Latched
          <6> QED
            BY <5>1, <5>2, <6>1
        <5>4. ASSUME cbBox[fp] \notin exportActivated
              PROVE  \A i \in DOMAIN registered'[fp] : registered'[fp][i].state # cbBox[fp]
          BY <3>3, <4>2, <5>1, <5>2, <5>4 DEF Latched
        <5> QED
          BY <4>2, <5>3, <5>4
      <4> QED
        BY <4>1, <4>2
    <3> QED
      BY <1>1, <3>2, <3>3 DEF Latched, boxVars
  <2> QED
    BY <1>2, <2>1, <2>2
<1>7. QueryFrames'
  <2>1. \A f \in Frames : f.kind = "query" => f.fp \in Fixedpoints /\ engine'[f.fp] = engine[f.fp]
    BY <1>2, FramesTyped DEF QueryFrames, Frame, TypeOK
  <2> QED
    BY <1>1, <1>2, <2>1, StackSame DEF QueryFrames, TypeOK, boxVars
<1>8. RawMarked' /\ SurfacesApart' /\ Uncanceled' /\ InQueryExact' /\ CanceledExact'
  BY <1>1, StackSame DEF RawMarked, SurfacesApart, Uncanceled, InQueryExact, CanceledExact
<1> QED
  BY <1>1, <1>4, <1>5, <1>6, <1>7, <1>8, StackSame

-----------------------------------------------------------------------------
(* Queries.                                                                *)

\* What activateExportCallbacks leaves: registrations of other fixedpoints alone,
\* and of this one at most the box's, once and with every event.
LEMMA ActivateInv ==
  ASSUME Inv, NEW fp \in Fixedpoints, NEW g, NEW ok \in BOOLEAN, Activate(fp, g, ok),
         cbBox' = cbBox
  PROVE  /\ registered' \in [Fixedpoints -> Seq(Registration)]
         /\ \A gp \in Fixedpoints : gp # fp => registered'[gp] = registered[gp]
         /\ exportActivated \subseteq exportActivated'
         /\ exportActivated' \subseteq {cbBox[gp] : gp \in Fixedpoints} \ {NoBox}
         /\ ok /\ g = "spacer" /\ Installed(fp) # {} =>
               cbBox[fp] # NoBox /\ cbBox[fp] \in exportActivated'
         /\ Rooted' /\ Latched'
<1> USE DEF Inv
<1> DEFINE r == [state |-> cbBox[fp], events |-> Events]
           p == Pending(fp) /\ ok /\ g = "spacer"
<1>1. /\ exportActivated' = IF p THEN exportActivated \cup {cbBox[fp]} ELSE exportActivated
      /\ registered' = IF p THEN [registered EXCEPT ![fp] = Append(@, r)] ELSE registered
  BY DEF Activate, Shims
<1>2. CASE ~p
  BY <1>1, <1>2 DEF Pending, Installed, TypeOK, Rooted, Latched
<1>3. CASE p
  <2>1. /\ cbBox[fp] \in Boxes /\ cbBox[fp] # NoBox /\ cbBox[fp] \notin exportActivated
        /\ r \in Registration /\ r.state = cbBox[fp] /\ r.events = Events
        /\ registered[fp] \in Seq(Registration)
    BY <1>3, NilAssumption DEF Pending, Installed, TypeOK, Registration
  <2>2. /\ exportActivated' = exportActivated \cup {cbBox[fp]}
        /\ registered' = [registered EXCEPT ![fp] = Append(@, r)]
    BY <1>1, <1>3
  <2> HIDE DEF r, p
  <2>3. /\ registered' \in [Fixedpoints -> Seq(Registration)]
        /\ registered'[fp] = Append(registered[fp], r)
        /\ \A gp \in Fixedpoints : gp # fp => registered'[gp] = registered[gp]
    BY <2>1, <2>2, Appended DEF TypeOK
  <2>4. exportActivated' \subseteq {cbBox[gp] : gp \in Fixedpoints} \ {NoBox}
    BY <2>1, <2>2 DEF TypeOK
  <2>5. Rooted'
    <3>1. ASSUME NEW i \in DOMAIN registered'[fp], registered'[fp][i].state \in Boxes
          PROVE  registered'[fp][i].state = cbBox[fp]
      <4>1. registered'[fp][i] = r \/ (i \in DOMAIN registered[fp] /\ registered'[fp][i] = registered[fp][i])
        BY <2>1, <2>3, Appended
      <4> QED
        BY <2>1, <3>1, <4>1 DEF Rooted
    <3> QED
      BY <2>3, <3>1 DEF Rooted
  <2>6. ASSUME NEW gp \in Fixedpoints, cbBox[gp] # NoBox
        PROVE  /\ cbBox[gp] \in exportActivated' =>
                    \E k \in DOMAIN registered'[gp] :
                       /\ registered'[gp][k].state = cbBox[gp] /\ registered'[gp][k].events = Events
                       /\ \A i \in DOMAIN registered'[gp] :
                             registered'[gp][i].state = cbBox[gp] => i = k
               /\ cbBox[gp] \notin exportActivated' =>
                    \A i \in DOMAIN registered'[gp] : registered'[gp][i].state # cbBox[gp]
    <3>1. CASE gp # fp
      <4>1. cbBox[gp] # cbBox[fp]
        BY <2>6, <3>1 DEF BoxesApart
      <4>2. (cbBox[gp] \in exportActivated') <=> (cbBox[gp] \in exportActivated)
        BY <2>2, <4>1
      <4> QED
        BY <2>3, <2>6, <3>1, <4>2 DEF Latched
    <3>2. CASE gp = fp
      <4> DEFINE k == Len(registered[fp]) + 1
      <4>1. /\ k \in DOMAIN registered'[fp] /\ registered'[fp][k] = r
            /\ \A i \in DOMAIN registered'[fp] : i # k =>
                  i \in DOMAIN registered[fp] /\ registered'[fp][i] = registered[fp][i]
        BY <2>1, <2>3, Appended
      <4>2. \A i \in DOMAIN registered[fp] : registered[fp][i].state # cbBox[fp]
        BY <2>1 DEF Latched
      <4> QED
        BY <2>1, <2>2, <3>2, <4>1, <4>2
    <3> QED
      BY <3>1, <3>2
  <2>7. Latched'
    BY <2>6 DEF Latched
  <2> QED
    BY <2>1, <2>2, <2>3, <2>4, <2>5, <2>7
<1> QED
  BY <1>2, <1>3

LEMMA QueryBeginsInv ==
  ASSUME Inv, NEW fp \in Fixedpoints, NEW g \in {"spacer", "other"}, NEW ok \in BOOLEAN,
         QueryBegins(fp, g, ok)
  PROVE  Inv'
<1> USE DEF Inv
<1> DEFINE f == QueryFrame(fp, Installed(fp), ok)
<1>1. /\ UNCHANGED <<release, live, cbBox, handlers, rawCbUsed, slot, reduce>>
      /\ fp \in live /\ g \in Engines(fp) /\ Push(f)
      /\ Activate(fp, g, ok)
      /\ engine' = [engine EXCEPT ![fp] = g]
      /\ inQuery' = IF release THEN inQuery ELSE inQuery \cup {fp}
      /\ lastQueryCanceled' = lastQueryCanceled \ {fp}
      /\ outcome' = [outcome EXCEPT ![fp] = "none"]
      /\ nested' = IF OnStack(fp) THEN nested ELSE nested \ {fp}
  BY DEF QueryBegins
<1>2. /\ f \in Frame /\ f.kind = "query" /\ f.fp = fp /\ f.on = Installed(fp) /\ f.gate = ok
  BY DEF QueryFrame, Frame, Installed, TypeOK
<1> HIDE DEF f
<1>3. /\ Frames' = Frames \cup {f} /\ Depth' <= MaxDepth /\ frames' \in Seq(Frame)
      /\ Depth' = Depth + 1 /\ Depth \in Nat /\ frames'[Depth + 1] = f
      /\ \A i \in 1..Depth : frames'[i] = frames[i]
  BY <1>1, <1>2, PushFacts
<1>4. \A gp \in Fixedpoints : OnStack(gp)' <=> (OnStack(gp) \/ gp = fp)
  BY <1>2, <1>3 DEF OnStack
<1>5. /\ registered' \in [Fixedpoints -> Seq(Registration)]
      /\ \A gp \in Fixedpoints : gp # fp => registered'[gp] = registered[gp]
      /\ exportActivated \subseteq exportActivated'
      /\ exportActivated' \subseteq {cbBox[gp] : gp \in Fixedpoints} \ {NoBox}
      /\ ok /\ g = "spacer" /\ Installed(fp) # {} =>
            cbBox[fp] # NoBox /\ cbBox[fp] \in exportActivated'
      /\ Rooted' /\ Latched'
  BY <1>1, ActivateInv
<1>6. TypeOK'
  BY ZenonT(40), <1>1, <1>3, <1>5 DEF TypeOK
<1>7. DeadBare' /\ BoxesApart'
  BY <1>1, <1>4, <1>5 DEF DeadBare, BoxesApart, TypeOK
<1>8. QueryFrames'
  <2> SUFFICES ASSUME NEW h \in Frames \cup {f}, h.kind = "query"
               PROVE  /\ engine'[h.fp] # "none"
                      /\ h.gate /\ h.on # {} /\ engine'[h.fp] = "spacer"
                         => cbBox'[h.fp] # NoBox /\ cbBox'[h.fp] \in exportActivated'
    BY <1>3 DEF QueryFrames
  <2>1. CASE h = f
    BY <1>1, <1>2, <1>5, <2>1 DEF TypeOK
  <2>2. CASE h \in Frames
    <3>1. h.fp \in Fixedpoints /\ engine'[h.fp] = engine[h.fp]
      BY <1>1, <2>2, FramesTyped DEF QueryFrames, Engines, Frame, TypeOK
    <3> QED
      BY <1>1, <1>5, <2>2, <3>1 DEF QueryFrames, TypeOK
  <2> QED
    BY <2>1, <2>2
<1>9. RawMarked' /\ SurfacesApart'
  BY <1>1 DEF RawMarked, SurfacesApart
<1>10. Uncanceled' /\ InQueryExact' /\ CanceledExact'
  BY <1>1, <1>4 DEF Uncanceled, InQueryExact, CanceledExact, TypeOK
<1> QED
  BY <1>5, <1>6, <1>7, <1>8, <1>9, <1>10

\* A frame of a handler goes on the stack, or off it.
LEMMA HandlerFrames ==
  ASSUME Inv, UNCHANGED <<release, live, boxVars, flagVars, z3Vars, outcome, nested>>,
         Frames \subseteq Frames' \/ Frames' \subseteq Frames,
         \A f \in Frames' \ Frames : f.kind # "query",
         \A f \in Frames \ Frames' : f.kind # "query",
         frames' \in Seq(Frame), Depth' <= MaxDepth
  PROVE  Inv'
<1> USE DEF Inv
<1>1. \A fp : OnStack(fp)' <=> OnStack(fp)
  BY DEF OnStack
<1>2. TypeOK'
  BY DEF TypeOK, boxVars, flagVars, z3Vars
<1>3. DeadBare' /\ Rooted' /\ BoxesApart' /\ Latched'
  BY <1>1 DEF DeadBare, Rooted, BoxesApart, Latched, boxVars, flagVars, z3Vars
<1>4. QueryFrames'
  BY DEF QueryFrames, boxVars, flagVars, z3Vars
<1>5. RawMarked' /\ SurfacesApart' /\ Uncanceled' /\ InQueryExact' /\ CanceledExact'
  BY <1>1 DEF RawMarked, SurfacesApart, Uncanceled, InQueryExact, CanceledExact, flagVars, z3Vars
<1> QED
  BY <1>2, <1>3, <1>4, <1>5

LEMMA FireInv == ASSUME Inv, NEW e \in Events, Fire(e) PROVE Inv'
<1> USE DEF Inv
<1> DEFINE f == HandlerFrame(Top.fp, e)
<1>1. /\ UNCHANGED <<release, live, boxVars, flagVars, z3Vars, outcome, nested>>
      /\ Push(f) /\ Top.fp \in Fixedpoints
  <2>1. Depth > 0 /\ Push(f) /\ UNCHANGED <<release, live, boxVars, flagVars, z3Vars, outcome, nested>>
    BY DEF Fire
  <2>2. Top \in Frame
    BY <2>1 DEF TypeOK, Top, Depth
  <2> QED
    BY <2>1, <2>2 DEF Frame
<1>2. f \in Frame /\ f.kind = "handler"
  BY <1>1 DEF HandlerFrame, Frame
<1> HIDE DEF f
<1>3. /\ Frames' = Frames \cup {f} /\ Depth' <= MaxDepth /\ frames' \in Seq(Frame)
      /\ Depth' = Depth + 1 /\ Depth \in Nat /\ frames'[Depth + 1] = f
      /\ \A i \in 1..Depth : frames'[i] = frames[i]
  BY <1>1, <1>2, PushFacts
<1> QED
  BY <1>1, <1>2, <1>3, HandlerFrames

LEMMA HandlerEndsInv == ASSUME Inv, HandlerEnds PROVE Inv'
<1> USE DEF Inv
<1>1. /\ UNCHANGED <<release, live, boxVars, flagVars, z3Vars, outcome, nested>>
      /\ Depth > 0 /\ Pop /\ Top.kind = "handler"
  BY DEF HandlerEnds
<1>2. /\ Frames = Frames' \cup {Top} /\ Depth' <= MaxDepth /\ frames' \in Seq(Frame)
      /\ Depth' = Depth - 1 /\ Depth \in Nat
      /\ \A i \in 1..(Depth - 1) : frames'[i] = frames[i]
  BY <1>1, PopFacts
<1> QED
  BY <1>1, <1>2, HandlerFrames

LEMMA QueryEndsInv == ASSUME Inv, NEW how \in Outcomes, QueryEnds(how) PROVE Inv'
<1> USE DEF Inv
<1>1. /\ Frames = Frames' \cup {Top} /\ Depth' <= MaxDepth /\ frames' \in Seq(Frame)
      /\ Depth' = Depth - 1 /\ Depth \in Nat /\ Top \in Frame /\ Top \in Frames
      /\ \A i \in 1..(Depth - 1) : frames'[i] = frames[i]
  BY PopFacts DEF QueryEnds
<1>2. PICK fp \in Fixedpoints : fp = Top.fp
  BY <1>1 DEF Frame
<1>3. /\ UNCHANGED <<release, live, boxVars, rawCbUsed, z3Vars>>
      /\ inQuery' = inQuery \ {fp}
      /\ lastQueryCanceled' = IF how = "canceled" THEN lastQueryCanceled \cup {fp}
                              ELSE lastQueryCanceled
      /\ outcome' = [outcome EXCEPT ![fp] = how]
      /\ nested' = IF BelowTop(fp) THEN nested \cup {fp} ELSE nested
      /\ Top.kind = "query"
  BY <1>2 DEF QueryEnds
<1>4. OnStack(fp)
  BY <1>1, <1>2, <1>3 DEF OnStack
\* A query of the same fixedpoint may still be there.
<1>5. /\ \A gp : OnStack(gp)' => OnStack(gp)
      /\ \A gp : OnStack(gp) /\ gp # fp => OnStack(gp)'
      /\ OnStack(fp)' => BelowTop(fp)
  <2>1. Frames' = {frames[i] : i \in 1..(Depth - 1)}
    BY <1>1 DEF Frames
  <2>2. OnStack(fp)' => BelowTop(fp)
    BY <2>1 DEF OnStack, BelowTop
  <2>3. \A gp : OnStack(gp)' => OnStack(gp)
    BY <1>1 DEF OnStack
  <2>4. \A gp : OnStack(gp) /\ gp # fp => OnStack(gp)'
    BY <1>1, <1>2 DEF OnStack
  <2> QED
    BY <2>2, <2>3, <2>4
<1>6. /\ nested \subseteq nested' /\ nested' \subseteq nested \cup {fp}
      /\ OnStack(fp)' => fp \in nested'
  BY <1>3, <1>5
<1>7. TypeOK'
  BY <1>1, <1>3, <1>6 DEF TypeOK, boxVars, z3Vars
<1>8. DeadBare' /\ Rooted' /\ BoxesApart' /\ Latched'
  BY <1>3, <1>5 DEF DeadBare, Rooted, BoxesApart, Latched, boxVars, z3Vars
<1>9. QueryFrames'
  BY <1>1, <1>3 DEF QueryFrames, boxVars, z3Vars
<1>10. RawMarked' /\ SurfacesApart'
  BY <1>3 DEF RawMarked, SurfacesApart, boxVars, z3Vars
<1>11. Uncanceled'
  BY <1>3, <1>5, <1>6 DEF Uncanceled
<1>12. InQueryExact'
  BY <1>3, <1>5, <1>6 DEF InQueryExact
<1>13. CanceledExact'
  BY <1>3, <1>4, <1>5, <1>6 DEF CanceledExact, Uncanceled, TypeOK
<1> QED
  BY <1>7, <1>8, <1>9, <1>10, <1>11, <1>12, <1>13

-----------------------------------------------------------------------------
LEMMA InitInv == Init => Inv
<1> SUFFICES ASSUME Init PROVE Inv
  OBVIOUS
<1>1. Depth = 0 /\ Frames = {} /\ frames \in Seq(Frame)
  BY DEF Init, Depth, Frames
<1>2. TypeOK
  BY <1>1, DepthAssumption DEF Init, TypeOK
<1> QED
  BY <1>1, <1>2
     DEF Init, Inv, DeadBare, Rooted, BoxesApart, Latched, QueryFrames, RawMarked,
         SurfacesApart, Uncanceled, InQueryExact, CanceledExact, OnStack

LEMMA StepInv == Inv /\ [Next]_vars => Inv'
<1> SUFFICES ASSUME Inv, [Next]_vars PROVE Inv'
  OBVIOUS
<1>1. CASE UNCHANGED vars
  <2>1. UNCHANGED <<release, live, boxVars, flagVars, z3Vars, outcome, nested>> /\ frames' = frames
    BY <1>1 DEF vars, stackVars
  <2> QED
    BY <2>1, StackSame, HandlerFrames
<1>2. CASE Next
  BY <1>2, NewFixedpointInv, DestroyInv, ClearHandlersInv, SetHandlersInv, RawAddCallbackInv,
     RawInitInv, QueryBeginsInv, FireInv, HandlerEndsInv, QueryEndsInv DEF Next
<1> QED
  BY <1>1, <1>2

-----------------------------------------------------------------------------
(* The theorems.                                                           *)

THEOREM Safety == Spec => []Inv
BY InitInv, StepInv, PTL DEF Spec

\* Boxes, flags, registrations and the stack stay what they are meant to be; what
\* is latched as activated is a box that a fixedpoint roots.
THEOREM TypeCorrect == Spec => []TypeOK
<1>1. Inv => TypeOK
  BY DEF Inv
<1> QED
  BY <1>1, Safety, PTL

\* In every build, whatever the handlers do, the box that Z3 calls a fixedpoint's
\* shims with is the one that fixedpoint roots.
THEOREM NoDanglingBox == Spec => []CallbacksLand
<1>1. Inv => CallbacksLand
  BY DEF Inv, TypeOK, CallbacksLand, Rooted
<1> QED
  BY <1>1, Safety, PTL

\* The latch is exact: an activated box is registered once, and another one never.
THEOREM LatchIsExact == Spec => []RegisteredOnce
<1>1. Inv => RegisteredOnce
  <2> SUFFICES ASSUME Inv, NEW fp \in live, cbBox[fp] # NoBox
               PROVE  Quantify(DOMAIN registered[fp], LAMBDA i : registered[fp][i].state = cbBox[fp])
                         = IF cbBox[fp] \in exportActivated THEN 1 ELSE 0
    BY DEF RegisteredOnce
  <2> DEFINE own == {i \in DOMAIN registered[fp] : registered[fp][i].state = cbBox[fp]}
  <2>1. Quantify(DOMAIN registered[fp], LAMBDA i : registered[fp][i].state = cbBox[fp])
           = Cardinality(own)
    BY DEF Quantify
  <2>2. CASE cbBox[fp] \in exportActivated
    <3>1. PICK k \in DOMAIN registered[fp] :
            /\ registered[fp][k].state = cbBox[fp]
            /\ \A i \in DOMAIN registered[fp] : registered[fp][i].state = cbBox[fp] => i = k
      BY <2>2 DEF Inv, TypeOK, Latched
    <3>2. own = {k}
      BY <3>1
    <3> QED
      BY <2>1, <2>2, <3>2, FS_Singleton
  <2>3. CASE cbBox[fp] \notin exportActivated
    <3>1. own = {}
      BY <2>3 DEF Inv, TypeOK, Latched
    <3> QED
      BY <2>1, <2>3, <3>1, FS_EmptySet
  <2> QED
    BY <2>2, <2>3
<1> QED
  BY <1>1, Safety, PTL

\* Under Spacer every handler a query begins with has its shim registered, whatever
\* was installed, cleared and queried before.
THEOREM HandlersAreCalled == Spec => []HandlersFire
<1>1. Inv => HandlersFire
  <2> SUFFICES ASSUME Inv, NEW f \in Frames, f.kind = "query", f.gate,
                      engine[f.fp] = "spacer", NEW e \in f.on
               PROVE  \E i \in DOMAIN registered[f.fp] :
                         registered[f.fp][i].state = cbBox[f.fp] /\ e \in registered[f.fp][i].events
    BY DEF HandlersFire
  <2>1. f.fp \in Fixedpoints /\ e \in Events
    BY FramesTyped DEF Inv, Frame
  <2>2. cbBox[f.fp] # NoBox /\ cbBox[f.fp] \in exportActivated
    BY DEF Inv, QueryFrames
  <2> QED
    BY <2>1, <2>2 DEF Inv, Latched
<1> QED
  BY <1>1, Safety, PTL

\* With the asserts compiled in, a raw reduce callback never gets a box for its state.
THEOREM RawStateIsItsOwn == Spec => []SurfacesApart
<1>1. Inv => SurfacesApart
  BY DEF Inv
<1> QED
  BY <1>1, Safety, PTL

\* inQuery is down whenever no query is on the stack, after raises too, and up
\* during a query until one of the same fixedpoint has ended inside it.
THEOREM InQueryIsExact == Spec => []InQueryExact
<1>1. Inv => InQueryExact
  BY DEF Inv
<1> QED
  BY <1>1, Safety, PTL

\* lastQueryCanceled tells of the latest query, or of one that was cancelled
\* inside it on the same fixedpoint.
THEOREM CanceledIsExact == Spec => []CanceledExact
<1>1. Inv => CanceledExact
  BY DEF Inv
<1> QED
  BY <1>1, Safety, PTL

\* With the asserts compiled in, no step changes the handlers of a fixedpoint whose
\* query is on the stack, until a query of it has ended inside that query.
THEOREM HandlersStayPut == Spec => NoSwapMidQuery
<1>1. ASSUME Inv, Next, ~release, NEW fp \in Fixedpoints, OnStack(fp), fp \notin nested
      PROVE  cbBox'[fp] = cbBox[fp] /\ Installed(fp)' = Installed(fp)
  <2> USE DEF Inv
  <2>1. fp \in inQuery /\ fp \in live
    BY <1>1 DEF InQueryExact, DeadBare
  <2>2. ASSUME NEW gp \in Fixedpoints, Destroy(gp) PROVE cbBox'[fp] = cbBox[fp] /\ Installed(fp)' = Installed(fp)
    <3>1. /\ gp # fp /\ cbBox' = [cbBox EXCEPT ![gp] = NoBox]
          /\ handlers' = [b \in Boxes |-> IF b = cbBox[gp] THEN {} ELSE handlers[b]]
      BY <1>1, <2>2 DEF Destroy
    <3> QED
      BY <1>1, <3>1 DEF Installed, TypeOK, BoxesApart
  <2>3. ASSUME NEW gp \in Fixedpoints, NEW hs \in SUBSET Events, SetHandlers(gp, hs)
        PROVE  cbBox'[fp] = cbBox[fp] /\ Installed(fp)' = Installed(fp)
    <3>1. gp # fp
      BY <1>1, <2>1, <2>3 DEF SetHandlers, MayInstall, MayChange
    <3>2. CASE cbBox[gp] = NoBox
      <4>1. PICK b \in Unused : /\ cbBox' = [cbBox EXCEPT ![gp] = b]
                                /\ handlers' = [handlers EXCEPT ![b] = hs]
        BY <2>3, <3>2 DEF SetHandlers
      <4> QED
        BY <1>1, <3>1, <4>1 DEF Installed, TypeOK, Unused
    <3>3. CASE cbBox[gp] # NoBox
      <4>1. cbBox' = cbBox /\ handlers' = [handlers EXCEPT ![cbBox[gp]] = hs]
        BY <2>3, <3>3 DEF SetHandlers
      <4> QED
        BY <1>1, <3>1, <3>3, <4>1 DEF Installed, TypeOK, BoxesApart
    <3> QED
      BY <3>2, <3>3
  <2>4. ASSUME NEW gp \in Fixedpoints, ClearHandlers(gp)
        PROVE  cbBox'[fp] = cbBox[fp] /\ Installed(fp)' = Installed(fp)
    <3>1. /\ gp # fp /\ cbBox[gp] # NoBox /\ cbBox' = cbBox
          /\ handlers' = [handlers EXCEPT ![cbBox[gp]] = {}]
      BY <1>1, <2>1, <2>4 DEF ClearHandlers, MayChange
    <3> QED
      BY <1>1, <3>1 DEF Installed, TypeOK, BoxesApart
  <2>5. ASSUME UNCHANGED <<cbBox, handlers>>
        PROVE  cbBox'[fp] = cbBox[fp] /\ Installed(fp)' = Installed(fp)
    BY <2>5 DEF Installed
  <2> QED
    BY <1>1, <2>2, <2>3, <2>4, <2>5
       DEF Next, NewFixedpoint, RawAddCallback, RawInit, QueryBegins, Fire, HandlerEnds,
           QueryEnds, boxVars
<1>2. ASSUME UNCHANGED vars, NEW fp \in Fixedpoints
      PROVE  cbBox'[fp] = cbBox[fp] /\ Installed(fp)' = Installed(fp)
  BY <1>2 DEF vars, boxVars, Installed
<1>3. Inv /\ [Next]_vars =>
        [~release => \A fp \in Fixedpoints :
            OnStack(fp) /\ fp \notin nested =>
               cbBox'[fp] = cbBox[fp] /\ Installed(fp)' = Installed(fp)]_vars
  BY <1>1, <1>2
<1> QED
  BY <1>3, Safety, PTL DEF Spec, NoSwapMidQuery
=============================================================================
