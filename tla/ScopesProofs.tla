---------------------------- MODULE ScopesProofs ----------------------------
(***************************************************************************)
(* Scopes, for any constraints, terms, groups and numbers of scopes and    *)
(* objectives: blocks stay nested, handles name their objective, and       *)
(* the frames implement AssertionStack.                                    *)
(***************************************************************************)
EXTENDS Scopes, SequenceTheorems, TLAPS

-----------------------------------------------------------------------------
(* The inductive invariant.                                                *)

FrameSet == [asserted : SUBSET Constraints, before : Nat]
Objects == Terms \cup Groups

Typed ==
    /\ frames \in Seq(FrameSet)
    /\ objs \in Seq(Objects)
    /\ blocks \in Seq(Nat)

\* Blocks that were entered one inside the other, none above n scopes; 0 stands for
\* a block whose own scope was closed under it.
Nested(bs, n) ==
    /\ bs \in Seq(Nat)
    /\ \A i \in 1..Len(bs) : bs[i] \in 0..n
    /\ \A i, j \in 1..Len(bs) : i < j /\ bs[j] # 0 => bs[i] < bs[j]

\* A scope is opened with the objectives there are, so that those of an outer
\* scope come first, and what a pop takes leaves the handles of outer scopes be.
Registered ==
    /\ \A i, j \in 1..Len(frames) : i <= j => frames[i].before <= frames[j].before
    /\ \A h \in handles : \A i \in (h.scope + 2)..Len(frames) : h.idx <= frames[i].before

\* A solver has no objectives: reset discards no handle.
SolverBare == kind = "solver" => objs = <<>> /\ handles = {}

Inv == TypeOK /\ Typed /\ Registered /\ SolverBare /\ HandlesValid

-----------------------------------------------------------------------------
(* Sequences.                                                              *)

LEMMA FunctionIsSeq ==
  ASSUME NEW S, NEW n \in Nat, NEW f \in [1..n -> S]
  PROVE  f \in Seq(S) /\ Len(f) = n
<1>1. f \in Seq(S)
  BY SeqDef
<1>2. DOMAIN f = 1..Len(f) /\ DOMAIN f = 1..n /\ Len(f) \in Nat
  BY <1>1, LenProperties
<1> QED
  BY <1>1, <1>2

LEMMA Prefix ==
  ASSUME NEW S, NEW s \in Seq(S), NEW k \in 0..Len(s)
  PROVE  /\ SubSeq(s, 1, k) \in Seq(S) /\ Len(SubSeq(s, 1, k)) = k
         /\ \A i \in 1..k : SubSeq(s, 1, k)[i] = s[i]
<1>1. Len(s) \in Nat /\ \A i \in 1..k : s[i] \in S
  BY LenProperties, ElementOfSeq
<1> QED
  BY <1>1, SubSeqProperties

LEMMA Before ==
  ASSUME NEW n \in Nat, NEW i \in 1..(n + 1), NEW j \in 1..(n + 1), i < j
  PROVE  i \in 1..n /\ (j = n + 1 \/ j \in 1..n)
OBVIOUS

LEMMA Between ==
  ASSUME NEW k \in Nat, NEW n \in Nat, k + 1 <= n, NEW l \in 0..(k - 1)
  PROVE  k + 1 \in (l + 2)..n
OBVIOUS

LEMMA Sizes ==
  ASSUME Inv
  PROVE  /\ Len(frames) \in Nat \ {0} /\ NumScopes \in 0..MaxScopes
         /\ Len(frames) = NumScopes + 1
         /\ Len(objs) \in 0..MaxObjectives /\ Len(blocks) \in Nat
         /\ \A i \in 1..Len(frames) : frames[i] \in FrameSet /\ frames[i].before \in 0..Len(objs)
         /\ \A i \in 1..Len(objs) : objs[i] \in Objects
         /\ Nested(blocks, NumScopes) /\ Len(blocks) <= MaxScopes
         /\ MaxScopes \in Nat /\ MaxObjectives \in Nat
         /\ frames \in Seq(FrameSet) /\ objs \in Seq(Objects) /\ blocks \in Seq(Nat)
<1>1. Len(frames) \in Nat /\ Len(objs) \in Nat /\ Len(blocks) \in Nat
  BY LenProperties DEF Inv, Typed
<1> QED
  BY <1>1, BoundAssumption, ElementOfSeq DEF Inv, Typed, TypeOK, NumScopes, Nested

\* Cutting the stack to n frames leaves the blocks nested.
LEMMA AboveFacts ==
  ASSUME NEW bs \in Seq(Nat), NEW n \in Nat
  PROVE  /\ Above(bs, n) \in Seq(Nat) /\ Len(Above(bs, n)) = Len(bs)
         /\ \A i \in 1..Len(bs) : Above(bs, n)[i] = IF bs[i] < n THEN bs[i] ELSE 0
<1>1. Len(bs) \in Nat /\ \A i \in 1..Len(bs) : bs[i] \in Nat
  BY LenProperties, ElementOfSeq
<1>2. Above(bs, n) \in [1..Len(bs) -> Nat]
  BY <1>1 DEF Above
<1>3. Above(bs, n) \in Seq(Nat) /\ Len(Above(bs, n)) = Len(bs)
  BY <1>1, <1>2, FunctionIsSeq
<1> QED
  BY <1>3 DEF Above

LEMMA AboveNested ==
  ASSUME NEW bs, NEW n \in Nat, Nested(bs, n), NEW k \in Nat \ {0}
  PROVE  Nested(Above(bs, k), k - 1)
<1>1. /\ bs \in Seq(Nat) /\ Above(bs, k) \in Seq(Nat) /\ Len(Above(bs, k)) = Len(bs)
      /\ \A i \in 1..Len(bs) : Above(bs, k)[i] = IF bs[i] < k THEN bs[i] ELSE 0
      /\ \A i \in 1..Len(bs) : bs[i] \in Nat
  BY AboveFacts, ElementOfSeq DEF Nested
<1>2. \A i \in 1..Len(bs) : Above(bs, k)[i] \in 0..(k - 1)
  BY <1>1
<1>3. ASSUME NEW i \in 1..Len(bs), NEW j \in 1..Len(bs), i < j, Above(bs, k)[j] # 0
      PROVE  Above(bs, k)[i] < Above(bs, k)[j]
  BY <1>1, <1>3 DEF Nested
<1> QED
  BY <1>1, <1>2, <1>3 DEF Nested

\* The blocks around the innermost one.
LEMMA OuterFacts ==
  ASSUME Inv, blocks # <<>>
  PROVE  /\ Outer \in Seq(Nat) /\ Len(Outer) = Len(blocks) - 1
         /\ Len(blocks) \in 1..Len(blocks) /\ Len(blocks) \in Nat \ {0}
         /\ \A i \in 1..(Len(blocks) - 1) : Outer[i] = blocks[i]
         /\ Nested(Outer, NumScopes) /\ Len(Outer) <= MaxScopes
<1> USE Sizes
<1> DEFINE m == Len(blocks)
<1>1. m \in 1..m /\ m \in Nat \ {0} /\ m - 1 \in 0..m
  <2>1. m # 0
    BY EmptySeq DEF Inv, Typed
  <2> QED
    BY <2>1
<1>2. /\ Outer \in Seq(Nat) /\ Len(Outer) = m - 1
      /\ \A i \in 1..(m - 1) : Outer[i] = blocks[i]
  BY <1>1, Prefix DEF Outer
<1>3. \A i \in 1..(m - 1) : i \in 1..m
  BY <1>1
<1>4. Nested(Outer, NumScopes)
  <2>1. \A i \in 1..(m - 1) : Outer[i] = blocks[i] /\ Outer[i] \in 0..NumScopes
    BY <1>2, <1>3 DEF Nested
  <2>2. ASSUME NEW i \in 1..(m - 1), NEW j \in 1..(m - 1), i < j, Outer[j] # 0
        PROVE  Outer[i] < Outer[j]
    BY <1>3, <2>1, <2>2 DEF Nested
  <2> QED
    BY <1>2, <2>1, <2>2 DEF Nested
<1>5. Len(Outer) <= MaxScopes
  BY <1>1, <1>2
<1> QED
  BY <1>1, <1>2, <1>4, <1>5

-----------------------------------------------------------------------------
(* Steps.                                                                  *)

Raising == {"none", "call", "pop"}

\* Steps that add objectives or handles, or that only unwind.
LEMMA SameFrames ==
  ASSUME Inv, UNCHANGED <<frames, kind>>, raising' \in Raising,
         Nested(blocks', NumScopes), Len(blocks') <= MaxScopes,
         objs' \in Seq(Objects), Len(objs') \in Len(objs)..MaxObjectives,
         \A i \in 1..Len(objs) : objs'[i] = objs[i],
         handles' \subseteq HandleSet,
         \A h \in handles' : h.idx <= Len(objs') /\ objs'[h.idx] = h.obj,
         \A h \in handles' : h \in handles \/ h.scope = NumScopes,
         kind = "solver" => objs' = <<>> /\ handles' = {}
  PROVE  Inv'
<1> USE Sizes
<1>1. TypeOK' /\ Typed'
  <2>1. \A i \in 1..Len(frames) : frames[i].before \in 0..Len(objs')
    OBVIOUS
  <2>2. \A i \in 1..Len(objs') : objs'[i] \in Objects
    BY ElementOfSeq
  <2> QED
    BY <2>1, <2>2 DEF Inv, TypeOK, Typed, NumScopes, FrameSet, Objects, Nested, Raising
<1>2. Registered'
  <2>1. \A h \in handles' : h \notin handles => (h.scope + 2)..Len(frames) = {}
    BY DEF NumScopes
  <2> QED
    BY <2>1 DEF Inv, Registered
<1> QED
  BY <1>1, <1>2 DEF Inv, SolverBare, HandlesValid

LEMMA FailInv == ASSUME Inv, Fail PROVE Inv'
<1>1. /\ UNCHANGED <<frames, blocks, kind, objs, handles>> /\ raising' \in Raising
  BY DEF Fail, Raising
<1>2. \A h \in handles : h.idx <= Len(objs) /\ objs[h.idx] = h.obj
  BY DEF Inv, HandlesValid
<1> QED
  BY <1>1, <1>2, Sizes, SameFrames DEF Inv, TypeOK, Typed, SolverBare, Raising

LEMMA CatchInv == ASSUME Inv, Catch PROVE Inv'
<1>1. /\ UNCHANGED <<frames, blocks, kind, objs, handles>> /\ raising' \in Raising
  BY DEF Catch, Raising
<1>2. \A h \in handles : h.idx <= Len(objs) /\ objs[h.idx] = h.obj
  BY DEF Inv, HandlesValid
<1> QED
  BY <1>1, <1>2, Sizes, SameFrames DEF Inv, TypeOK, Typed, SolverBare, Raising

LEMMA LeaveBlockFailsInv == ASSUME Inv, LeaveBlockFails PROVE Inv'
<1>1. /\ UNCHANGED <<frames, kind, objs, handles>> /\ raising' \in Raising
      /\ Nested(blocks', NumScopes) /\ Len(blocks') <= MaxScopes
  BY OuterFacts DEF LeaveBlockFails, Inv, TypeOK, Raising
<1>2. \A h \in handles : h.idx <= Len(objs) /\ objs[h.idx] = h.obj
  BY DEF Inv, HandlesValid
<1> QED
  BY <1>1, <1>2, Sizes, SameFrames DEF Inv, TypeOK, Typed, SolverBare

LEMMA DropHandleInv == ASSUME Inv, NEW h \in handles, DropHandle(h) PROVE Inv'
<1>1. /\ UNCHANGED <<frames, blocks, kind, objs, raising>> /\ handles' = handles \ {h}
  BY DEF DropHandle
<1>2. \A g \in handles' : g.idx <= Len(objs) /\ objs[g.idx] = g.obj
  BY <1>1 DEF Inv, HandlesValid
<1> QED
  BY <1>1, <1>2, Sizes, SameFrames DEF Inv, TypeOK, Typed, SolverBare, Raising

\* A new objective comes last, and its handle names it.
LEMMA NewObjective ==
  ASSUME Inv, NEW o \in Objects, kind = "optimize", Len(objs) < MaxObjectives,
         objs' = Append(objs, o), handles' = handles \cup {Handle(Len(objs) + 1, o)},
         UNCHANGED <<kind, frames, blocks, raising>>
  PROVE  Inv'
<1> USE Sizes
<1>1. /\ objs' \in Seq(Objects) /\ Len(objs') = Len(objs) + 1
      /\ \A i \in 1..Len(objs) : objs'[i] = objs[i] /\ objs'[Len(objs) + 1] = o
      /\ objs'[Len(objs) + 1] = o
  BY AppendProperties DEF Inv, Typed
<1>2. Handle(Len(objs) + 1, o) \in HandleSet
  BY DEF Handle, HandleSet, Objects
<1>3. /\ Handle(Len(objs) + 1, o).idx = Len(objs) + 1
      /\ Handle(Len(objs) + 1, o).obj = o /\ Handle(Len(objs) + 1, o).scope = NumScopes
  BY DEF Handle
<1>4. \A h \in handles : h.idx \in 1..Len(objs) /\ objs[h.idx] = h.obj
  BY DEF Inv, TypeOK, HandlesValid, HandleSet
<1>5. handles' \subseteq HandleSet /\ raising' \in Raising
  BY <1>2 DEF Inv, TypeOK, Raising
<1> QED
  BY <1>1, <1>3, <1>4, <1>5, SameFrames

LEMMA AddSoftInv == ASSUME Inv, NEW g \in Groups, AddSoft(g) PROVE Inv'
<1> USE Sizes
<1>1. kind = "optimize" /\ UNCHANGED <<kind, frames, blocks, raising>> /\ g \in Objects
  BY DEF AddSoft, Objects
<1>2. CASE /\ Len(objs) < MaxObjectives /\ objs' = Append(objs, g)
           /\ handles' = handles \cup {Handle(Len(objs) + 1, g)}
  BY <1>1, <1>2, NewObjective
<1>3. CASE /\ UNCHANGED objs
           /\ \E i \in 1..Len(objs) : objs[i] = g /\ handles' = handles \cup {Handle(i, g)}
  <2>1. PICK i \in 1..Len(objs) : objs[i] = g /\ handles' = handles \cup {Handle(i, g)}
    BY <1>3
  <2>2. /\ Handle(i, g) \in HandleSet /\ Handle(i, g).idx = i
        /\ Handle(i, g).obj = g /\ Handle(i, g).scope = NumScopes
    BY DEF Handle, HandleSet
  <2>3. \A h \in handles : h.idx \in 1..Len(objs) /\ objs[h.idx] = h.obj
    BY DEF Inv, TypeOK, HandlesValid, HandleSet
  <2>4. handles' \subseteq HandleSet /\ raising' \in Raising /\ objs' \in Seq(Objects)
    BY <1>1, <1>3, <2>1, <2>2 DEF Inv, TypeOK, Typed, Raising
  <2> QED
    BY <1>1, <1>3, <2>1, <2>2, <2>3, <2>4, SameFrames
<1> QED
  BY <1>2, <1>3 DEF AddSoft

LEMMA AddInv == ASSUME Inv, NEW c \in Constraints, Add(c) PROVE Inv'
<1> USE Sizes
<1> DEFINE n == Len(frames)
           top == [frames[n] EXCEPT !.asserted = @ \cup {c}]
<1>1. /\ UNCHANGED <<kind, objs, blocks, handles, raising>> /\ frames' = [frames EXCEPT ![n] = top]
  BY DEF Add
<1>2. top \in FrameSet /\ top.before = frames[n].before
  BY DEF FrameSet
<1>3. /\ frames' \in Seq(FrameSet) /\ Len(frames') = n
      /\ \A j \in 1..n : frames'[j] = IF j = n THEN top ELSE frames[j]
  BY <1>1, <1>2, ExceptSeq DEF Inv, Typed
<1> HIDE DEF top
<1>4. \A j \in 1..n : frames'[j] \in FrameSet /\ frames'[j].before = frames[j].before
  BY <1>2, <1>3
<1>5. TypeOK'
  BY <1>1, <1>3, <1>4 DEF Inv, TypeOK, NumScopes, FrameSet
<1>6. Typed' /\ Registered' /\ SolverBare' /\ HandlesValid'
  BY <1>1, <1>3, <1>4 DEF Inv, Typed, Registered, SolverBare, HandlesValid
<1> QED
  BY <1>5, <1>6 DEF Inv

\* push, and withFrame's.
LEMMA OpenInv ==
  ASSUME Inv, OpenScope, UNCHANGED <<kind, objs, handles, raising>>,
         blocks' = blocks \/ (Len(blocks) < MaxScopes /\ blocks' = Append(blocks, Len(frames)))
  PROVE  Inv'
<1> USE Sizes
<1> DEFINE n == Len(frames)
<1>1. Frame(Len(objs)) \in FrameSet /\ Frame(Len(objs)).before = Len(objs)
  BY DEF Frame, FrameSet
<1>2. /\ frames' \in Seq(FrameSet) /\ Len(frames') = n + 1 /\ NumScopes < MaxScopes
      /\ \A j \in 1..n : frames'[j] = frames[j]
      /\ frames'[n + 1] = Frame(Len(objs))
  BY <1>1, AppendProperties DEF OpenScope, Inv, Typed
<1>3. NumScopes' = NumScopes + 1
  BY <1>2 DEF NumScopes
<1>4. Nested(blocks', NumScopes') /\ Len(blocks') <= MaxScopes
  <2>1. CASE blocks' = blocks
    BY <1>3, <2>1 DEF Nested
  <2>2. CASE Len(blocks) < MaxScopes /\ blocks' = Append(blocks, n)
    <3>1. blocks \in Seq(Nat) /\ n \in Nat /\ n = NumScopes'
      BY <1>3
    <3>2. /\ blocks' \in Seq(Nat) /\ Len(blocks') = Len(blocks) + 1
          /\ \A i \in 1..Len(blocks) : blocks'[i] = blocks[i]
          /\ blocks'[Len(blocks) + 1] = n
      BY <2>2, <3>1, AppendProperties
    <3>3. \A i \in 1..Len(blocks) : blocks[i] \in Nat /\ blocks[i] < n
      BY DEF Nested
    <3>4. ASSUME NEW i \in 1..(Len(blocks) + 1) PROVE blocks'[i] \in 0..n
      <4>1. i = Len(blocks) + 1 \/ i \in 1..Len(blocks)
        OBVIOUS
      <4>2. CASE i = Len(blocks) + 1
        BY <3>1, <3>2, <4>2
      <4>3. CASE i \in 1..Len(blocks)
        <5>1. blocks'[i] = blocks[i] /\ blocks[i] \in Nat /\ blocks[i] < n
          BY <3>2, <3>3, <4>3
        <5> QED
          BY <3>1, <5>1
      <4> QED
        BY <4>1, <4>2, <4>3
    <3>5. ASSUME NEW i \in 1..(Len(blocks) + 1), NEW j \in 1..(Len(blocks) + 1), i < j,
                 blocks'[j] # 0
          PROVE  blocks'[i] < blocks'[j]
      <4>1. i \in 1..Len(blocks) /\ (j = Len(blocks) + 1 \/ j \in 1..Len(blocks))
        <5>1. Len(blocks) \in Nat
          OBVIOUS
        <5> QED
          BY <3>5, <5>1, Before
      <4>2. CASE j = Len(blocks) + 1
        BY <3>2, <3>3, <4>1, <4>2
      <4>3. CASE j \in 1..Len(blocks)
        BY <3>2, <3>5, <4>1, <4>3 DEF Nested
      <4> QED
        BY <4>1, <4>2, <4>3
    <3> QED
      BY <2>2, <3>1, <3>2, <3>4, <3>5 DEF Nested
  <2> QED
    BY <2>1, <2>2
<1>5. \A j \in 1..(n + 1) : frames'[j] \in FrameSet /\ frames'[j].before \in 0..Len(objs)
  <2>1. \A j \in 1..(n + 1) : j = n + 1 \/ j \in 1..n
    OBVIOUS
  <2>2. Len(objs) \in Nat /\ \A j \in 1..n : frames[j] \in FrameSet /\ frames[j].before \in 0..Len(objs)
    OBVIOUS
  <2> HIDE Sizes
  <2> QED
    BY <1>1, <1>2, <2>1, <2>2
<1>6. TypeOK' /\ Typed'
  <2>1. /\ Len(frames') \in 1..(MaxScopes + 1)
        /\ \A i \in 1..Len(frames') :
              frames'[i] \in [asserted : SUBSET Constraints, before : 0..Len(objs)]
    BY <1>2, <1>5 DEF NumScopes, FrameSet
  <2> QED
    BY <1>2, <1>4, <2>1 DEF Inv, TypeOK, Typed, Nested
<1>7. Registered'
  <2>1. ASSUME NEW i \in 1..(n + 1), NEW j \in 1..(n + 1), i <= j
        PROVE  frames'[i].before <= frames'[j].before
    <3>1. CASE j = n + 1
      BY <1>1, <1>2, <1>5, <2>1, <3>1
    <3>2. CASE j # n + 1
      <4>1. i \in 1..n /\ j \in 1..n
        BY <2>1, <3>2
      <4> QED
        BY <1>2, <2>1, <4>1 DEF Inv, Registered
    <3> QED
      BY <3>1, <3>2
  <2>2. ASSUME NEW h \in handles, NEW i \in (h.scope + 2)..(n + 1) PROVE h.idx <= frames'[i].before
    <3>1. h.idx <= Len(objs) /\ h.scope \in Nat
      BY DEF Inv, TypeOK, HandleSet, HandlesValid
    <3> QED
      <4>1. i = n + 1 \/ (i \in 1..n /\ i \in (h.scope + 2)..n)
        <5>1. n \in Nat
          OBVIOUS
        <5> HIDE DEF n
        <5> HIDE Sizes
        <5> QED
          BY <2>2, <3>1, <5>1
      <4> QED
        BY <1>1, <1>2, <2>2, <3>1, <4>1 DEF Inv, Registered
  <2> QED
    BY <1>2, <2>1, <2>2 DEF Registered
<1> QED
  BY <1>6, <1>7 DEF Inv, SolverBare, HandlesValid

\* pop, and the one in withFrame's finally: the handles that stay are of scopes
\* that stay, and so are their objectives.
LEMMA PopScopesInv ==
  ASSUME Inv, NEW n \in 1..NumScopes, PopScopes(n), handles' = HandlesWithin(NumScopes - n),
         UNCHANGED <<kind, raising>>,
         Nested(blocks', NumScopes - n), Len(blocks') <= MaxScopes
  PROVE  Inv'
<1> USE Sizes
<1> DEFINE k == Len(frames) - n
           b == frames[k + 1].before
<1>1. k \in 1..Len(frames) /\ k + 1 \in 1..Len(frames) /\ b \in 0..Len(objs) /\ k = NumScopes - n + 1
  OBVIOUS
<1>2. /\ frames' \in Seq(FrameSet) /\ Len(frames') = k
      /\ \A i \in 1..k : frames'[i] = frames[i]
  <2>1. k \in 0..Len(frames) /\ frames \in Seq(FrameSet) /\ frames' = SubSeq(frames, 1, k)
    BY <1>1 DEF PopScopes
  <2> HIDE DEF k
  <2> QED
    BY <2>1, Prefix
<1>3. /\ objs' \in Seq(Objects) /\ Len(objs') = b
      /\ \A i \in 1..b : objs'[i] = objs[i]
  BY <1>1, Prefix DEF PopScopes, Inv, Typed
<1>4. NumScopes' = NumScopes - n
  BY <1>1, <1>2 DEF NumScopes
<1>5. \A i \in 1..k : frames[i].before <= b
  <2>1. \A i \in 1..k : i \in 1..Len(frames) /\ i <= k + 1
    BY <1>1
  <2> QED
    BY <1>1, <2>1 DEF Inv, Registered
<1>6. \A h \in handles' : h \in handles /\ h.scope \in 0..(k - 1)
  <2>1. \A h \in handles : h.scope \in Nat
    BY DEF Inv, TypeOK, HandleSet
  <2> QED
    BY <1>1, <2>1 DEF HandlesWithin
<1>7. \A h \in handles' : h.idx \in 1..b /\ objs'[h.idx] = h.obj
  <2>1. ASSUME NEW h \in handles' PROVE h.idx <= b
    <3>1. k + 1 \in (h.scope + 2)..Len(frames)
      <4>1. h.scope \in 0..(k - 1)
        BY <1>6
      <4> QED
        <5>1. k \in Nat /\ Len(frames) \in Nat /\ k + 1 <= Len(frames)
          BY <1>1
        <5> HIDE DEF k
        <5> QED
          BY <4>1, <5>1, Between
    <3> QED
      BY <1>6, <3>1 DEF Inv, Registered
  <2>2. \A h \in handles' : h.idx \in Nat \ {0} /\ objs[h.idx] = h.obj
    BY <1>6 DEF Inv, TypeOK, HandleSet, HandlesValid
  <2> QED
    <3>1. \A h \in handles' : h.idx \in 1..b
      BY SMTT(30), <1>1, <2>1, <2>2
    <3> QED
      BY <1>3, <2>2, <3>1
<1> HIDE DEF b, k
<1>8. TypeOK' /\ Typed'
  <2>1. \A i \in 1..k : frames'[i] \in [asserted : SUBSET Constraints, before : 0..b]
    <3>1. \A i \in 1..k : frames[i] \in FrameSet /\ frames[i].before \in 0..b
      BY <1>1, <1>5
    <3> QED
      BY <1>2, <3>1 DEF FrameSet
  <2>2. \A i \in 1..b : objs'[i] \in Objects
    BY <1>1, <1>3
  <2>3. handles' \subseteq HandleSet /\ raising' \in Raising /\ kind' \in {"solver", "optimize"}
    BY <1>6 DEF Inv, TypeOK, Raising
  <2> QED
    <3>1. Len(frames') \in 1..(MaxScopes + 1) /\ Len(objs') <= MaxObjectives
      BY <1>1, <1>2, <1>3
    <3>2. Nested(blocks', NumScopes')
      BY <1>4
    <3> QED
      BY <1>2, <1>3, <2>1, <2>2, <2>3, <3>1, <3>2 DEF TypeOK, Typed, Objects, Nested, Raising
<1>9. Registered'
  <2>1. \A i, j \in 1..k : i <= j => frames'[i].before <= frames'[j].before
    <3>1. \A i \in 1..k : i \in 1..Len(frames)
      BY <1>1
    <3> QED
      BY <1>2, <3>1 DEF Inv, Registered
  <2>2. ASSUME NEW h \in handles', NEW i \in (h.scope + 2)..k PROVE h.idx <= frames'[i].before
    <3>1. i \in 1..k /\ i \in (h.scope + 2)..Len(frames) /\ h \in handles
      BY SMTT(30), <1>1, <1>6, <2>2
    <3> QED
      BY <1>2, <3>1 DEF Inv, Registered
  <2> QED
    BY <1>2, <2>1, <2>2 DEF Registered
<1>10. SolverBare'
  <2>1. kind = "solver" => b = 0 /\ handles' = {}
    BY <1>1, <1>6, EmptySeq DEF Inv, SolverBare
  <2> QED
    BY <1>3, <2>1, EmptySeq DEF SolverBare
<1> QED
  BY <1>3, <1>7, <1>8, <1>9, <1>10 DEF Inv, HandlesValid

LEMMA PushInv == ASSUME Inv, Push PROVE Inv'
BY OpenInv DEF Push

LEMMA EnterBlockInv == ASSUME Inv, EnterBlock PROVE Inv'
BY OpenInv DEF EnterBlock

LEMMA PopInv == ASSUME Inv, NEW n \in 1..MaxScopes, Pop(n) PROVE Inv'
<1>1. /\ n \in 1..NumScopes /\ PopScopes(n) /\ handles' = HandlesWithin(NumScopes - n)
      /\ blocks' = Above(blocks, Len(frames) - n) /\ UNCHANGED <<kind, raising>>
  BY DEF Pop
<1>2. Len(frames) - n \in Nat \ {0} /\ Len(frames) - n - 1 = NumScopes - n /\ NumScopes \in Nat
  BY <1>1, Sizes
<1>3. Nested(blocks', NumScopes - n)
  BY <1>1, <1>2, Sizes, AboveNested
<1>4. Len(blocks') <= MaxScopes
  BY <1>1, <1>2, Sizes, AboveFacts
<1> QED
  BY <1>1, <1>3, <1>4, PopScopesInv

LEMMA LeaveBlockInv == ASSUME Inv, LeaveBlock PROVE Inv'
<1>1. /\ blocks # <<>> /\ NumScopes > 0 /\ PopScopes(1)
      /\ handles' = HandlesWithin(NumScopes - 1) /\ UNCHANGED <<kind, raising>>
      /\ blocks' = Above(Outer, Len(frames) - 1)
  BY DEF LeaveBlock
<1>2. /\ Len(frames) - 1 \in Nat \ {0} /\ Len(frames) - 1 - 1 = NumScopes - 1
      /\ NumScopes \in Nat /\ 1 \in 1..NumScopes
  BY <1>1, Sizes
<1>3. Outer \in Seq(Nat) /\ Nested(Outer, NumScopes) /\ Len(Outer) <= MaxScopes
  BY <1>1, OuterFacts
<1>4. Nested(blocks', NumScopes - 1)
  BY <1>1, <1>2, <1>3, AboveNested
<1>5. Len(blocks') <= MaxScopes
  BY <1>1, <1>2, <1>3, AboveFacts
<1> QED
  BY <1>1, <1>2, <1>4, <1>5, PopScopesInv

LEMMA ResetInv == ASSUME Inv, Reset PROVE Inv'
<1> USE Sizes
<1>1. /\ UNCHANGED <<kind, objs, handles, raising>> /\ blocks' = Above(blocks, 1)
      /\ kind = "solver" /\ frames' = <<Frame(0)>>
  BY DEF Reset
<1>2. /\ objs = <<>> /\ handles = {} /\ Len(objs) = 0
  BY <1>1, EmptySeq DEF Inv, SolverBare
<1>3. /\ frames' \in Seq(FrameSet) /\ Len(frames') = 1 /\ frames'[1] = Frame(0)
      /\ Frame(0) \in FrameSet /\ Frame(0).before = 0
  BY <1>1 DEF Frame, FrameSet
<1>4. Nested(blocks', NumScopes') /\ Len(blocks') <= MaxScopes
  <2>1. NumScopes' = 1 - 1 /\ NumScopes \in Nat
    BY <1>3 DEF NumScopes
  <2>2. Nested(blocks', 1 - 1)
    BY <1>1, <2>1, AboveNested
  <2> QED
    BY <1>1, <2>1, <2>2, AboveFacts
<1>5. TypeOK'
  BY <1>1, <1>2, <1>3, <1>4 DEF Inv, TypeOK, Frame, Nested
<1>6. Typed' /\ Registered' /\ SolverBare' /\ HandlesValid'
  BY <1>1, <1>2, <1>3, <1>4 DEF Inv, Typed, Nested, Registered, SolverBare, HandlesValid
<1> QED
  BY <1>5, <1>6 DEF Inv

LEMMA InitInv == Init => Inv
<1> SUFFICES ASSUME Init PROVE Inv
  OBVIOUS
<1>1. /\ frames \in Seq(FrameSet) /\ Len(frames) = 1 /\ frames[1] = Frame(0)
      /\ Frame(0) \in FrameSet /\ Frame(0).before = 0
  BY DEF Init, Frame, FrameSet
<1>2. /\ objs = <<>> /\ blocks = <<>> /\ Len(objs) = 0 /\ Len(blocks) = 0
      /\ objs \in Seq(Objects) /\ blocks \in Seq(Nat) /\ handles = {}
  BY EmptySeq DEF Init
<1>3. TypeOK
  <2>1. /\ Len(frames) \in 1..(MaxScopes + 1)
        /\ \A i \in 1..Len(frames) :
              frames[i] \in [asserted : SUBSET Constraints, before : 0..Len(objs)]
    BY <1>1, <1>2, BoundAssumption DEF Frame
  <2>2. Len(objs) <= MaxObjectives
    BY <1>2, BoundAssumption
  <2>3. kind \in {"solver", "optimize"} /\ raising \in Raising
    BY DEF Init, Raising
  <2>4. \A i \in 1..Len(objs) : objs[i] \in Terms \cup Groups
    BY <1>2
  <2>5. Nested(blocks, NumScopes) /\ Len(blocks) <= MaxScopes
    BY <1>2, BoundAssumption DEF Nested
  <2> QED
    BY <1>2, <2>1, <2>2, <2>3, <2>4, <2>5 DEF TypeOK, Nested, Raising
<1> QED
  BY <1>1, <1>2, <1>3 DEF Inv, Typed, Registered, SolverBare, HandlesValid

LEMMA StepInv == Inv /\ [Next]_vars => Inv'
<1> SUFFICES ASSUME Inv, [Next]_vars PROVE Inv'
  OBVIOUS
<1>1. CASE UNCHANGED vars
  BY <1>1 DEF vars, Inv, TypeOK, Typed, Registered, SolverBare, HandlesValid, NumScopes
<1>2. ASSUME NEW t \in Terms, Maximize(t) PROVE Inv'
  BY <1>2, NewObjective DEF Maximize, Objects
<1> QED
  BY <1>1, <1>2, AddInv, AddSoftInv, DropHandleInv, PopInv, FailInv, PushInv, ResetInv,
     EnterBlockInv, LeaveBlockInv, LeaveBlockFailsInv, CatchInv DEF Next

THEOREM Safety == Spec => []Inv
BY InitInv, StepInv, PTL DEF Spec

\* A block whose body has popped nothing from below it has the scope it opened to
\* pop, blocks stay nested, and the scopes and objectives keep their bounds.
THEOREM TypeCorrect == Spec => []TypeOK
<1>1. Inv => TypeOK
  BY DEF Inv
<1> QED
  BY <1>1, Safety, PTL

\* Every handle that the program may keep names the objective it was made for.
THEOREM HandlesNameTheirs == Spec => []HandlesValid
<1>1. Inv => HandlesValid
  BY DEF Inv
<1> QED
  BY <1>1, Safety, PTL

-----------------------------------------------------------------------------
(* The refinement: what AssertionStack calls stack and open.               *)

Stack(fs) == [i \in 1..Len(fs) |-> fs[i].asserted]
Opened(bs, fs) == [i \in 1..Len(bs) |-> [j \in 1..bs[i] |-> fs[j].asserted]]
Assertions == Seq(SUBSET Constraints)

LEMMA StackFacts ==
  ASSUME NEW fs \in Seq(FrameSet)
  PROVE  /\ Stack(fs) \in Seq(SUBSET Constraints) /\ Len(Stack(fs)) = Len(fs)
         /\ \A i \in 1..Len(fs) : Stack(fs)[i] = fs[i].asserted
<1>1. Len(fs) \in Nat /\ \A i \in 1..Len(fs) : fs[i].asserted \in SUBSET Constraints
  <2>1. Len(fs) \in Nat /\ \A i \in 1..Len(fs) : fs[i] \in FrameSet
    BY LenProperties, ElementOfSeq
  <2> QED
    BY <2>1 DEF FrameSet
<1>2. Stack(fs) \in [1..Len(fs) -> SUBSET Constraints]
  BY <1>1 DEF Stack
<1>3. Stack(fs) \in Seq(SUBSET Constraints) /\ Len(Stack(fs)) = Len(fs)
  BY <1>1, <1>2, FunctionIsSeq
<1> QED
  BY <1>3 DEF Stack

\* The stack of a fresh or reset solver.
LEMMA FirstStack == Stack(<<Frame(0)>>) = << {} >>
<1> DEFINE fs == <<Frame(0)>>
<1>1. Len(fs) = 1 /\ fs[1].asserted = {} /\ fs \in Seq(FrameSet)
  BY DEF Frame, FrameSet
<1> HIDE DEF fs
<1>2. Stack(fs) \in Seq(SUBSET Constraints) /\ Len(Stack(fs)) = 1 /\ Stack(fs)[1] = {}
  BY <1>1, StackFacts
<1>3. << {} >> \in Seq(SUBSET Constraints) /\ Len(<< {} >>) = 1 /\ << {} >>[1] = {}
  OBVIOUS
<1>4. ASSUME NEW i \in 1..1 PROVE Stack(fs)[i] = << {} >>[i]
  <2>1. i = 1
    OBVIOUS
  <2> QED
    BY <1>2, <1>3, <2>1, Zenon
<1> QED
  BY <1>2, <1>3, <1>4, SeqEqual DEF fs

LEMMA OpenedFacts ==
  ASSUME NEW fs \in Seq(FrameSet), NEW bs \in Seq(Nat), \A i \in 1..Len(bs) : bs[i] <= Len(fs)
  PROVE  /\ Opened(bs, fs) \in Seq(Assertions) /\ Len(Opened(bs, fs)) = Len(bs)
         /\ \A i \in 1..Len(bs) :
               /\ Opened(bs, fs)[i] = [j \in 1..bs[i] |-> fs[j].asserted]
               /\ Opened(bs, fs)[i] \in Assertions /\ Len(Opened(bs, fs)[i]) = bs[i]
<1> DEFINE open == Opened(bs, fs)
<1>1. /\ Len(bs) \in Nat /\ Len(fs) \in Nat
      /\ \A i \in 1..Len(bs) : bs[i] \in Nat
      /\ \A j \in 1..Len(fs) : fs[j].asserted \in SUBSET Constraints
  <2>1. \A j \in 1..Len(fs) : fs[j] \in FrameSet
    BY ElementOfSeq
  <2> QED
    BY <2>1, LenProperties, ElementOfSeq DEF FrameSet
<1>2. ASSUME NEW i \in 1..Len(bs)
      PROVE  /\ open[i] = [j \in 1..bs[i] |-> fs[j].asserted]
             /\ open[i] \in Assertions /\ Len(open[i]) = bs[i]
  <2>1. open[i] = [j \in 1..bs[i] |-> fs[j].asserted]
    BY DEF Opened
  <2>2. \A j \in 1..bs[i] : j \in 1..Len(fs)
    BY <1>1
  <2>3. open[i] \in [1..bs[i] -> SUBSET Constraints]
    BY <1>1, <2>1, <2>2
  <2>4. bs[i] \in Nat
    BY <1>1
  <2> HIDE DEF open
  <2>5. open[i] \in Seq(SUBSET Constraints) /\ Len(open[i]) = bs[i]
    BY <2>3, <2>4, FunctionIsSeq
  <2> QED
    BY <2>1, <2>5 DEF Assertions
<1>3. open = [i \in 1..Len(bs) |-> open[i]]
  BY DEF Opened
<1> HIDE DEF open
<1>4. open \in [1..Len(bs) -> Assertions]
  BY <1>2, <1>3
<1>5. open \in Seq(Assertions) /\ Len(open) = Len(bs)
  <2>1. Len(bs) \in Nat
    BY <1>1
  <2> QED
    BY <1>4, <2>1, FunctionIsSeq
<1> QED
  BY <1>2, <1>5 DEF open

\* What the blocks opened depends on the frames below theirs alone.
LEMMA OpenedSame ==
  ASSUME NEW fs, NEW gs, NEW bs,
         \A i \in 1..Len(bs) : \A j \in 1..bs[i] : gs[j].asserted = fs[j].asserted
  PROVE  Opened(bs, gs) = Opened(bs, fs)
<1>1. \A i \in 1..Len(bs) : [j \in 1..bs[i] |-> gs[j].asserted] = [j \in 1..bs[i] |-> fs[j].asserted]
  OBVIOUS
<1> QED
  BY <1>1 DEF Opened

\* To close scopes under blocks is the same there and here.
LEMMA OpenedAbove ==
  ASSUME NEW fs \in Seq(FrameSet), NEW bs \in Seq(Nat), \A i \in 1..Len(bs) : bs[i] <= Len(fs),
         NEW n \in Nat
  PROVE  Opened(Above(bs, n), fs) = Abstract!Above(Opened(bs, fs), n)
<1> DEFINE cs == Above(bs, n)
<1>1. /\ cs \in Seq(Nat) /\ Len(cs) = Len(bs)
      /\ \A i \in 1..Len(bs) : cs[i] = IF bs[i] < n THEN bs[i] ELSE 0
  BY AboveFacts
<1>2. Len(fs) \in Nat /\ \A i \in 1..Len(bs) : bs[i] \in Nat
  BY LenProperties, ElementOfSeq
<1> HIDE DEF cs
<1>3. \A i \in 1..Len(cs) : cs[i] <= Len(fs)
  BY <1>1, <1>2
<1>4. /\ Len(Opened(bs, fs)) = Len(bs)
      /\ \A i \in 1..Len(bs) : /\ Opened(bs, fs)[i] = [j \in 1..bs[i] |-> fs[j].asserted]
                               /\ Len(Opened(bs, fs)[i]) = bs[i]
  BY OpenedFacts
<1>5. \A i \in 1..Len(bs) : /\ Opened(cs, fs)[i] = [j \in 1..cs[i] |-> fs[j].asserted]
                            /\ Opened(cs, fs)[i] \in Assertions
                            /\ Len(Opened(cs, fs)[i]) = cs[i]
  BY <1>1, <1>3, OpenedFacts
<1>6. ASSUME NEW i \in 1..Len(bs)
      PROVE  Opened(cs, fs)[i] = IF Len(Opened(bs, fs)[i]) < n THEN Opened(bs, fs)[i] ELSE <<>>
  <2>1. CASE bs[i] < n
    BY <1>1, <1>4, <1>5, <2>1
  <2>2. CASE ~(bs[i] < n)
    BY <1>1, <1>4, <1>5, <2>2, EmptySeq DEF Assertions
  <2> QED
    BY <2>1, <2>2
<1>7. Opened(cs, fs) = [i \in 1..Len(bs) |-> Opened(cs, fs)[i]]
  BY <1>1 DEF Opened
<1>8. Abstract!Above(Opened(bs, fs), n)
         = [i \in 1..Len(bs) |->
               IF Len(Opened(bs, fs)[i]) < n THEN Opened(bs, fs)[i] ELSE <<>>]
  BY <1>4 DEF Abstract!Above
<1> QED
  BY <1>6, <1>7, <1>8 DEF cs

LEMMA OpenedAppend ==
  ASSUME NEW fs \in Seq(FrameSet), NEW bs \in Seq(Nat), \A i \in 1..Len(bs) : bs[i] <= Len(fs)
  PROVE  Opened(Append(bs, Len(fs)), fs) = Append(Opened(bs, fs), Stack(fs))
<1> DEFINE m == Len(bs)
           cs == Append(bs, Len(fs))
           o == Append(Opened(bs, fs), Stack(fs))
<1>1. /\ m \in Nat /\ Len(fs) \in Nat /\ cs \in Seq(Nat) /\ Len(cs) = m + 1
      /\ \A i \in 1..m : cs[i] = bs[i]
      /\ cs[m + 1] = Len(fs)
  BY LenProperties, AppendProperties
<1>2. /\ Opened(bs, fs) \in Seq(Assertions) /\ Len(Opened(bs, fs)) = m
      /\ \A i \in 1..m : Opened(bs, fs)[i] = [j \in 1..bs[i] |-> fs[j].asserted]
      /\ Stack(fs) \in Assertions
  BY OpenedFacts, StackFacts DEF Assertions
<1>3. /\ o \in Seq(Assertions) /\ Len(o) = m + 1
      /\ \A i \in 1..m : o[i] = Opened(bs, fs)[i]
      /\ o[m + 1] = Stack(fs)
  BY <1>2, AppendProperties
<1> HIDE DEF cs, o
<1>4. ASSUME NEW i \in 1..(m + 1) PROVE [j \in 1..cs[i] |-> fs[j].asserted] = o[i]
  <2>1. CASE i = m + 1
    BY <1>1, <1>3, <2>1 DEF Stack
  <2>2. CASE i # m + 1
    <3>1. i \in 1..m
      BY <1>1, <2>2
    <3> QED
      BY <1>1, <1>2, <1>3, <3>1
  <2> QED
    BY <2>1, <2>2
<1>5. Opened(cs, fs) = [i \in 1..(m + 1) |-> o[i]]
  BY <1>1, <1>4 DEF Opened
<1>6. o = [i \in 1..(m + 1) |-> o[i]]
  BY <1>3, LenProperties
<1> QED
  BY <1>5, <1>6 DEF cs, o

LEMMA OpenedPrefix ==
  ASSUME NEW fs \in Seq(FrameSet), NEW bs \in Seq(Nat), \A i \in 1..Len(bs) : bs[i] <= Len(fs),
         NEW k \in 0..Len(bs)
  PROVE  Opened(SubSeq(bs, 1, k), fs) = SubSeq(Opened(bs, fs), 1, k)
<1> DEFINE cs == SubSeq(bs, 1, k)
           o == SubSeq(Opened(bs, fs), 1, k)
<1>1. Len(bs) \in Nat /\ cs \in Seq(Nat) /\ Len(cs) = k /\ \A i \in 1..k : cs[i] = bs[i]
  BY LenProperties, Prefix
<1>2. /\ Opened(bs, fs) \in Seq(Assertions) /\ Len(Opened(bs, fs)) = Len(bs)
      /\ \A i \in 1..Len(bs) : Opened(bs, fs)[i] = [j \in 1..bs[i] |-> fs[j].asserted]
  BY OpenedFacts
<1>3. o \in Seq(Assertions) /\ Len(o) = k /\ \A i \in 1..k : o[i] = Opened(bs, fs)[i]
  BY <1>2, Prefix
<1> HIDE DEF cs, o
<1>4. \A i \in 1..k : i \in 1..Len(bs)
  BY <1>1
<1>5. \A i \in 1..k : [j \in 1..cs[i] |-> fs[j].asserted] = o[i]
  BY <1>1, <1>2, <1>3, <1>4
<1>6. Opened(cs, fs) = [i \in 1..k |-> o[i]]
  BY <1>1, <1>5 DEF Opened
<1>7. o = [i \in 1..k |-> o[i]]
  BY <1>3, LenProperties
<1> QED
  BY <1>6, <1>7 DEF cs, o

\* The blocks and frames of a state, as the lemmas above ask for them.
LEMMA Below ==
  ASSUME Inv
  PROVE  /\ frames \in Seq(FrameSet) /\ blocks \in Seq(Nat) /\ Len(frames) \in Nat \ {0}
         /\ \A i \in 1..Len(blocks) : blocks[i] \in Nat /\ blocks[i] < Len(frames)
                                      /\ blocks[i] <= Len(frames)
<1>1. /\ frames \in Seq(FrameSet) /\ blocks \in Seq(Nat) /\ NumScopes \in Nat
      /\ Len(frames) = NumScopes + 1 /\ \A i \in 1..Len(blocks) : blocks[i] \in 0..NumScopes
  BY Sizes DEF Nested
<1> QED
  BY <1>1

LEMMA AddStep ==
  ASSUME Inv, NEW c \in Constraints, Add(c)
  PROVE  /\ Stack(frames') = [Stack(frames) EXCEPT ![Len(Stack(frames))] = @ \cup {c}]
         /\ Opened(blocks', frames') = Opened(blocks, frames)
<1> DEFINE n == Len(frames)
           top == [frames[n] EXCEPT !.asserted = @ \cup {c}]
           s == Stack(frames)
<1>1. /\ frames \in Seq(FrameSet) /\ n \in 1..n /\ n = NumScopes + 1 /\ UNCHANGED blocks
      /\ frames' = [frames EXCEPT ![n] = top] /\ frames[n] \in FrameSet
  BY Sizes DEF Add
<1>2. top \in FrameSet /\ top.asserted = frames[n].asserted \cup {c}
  BY <1>1 DEF FrameSet
<1> HIDE DEF top
<1>3. /\ frames' \in Seq(FrameSet) /\ Len(frames') = n
      /\ \A j \in 1..n : frames'[j] = IF j = n THEN top ELSE frames[j]
  BY <1>1, <1>2, ExceptSeq
<1>4. /\ s \in Seq(SUBSET Constraints) /\ Len(s) = n
      /\ \A j \in 1..n : s[j] = frames[j].asserted
      /\ Stack(frames') \in Seq(SUBSET Constraints) /\ Len(Stack(frames')) = n
      /\ \A j \in 1..n : Stack(frames')[j] = frames'[j].asserted
  BY <1>1, <1>3, StackFacts
<1> HIDE DEF s
<1>5. s[n] \cup {c} \in SUBSET Constraints
  BY <1>1, <1>4, ElementOfSeq
<1>6. /\ [s EXCEPT ![n] = s[n] \cup {c}] \in Seq(SUBSET Constraints)
      /\ Len([s EXCEPT ![n] = s[n] \cup {c}]) = n
      /\ \A j \in 1..n : [s EXCEPT ![n] = s[n] \cup {c}][j] = IF j = n THEN s[n] \cup {c} ELSE s[j]
  BY <1>1, <1>4, <1>5, ExceptSeq
<1>7. ASSUME NEW j \in 1..n PROVE Stack(frames')[j] = [s EXCEPT ![n] = s[n] \cup {c}][j]
  <2>1. Stack(frames')[j] = frames'[j].asserted /\ s[j] = frames[j].asserted
    BY <1>4
  <2>2. frames'[j].asserted = IF j = n THEN s[n] \cup {c} ELSE s[j]
    BY <1>2, <1>3, <2>1
  <2> QED
    BY <1>6, <2>1, <2>2
<1>8. Stack(frames') = [s EXCEPT ![n] = s[n] \cup {c}]
  BY <1>4, <1>6, <1>7, SeqEqual
<1>9. \A i \in 1..Len(blocks) : \A j \in 1..blocks[i] : frames'[j].asserted = frames[j].asserted
  <2>1. \A i \in 1..Len(blocks) : \A j \in 1..blocks[i] : j \in 1..n /\ j # n
    BY <1>1, Below
  <2> QED
    BY <1>3, <2>1
<1>10. Opened(blocks, frames') = Opened(blocks, frames)
  BY <1>9, OpenedSame
<1> QED
  BY <1>1, <1>4, <1>8, <1>10 DEF s

\* push, and withFrame's: nothing below the new scope changes.
LEMMA OpenScopeStep ==
  ASSUME Inv, OpenScope
  PROVE  /\ Stack(frames') = Append(Stack(frames), {})
         /\ \A j \in 1..Len(frames) : frames'[j] = frames[j]
<1> DEFINE n == Len(frames)
           s == Stack(frames)
<1>1. Frame(Len(objs)) \in FrameSet /\ Frame(Len(objs)).asserted = {} /\ frames \in Seq(FrameSet)
      /\ n \in Nat
  BY Sizes DEF Frame, FrameSet
<1>2. /\ frames' \in Seq(FrameSet) /\ Len(frames') = n + 1
      /\ \A j \in 1..n : frames'[j] = frames[j]
      /\ frames'[n + 1] = Frame(Len(objs))
  BY <1>1, AppendProperties DEF OpenScope
<1>3. /\ s \in Seq(SUBSET Constraints) /\ Len(s) = n /\ {} \in SUBSET Constraints
      /\ \A j \in 1..n : s[j] = frames[j].asserted
      /\ Stack(frames') \in Seq(SUBSET Constraints) /\ Len(Stack(frames')) = n + 1
      /\ \A j \in 1..(n + 1) : Stack(frames')[j] = frames'[j].asserted
  BY <1>1, <1>2, StackFacts
<1> HIDE DEF s
<1>4. /\ Append(s, {}) \in Seq(SUBSET Constraints) /\ Len(Append(s, {})) = n + 1
      /\ \A j \in 1..n : Append(s, {})[j] = s[j]
      /\ Append(s, {})[n + 1] = {}
  BY <1>3, AppendProperties
<1>5. \A j \in 1..(n + 1) : Stack(frames')[j] = Append(s, {})[j]
  <2>1. \A j \in 1..(n + 1) : j = n + 1 \/ j \in 1..n
    BY <1>1
  <2> QED
    BY <1>1, <1>2, <1>3, <1>4, <2>1
<1>6. Stack(frames') = Append(s, {})
  BY <1>3, <1>4, <1>5, SeqEqual
<1> QED
  BY <1>2, <1>6 DEF s

LEMMA PopScopesStep ==
  ASSUME Inv, NEW k \in 1..Len(frames), frames' = SubSeq(frames, 1, k)
  PROVE  /\ Stack(frames') = SubSeq(Stack(frames), 1, k)
         /\ \A j \in 1..k : frames'[j] = frames[j]
         /\ Stack(frames') = [j \in 1..k |-> frames[j].asserted]
<1> DEFINE s == Stack(frames)
<1>1. frames \in Seq(FrameSet) /\ k \in 0..Len(frames) /\ k \in Nat /\ Len(frames) \in Nat
  BY Sizes
<1>2. /\ frames' \in Seq(FrameSet) /\ Len(frames') = k
      /\ \A j \in 1..k : frames'[j] = frames[j]
  BY <1>1, Prefix
<1>3. /\ s \in Seq(SUBSET Constraints) /\ Len(s) = Len(frames)
      /\ \A j \in 1..Len(frames) : s[j] = frames[j].asserted
      /\ Stack(frames') \in Seq(SUBSET Constraints) /\ Len(Stack(frames')) = k
      /\ \A j \in 1..k : Stack(frames')[j] = frames'[j].asserted
  BY <1>1, <1>2, StackFacts
<1> HIDE DEF s
<1>4. /\ SubSeq(s, 1, k) \in Seq(SUBSET Constraints) /\ Len(SubSeq(s, 1, k)) = k
      /\ \A j \in 1..k : SubSeq(s, 1, k)[j] = s[j]
  BY <1>1, <1>3, Prefix
<1>5. \A j \in 1..k : Stack(frames')[j] = SubSeq(s, 1, k)[j]
  <2>1. \A j \in 1..k : j \in 1..Len(frames)
    BY <1>1
  <2> QED
    BY <1>2, <1>3, <1>4, <2>1
<1>6. Stack(frames') = SubSeq(s, 1, k)
  BY <1>3, <1>4, <1>5, SeqEqual
<1>7. Stack(frames') = [j \in 1..k |-> frames[j].asserted]
  BY <1>2 DEF Stack
<1> QED
  BY <1>2, <1>6, <1>7 DEF s

LEMMA PushStep ==
  ASSUME Inv, Push
  PROVE  /\ Stack(frames') = Append(Stack(frames), {})
         /\ Opened(blocks', frames') = Opened(blocks, frames)
<1>1. OpenScope /\ UNCHANGED blocks
  BY DEF Push
<1>2. \A i \in 1..Len(blocks) : \A j \in 1..blocks[i] : j \in 1..Len(frames)
  BY Below
<1>3. Opened(blocks, frames') = Opened(blocks, frames)
  BY <1>1, <1>2, OpenScopeStep, OpenedSame
<1> QED
  BY <1>1, <1>3, OpenScopeStep

LEMMA EnterBlockStep ==
  ASSUME Inv, EnterBlock
  PROVE  /\ Stack(frames') = Append(Stack(frames), {})
         /\ Opened(blocks', frames') = Append(Opened(blocks, frames), Stack(frames))
<1> DEFINE m == Len(blocks)
<1>1. OpenScope /\ blocks' = Append(blocks, Len(frames))
  BY DEF EnterBlock
<1>2. /\ Stack(frames') = Append(Stack(frames), {})
      /\ \A j \in 1..Len(frames) : frames'[j] = frames[j]
  BY <1>1, OpenScopeStep
<1>3. /\ blocks' \in Seq(Nat) /\ Len(blocks') = m + 1 /\ m \in Nat /\ Len(frames) \in Nat
      /\ \A i \in 1..m : blocks'[i] = blocks[i]
      /\ blocks'[m + 1] = Len(frames)
  BY <1>1, Below, LenProperties, AppendProperties
<1>4. \A i \in 1..Len(blocks') : \A j \in 1..blocks'[i] : j \in 1..Len(frames)
  <2>1. \A i \in 1..(m + 1) : i = m + 1 \/ i \in 1..m
    BY <1>3
  <2>2. \A i \in 1..m : blocks[i] \in Nat /\ blocks[i] <= Len(frames)
    BY Below
  <2>3. \A i \in 1..(m + 1) : blocks'[i] \in Nat /\ blocks'[i] <= Len(frames)
    BY <1>3, <2>1, <2>2
  <2> QED
    BY <1>3, <2>3
<1>5. Opened(blocks', frames') = Opened(blocks', frames)
  BY <1>2, <1>4, OpenedSame
<1>6. Opened(Append(blocks, Len(frames)), frames) = Append(Opened(blocks, frames), Stack(frames))
  BY Below, OpenedAppend
<1> QED
  BY <1>1, <1>2, <1>5, <1>6

\* The stack is cut to k frames under the blocks bs.
LEMMA CutStep ==
  ASSUME Inv, NEW k \in 1..Len(frames), frames' = SubSeq(frames, 1, k),
         NEW bs \in Seq(Nat), \A i \in 1..Len(bs) : bs[i] <= Len(frames), blocks' = Above(bs, k)
  PROVE  /\ Stack(frames') = SubSeq(Stack(frames), 1, k)
         /\ Opened(blocks', frames') = Abstract!Above(Opened(bs, frames), k)
         /\ Len(Stack(frames)) = Len(frames)
<1>1. /\ frames \in Seq(FrameSet) /\ k \in Nat
      /\ \A i \in 1..Len(bs) : bs[i] \in Nat
  BY Below, ElementOfSeq
<1>2. /\ Stack(frames') = SubSeq(Stack(frames), 1, k)
      /\ \A j \in 1..k : frames'[j] = frames[j]
  BY PopScopesStep
<1>3. /\ Len(blocks') = Len(bs)
      /\ \A i \in 1..Len(bs) : blocks'[i] = IF bs[i] < k THEN bs[i] ELSE 0
  BY <1>1, AboveFacts
<1>4. \A i \in 1..Len(blocks') : \A j \in 1..blocks'[i] : j \in 1..k
  BY <1>1, <1>3
<1>5. Opened(blocks', frames') = Opened(blocks', frames)
  BY <1>2, <1>4, OpenedSame
<1>6. Opened(Above(bs, k), frames) = Abstract!Above(Opened(bs, frames), k)
  BY <1>1, OpenedAbove
<1> QED
  BY <1>1, <1>2, <1>5, <1>6, StackFacts

LEMMA PopStep ==
  ASSUME Inv, NEW n \in 1..MaxScopes, Pop(n)
  PROVE  /\ n \in 1..Len(Stack(frames)) /\ n < Len(Stack(frames))
         /\ Stack(frames') = SubSeq(Stack(frames), 1, Len(Stack(frames)) - n)
         /\ Opened(blocks', frames')
               = Abstract!Above(Opened(blocks, frames), Len(Stack(frames)) - n)
<1> DEFINE k == Len(frames) - n
<1>1. /\ n \in 1..NumScopes /\ frames' = SubSeq(frames, 1, k) /\ blocks' = Above(blocks, k)
      /\ Len(frames) = NumScopes + 1 /\ NumScopes \in Nat
  BY Sizes DEF Pop, PopScopes
<1>2. k \in 1..Len(frames) /\ n \in 1..Len(frames) /\ n < Len(frames)
  BY <1>1
<1> HIDE DEF k
<1>3. /\ Stack(frames') = SubSeq(Stack(frames), 1, k)
      /\ Opened(blocks', frames') = Abstract!Above(Opened(blocks, frames), k)
      /\ Len(Stack(frames)) = Len(frames)
  BY <1>1, <1>2, Below, CutStep
<1> QED
  BY <1>2, <1>3 DEF k

\* The finally's pop discards the innermost scope; when that is the block's own, what
\* is left is what was there at its entry.
LEMMA LeaveBlockStep ==
  ASSUME Inv, LeaveBlock
  PROVE  LET open == Opened(blocks, frames)
             m == Len(open)
             stack == Stack(frames)
         IN  /\ open # <<>> /\ Len(stack) > 1
             /\ Stack(frames') = SubSeq(stack, 1, Len(stack) - 1)
             /\ open[m] # <<>> /\ Len(stack) = Len(open[m]) + 1 => Stack(frames') = open[m]
             /\ Opened(blocks', frames')
                   = Abstract!Above(SubSeq(open, 1, m - 1), Len(stack) - 1)
<1> DEFINE m == Len(blocks)
           k == Len(frames) - 1
           open == Opened(blocks, frames)
<1>1. /\ blocks # <<>> /\ frames' = SubSeq(frames, 1, k) /\ blocks' = Above(Outer, k)
      /\ Len(frames) = NumScopes + 1 /\ NumScopes \in Nat \ {0}
  BY Sizes DEF LeaveBlock, PopScopes
<1>2. k \in 1..Len(frames) /\ k = NumScopes
  BY <1>1
<1>3. /\ Outer \in Seq(Nat) /\ Len(Outer) = m - 1 /\ m \in 1..m /\ m \in Nat \ {0}
      /\ \A i \in 1..(m - 1) : Outer[i] = blocks[i]
  BY <1>1, OuterFacts
<1>4. \A i \in 1..Len(Outer) : Outer[i] <= Len(frames)
  <2>1. \A i \in 1..(m - 1) : i \in 1..m
    BY <1>3
  <2> QED
    BY <1>3, <2>1, Below
<1> HIDE DEF k
<1>5. /\ Stack(frames') = SubSeq(Stack(frames), 1, k)
      /\ Opened(blocks', frames') = Abstract!Above(Opened(Outer, frames), k)
      /\ Len(Stack(frames)) = Len(frames)
  BY <1>1, <1>2, <1>3, <1>4, CutStep
<1>6. Opened(Outer, frames) = SubSeq(open, 1, m - 1)
  <2>1. m - 1 \in 0..Len(blocks)
    BY <1>3
  <2> QED
    BY <2>1, Below, OpenedPrefix DEF Outer
<1>7. /\ open \in Seq(Assertions) /\ Len(open) = m /\ Len(open[m]) = blocks[m]
      /\ open[m] = [j \in 1..blocks[m] |-> frames[j].asserted]
  <2>1. /\ open \in Seq(Assertions) /\ Len(open) = m
        /\ \A i \in 1..m : /\ Len(open[i]) = blocks[i]
                           /\ open[i] = [j \in 1..blocks[i] |-> frames[j].asserted]
    BY Below, OpenedFacts
  <2> HIDE DEF open
  <2> QED
    BY <1>3, <2>1
<1>8. Stack(frames') = [j \in 1..k |-> frames[j].asserted]
  BY <1>1, <1>2, PopScopesStep
<1>9. open # <<>>
  BY <1>3, <1>7, EmptySeq
<1>10. Len(Stack(frames)) = Len(open[m]) + 1 => Stack(frames') = open[m]
  <2> SUFFICES ASSUME Len(Stack(frames)) = Len(open[m]) + 1 PROVE Stack(frames') = open[m]
    OBVIOUS
  <2>1. k = blocks[m]
    BY <1>1, <1>3, <1>5, <1>7, Below DEF k
  <2> QED
    BY <1>7, <1>8, <2>1
<1>11. k = Len(Stack(frames)) - 1 /\ Len(Stack(frames)) > 1
  BY <1>1, <1>5 DEF k
<1> HIDE DEF open
<1> QED
  BY <1>5, <1>6, <1>7, <1>9, <1>10, <1>11 DEF open

LEMMA LeaveBlockFailsStep ==
  ASSUME Inv, LeaveBlockFails
  PROVE  LET open == Opened(blocks, frames)
         IN  /\ open # <<>> /\ Opened(blocks', frames') = SubSeq(open, 1, Len(open) - 1)
             /\ Stack(frames') = Stack(frames)
             /\ raising' = "pop" \/ (Len(Stack(frames)) = 1 /\ UNCHANGED raising)
<1> DEFINE m == Len(blocks)
           open == Opened(blocks, frames)
<1>1. /\ blocks # <<>> /\ blocks' = Outer /\ frames' = frames
      /\ raising' = "pop" \/ (NumScopes = 0 /\ UNCHANGED raising)
  BY DEF LeaveBlockFails
<1>2. m \in Nat \ {0} /\ m - 1 \in 0..m
  BY <1>1, OuterFacts
<1>3. Opened(Outer, frames) = SubSeq(open, 1, m - 1)
  BY <1>2, Below, OpenedPrefix DEF Outer
<1>4. open \in Seq(Assertions) /\ Len(open) = m
  BY Below, OpenedFacts
<1>5. Len(Stack(frames)) = NumScopes + 1 /\ NumScopes \in Nat
  BY Sizes, StackFacts
<1>6. open # <<>>
  BY <1>2, <1>4, EmptySeq
<1> HIDE DEF open
<1> QED
  BY <1>1, <1>3, <1>4, <1>5, <1>6 DEF open

LEMMA ResetStep ==
  ASSUME Inv, Reset
  PROVE  /\ Stack(frames') = << {} >>
         /\ Opened(blocks', frames') = Abstract!Above(Opened(blocks, frames), 1)
<1>1. frames' = <<Frame(0)>> /\ blocks' = Above(blocks, 1)
  BY DEF Reset
<1>2. /\ Len(blocks') = Len(blocks)
      /\ \A i \in 1..Len(blocks) : blocks'[i] = IF blocks[i] < 1 THEN blocks[i] ELSE 0
      /\ \A i \in 1..Len(blocks) : blocks[i] \in Nat
  BY <1>1, Below, AboveFacts
<1>3. \A i \in 1..Len(blocks') : 1..blocks'[i] = {}
  BY <1>2
<1>4. Opened(blocks', frames') = Opened(blocks', frames)
  BY <1>3, OpenedSame
<1>5. Opened(Above(blocks, 1), frames) = Abstract!Above(Opened(blocks, frames), 1)
  BY Below, OpenedAbove
<1>6. Stack(frames') = << {} >>
  BY <1>1, FirstStack
<1> QED
  BY <1>1, <1>4, <1>5, <1>6

\* The scopes are a stack of assertions, for any constraints and any nesting: a block
\* whose body has closed what it opened, and no more, leaves no trace however it ends,
\* and any other one costs a scope, or says that there was none.
THEOREM FramesImplementStack == Spec => Promise
<1>1. Init => Abstract!Init
  <2> SUFFICES ASSUME Init PROVE Abstract!Init
    OBVIOUS
  <2>1. frames = <<Frame(0)>> /\ Len(blocks) = 0 /\ raising = "none"
    BY DEF Init
  <2>2. Stack(frames) = << {} >>
    BY <2>1, FirstStack
  <2>3. Opened(blocks, frames) = <<>>
    <3>1. Inv
      BY InitInv
    <3>2. /\ Opened(blocks, frames) \in Seq(Assertions)
          /\ Len(Opened(blocks, frames)) = Len(blocks)
      BY <3>1, Below, OpenedFacts
    <3> QED
      BY <2>1, <3>2, EmptySeq
  <2> QED
    BY <2>1, <2>2, <2>3 DEF Abstract!Init, Stack, Opened
<1>2. Inv /\ [Next]_vars => [Abstract!Next]_(Abstract!vars)
  <2> SUFFICES ASSUME Inv, [Next]_vars PROVE [Abstract!Next]_(Abstract!vars)
    OBVIOUS
  <2>1. ASSUME UNCHANGED <<frames, blocks, raising>> PROVE UNCHANGED Abstract!vars
    BY <2>1 DEF Abstract!vars
  <2>2. ASSUME NEW c \in Constraints, Add(c) PROVE Abstract!Next
    <3>1. UNCHANGED raising
      BY <2>2 DEF Add
    <3> QED
      BY <2>2, <3>1, AddStep DEF Abstract!Next, Abstract!Assert, Stack, Opened
  <2>3. ASSUME Push PROVE Abstract!Next
    <3>1. UNCHANGED raising
      BY <2>3 DEF Push
    <3> QED
      BY <2>3, <3>1, PushStep DEF Abstract!Next, Abstract!Push, Stack, Opened
  <2>4. ASSUME NEW n \in 1..MaxScopes, Pop(n) PROVE Abstract!Next
    <3>1. UNCHANGED raising
      BY <2>4 DEF Pop
    <3>2. n \in 1..Len(Stack(frames)) /\ Abstract!Pop(n)
      BY <2>4, <3>1, PopStep DEF Abstract!Pop, Stack, Opened
    <3> QED
      BY <3>2 DEF Abstract!Next, Stack
  <2>5. ASSUME Reset PROVE Abstract!Next
    <3>1. UNCHANGED raising
      BY <2>5 DEF Reset
    <3> QED
      BY <2>5, <3>1, ResetStep DEF Abstract!Next, Abstract!Reset, Stack, Opened
  <2>6. ASSUME EnterBlock PROVE Abstract!Next
    <3>1. UNCHANGED raising
      BY <2>6 DEF EnterBlock
    <3> QED
      BY <2>6, <3>1, EnterBlockStep DEF Abstract!Next, Abstract!Begin, Stack, Opened
  <2>7. ASSUME LeaveBlock PROVE Abstract!Next
    <3>1. UNCHANGED raising
      BY <2>7 DEF LeaveBlock
    <3>2. Abstract!End
      BY <2>7, <3>1, LeaveBlockStep
         DEF Abstract!End, Abstract!Level, Abstract!Outer, Stack, Opened
    <3> QED
      BY <3>2 DEF Abstract!Next
  <2>8. ASSUME LeaveBlockFails PROVE Abstract!Next
    <3>1. Abstract!Abandon
      BY <2>8, LeaveBlockFailsStep DEF Abstract!Abandon, Abstract!Outer, Stack, Opened
    <3> QED
      BY <3>1 DEF Abstract!Next
  <2>9. ASSUME Fail \/ Catch PROVE Abstract!Next
    BY <2>9 DEF Fail, Catch, Abstract!Next, Abstract!Raise, Abstract!Catch
  <2>10. \/ \E t \in Terms : Maximize(t)
         \/ \E g \in Groups : AddSoft(g)
         \/ \E h \in handles : DropHandle(h)
         \/ UNCHANGED vars
         => UNCHANGED <<frames, blocks, raising>>
    BY DEF Maximize, AddSoft, DropHandle, vars
  <2> QED
    BY <2>1, <2>2, <2>3, <2>4, <2>5, <2>6, <2>7, <2>8, <2>9, <2>10 DEF Next
<1> QED
  BY <1>1, <1>2, Safety, PTL DEF Spec, Promise, Abstract!Spec
=============================================================================
