--------------------------- MODULE SortHoldProofs ---------------------------
(***************************************************************************)
(* SortHold, for any addresses, types, signatures and nesting: whatever    *)
(* Z3 reclaims between two calls, the sorts and declarations in use are    *)
(* still there, and the holds balance.                                     *)
(***************************************************************************)
EXTENDS SortHold, SequenceTheorems, FiniteSetTheorems, TLAPS

-----------------------------------------------------------------------------
(* The inductive invariant.                                                *)

Kinds == {"array", "seq", "decl", "const", "rec"}

\* Sequences whose elements no constant set contains: descriptors of nodes are
\* nested as deep as the types are.
IsSeq(s) == Len(s) \in Nat /\ s = [i \in 1..Len(s) |-> s[i]]

Typed ==
    /\ refs \in [Addrs -> Nat] /\ lost \in [Addrs -> Nat]
    /\ terms \in [Addrs -> 0..MaxTerms]
    /\ IsSeq(defining)
    /\ \A i \in 1..Len(defining) : defining[i].at \in Addrs /\ defining[i].is # Free

\* Who collects sorts: the outermost call is the program's, those inside it are
\* sortOf's, and each but the innermost still waits for the sort of the next.
FrameOK(f, i) ==
    /\ f = [kind |-> f.kind, want |-> f.want, got |-> f.got]
    /\ f.kind \in Kinds /\ f.want \in Wants(f.kind)
    /\ MakesSort(f.kind) <=> i > 1
    /\ IsSeq(f.got) /\ Len(f.got) <= f.want
    /\ i < Depth => Len(f.got) < f.want
    /\ \A j \in 1..Len(f.got) : f.got[j].at \in Addrs /\ f.got[j].is # Free
Calls ==
    /\ IsSeq(frames) /\ \A i \in 1..Depth : FrameOK(frames[i], i)
    /\ ret # None =>
          Depth > 0 /\ Len(Top.got) < Top.want /\ ret.at \in Addrs /\ ret.is # Free

\* Z3's nodes, what each one is and what is below it.  No two live nodes are alike
\* (hash-consing); the arguments of a live node are live; and below leads to
\* itself, to its arguments and to what is below them, so that whoever keeps a node
\* keeps all that it is built from.
ArgsOf(what, node) == {k \in Addrs : \E i \in DOMAIN node.args : what[k] = node.args[i]}
ArgsLive(what, node) ==
    \A i \in DOMAIN node.args : node.args[i] # Free /\ \E k \in Addrs : what[k] = node.args[i]

Alike(what) == \A a, b \in Addrs : what[a] = what[b] /\ what[a] # Free => a = b
Allocated(what, nodes) ==
    \A a \in Addrs : /\ what[a] = Free <=> nodes[a] = {}
                     /\ what[a] # Free => a \in nodes[a]
Transitive(what, nodes) ==
    \A a \in Addrs : \A b \in nodes[a] : what[b] # Free /\ nodes[b] \subseteq nodes[a]
Present(what) == \A a \in Addrs : what[a] # Free => ArgsLive(what, what[a])
Linked(what, nodes) ==
    \A a \in Addrs : what[a] # Free =>
       nodes[a] = {a} \cup UNION {nodes[k] : k \in ArgsOf(what, what[a])}
Heap(what, nodes) ==
    /\ what = [a \in Addrs |-> what[a]] /\ nodes \in [Addrs -> SUBSET Addrs]
    /\ Alike(what) /\ Allocated(what, nodes) /\ Transitive(what, nodes)
    /\ Present(what) /\ Linked(what, nodes)

Inv == /\ TypeOK /\ Typed /\ Calls /\ Heap(is, below)
       /\ SortsLive /\ DefinedLive /\ HoldsBalance

-----------------------------------------------------------------------------
(* Sequences.                                                              *)

LEMMA IsSeqOf == ASSUME NEW s, IsSeq(s) PROVE s \in Seq({s[i] : i \in 1..Len(s)})
<1> DEFINE n == Len(s)
           S == {s[i] : i \in 1..n}
<1>1. n \in Nat /\ s = [i \in 1..n |-> s[i]]
  BY DEF IsSeq
<1> HIDE DEF n
<1>2. [i \in 1..n |-> s[i]] \in [1..n -> S]
  OBVIOUS
<1>3. s \in [1..n -> S]
  BY <1>1, <1>2
<1> QED
  BY <1>1, <1>3, SeqDef DEF n

LEMMA SeqIs == ASSUME NEW S, NEW s \in Seq(S) PROVE IsSeq(s)
BY LenProperties DEF IsSeq

LEMMA SeqEmpty == IsSeq(<<>>) /\ Len(<<>>) = 0
BY EmptySeq, SeqIs

LEMMA SeqAppend ==
  ASSUME NEW s, IsSeq(s), NEW e
  PROVE  /\ IsSeq(Append(s, e)) /\ Len(Append(s, e)) = Len(s) + 1
         /\ \A i \in 1..Len(s) : Append(s, e)[i] = s[i]
         /\ Append(s, e)[Len(s) + 1] = e
<1> DEFINE S == {s[i] : i \in 1..Len(s)} \cup {e}
<1>1. s \in Seq({s[i] : i \in 1..Len(s)})
  BY IsSeqOf
<1>2. s \in Seq(S)
  BY <1>1, SeqMonotonic
<1> HIDE DEF S
<1>3. e \in S
  BY DEF S
<1>4. /\ Append(s, e) \in Seq(S) /\ Len(Append(s, e)) = Len(s) + 1
      /\ \A i \in 1..Len(s) : Append(s, e)[i] = s[i]
      /\ Append(s, e)[Len(s) + 1] = e
  BY <1>2, <1>3, AppendProperties
<1> QED
  BY <1>4, SeqIs

LEMMA SeqPop ==
  ASSUME NEW s, IsSeq(s), Len(s) > 0
  PROVE  /\ IsSeq(SubSeq(s, 1, Len(s) - 1)) /\ Len(SubSeq(s, 1, Len(s) - 1)) = Len(s) - 1
         /\ \A i \in 1..(Len(s) - 1) : SubSeq(s, 1, Len(s) - 1)[i] = s[i]
<1> DEFINE S == {s[i] : i \in 1..Len(s)}
           m == Len(s) - 1
<1>1. m \in Nat /\ \A i \in 1..m : s[i] \in S
  BY DEF IsSeq
<1> HIDE DEF S, m
<1>2. /\ SubSeq(s, 1, m) \in Seq(S) /\ Len(SubSeq(s, 1, m)) = m
      /\ \A i \in 1..m : SubSeq(s, 1, m)[i] = s[i]
  BY <1>1, SubSeqProperties
<1>3. IsSeq(SubSeq(s, 1, m))
  BY <1>2, SeqIs
<1> QED
  BY <1>2, <1>3 DEF m

Replaced(s, i, e) == [s EXCEPT ![i] = e]

LEMMA SeqExcept ==
  ASSUME NEW s, IsSeq(s), NEW i \in 1..Len(s), NEW e
  PROVE  /\ IsSeq(Replaced(s, i, e)) /\ Len(Replaced(s, i, e)) = Len(s)
         /\ \A j \in 1..Len(s) : Replaced(s, i, e)[j] = IF j = i THEN e ELSE s[j]
<1> DEFINE S == {s[j] : j \in 1..Len(s)} \cup {e}
<1>1. s \in Seq({s[j] : j \in 1..Len(s)})
  BY IsSeqOf
<1>2. s \in Seq(S)
  BY <1>1, SeqMonotonic
<1> HIDE DEF S
<1>3. e \in S
  BY DEF S
<1>4. /\ Replaced(s, i, e) \in Seq(S) /\ Len(Replaced(s, i, e)) = Len(s)
      /\ \A j \in 1..Len(s) : Replaced(s, i, e)[j] = IF j = i THEN e ELSE s[j]
  BY <1>2, <1>3, ExceptSeq DEF Replaced
<1>5. IsSeq(Replaced(s, i, e))
  BY <1>4, SeqIs
<1> QED
  BY <1>4, <1>5

-----------------------------------------------------------------------------
(* Counting holds.                                                         *)

\* The positions of s, a frame's sorts or the declarations being defined, that hold a.
Positions(s, a) == {i \in 1..Len(s) : s[i].at = a}

LEMMA PositionsFinite ==
  ASSUME NEW s, IsSeq(s), NEW a
  PROVE  /\ IsFiniteSet(Positions(s, a)) /\ Cardinality(Positions(s, a)) \in Nat
         /\ (\E i \in 1..Len(s) : s[i].at = a) => Cardinality(Positions(s, a)) >= 1
         /\ Len(s) = 0 => Cardinality(Positions(s, a)) = 0
<1> Len(s) \in Nat
  BY DEF IsSeq
<1>1. IsFiniteSet(1..Len(s))
  BY FS_Interval
<1>2. Positions(s, a) \in SUBSET (1..Len(s))
  BY DEF Positions
<1>3. IsFiniteSet(Positions(s, a))
  BY <1>1, <1>2, FS_Subset
<1>4. Cardinality(Positions(s, a)) \in Nat
  BY <1>3, FS_CardinalityType
<1>5. Cardinality(Positions(s, a)) = 0 <=> Positions(s, a) = {}
  BY <1>3, FS_EmptySet
<1> QED
  BY <1>3, <1>4, <1>5 DEF Positions

LEMMA PositionsLast ==
  ASSUME NEW s, IsSeq(s), NEW t, Len(t) = Len(s) + 1, \A i \in 1..Len(s) : t[i] = s[i],
         NEW a
  PROVE  Cardinality(Positions(t, a)) =
            Cardinality(Positions(s, a)) + IF t[Len(s) + 1].at = a THEN 1 ELSE 0
<1>1. Len(s) \in Nat
  BY DEF IsSeq
<1>2. IsFiniteSet(Positions(s, a)) /\ Cardinality(Positions(s, a)) \in Nat
  BY PositionsFinite
<1>3. CASE t[Len(s) + 1].at = a
  <2>1. Positions(t, a) = Positions(s, a) \cup {Len(s) + 1} /\ Len(s) + 1 \notin Positions(s, a)
    BY <1>1, <1>3 DEF Positions
  <2>2. Cardinality(Positions(s, a) \cup {Len(s) + 1}) = Cardinality(Positions(s, a)) + 1
    BY <1>2, <2>1, FS_AddElement
  <2> QED
    BY <1>3, <2>1, <2>2
<1>4. CASE t[Len(s) + 1].at # a
  <2>1. Positions(t, a) = Positions(s, a)
    BY <1>1, <1>4 DEF Positions
  <2> QED
    BY <1>2, <1>4, <2>1
<1> QED
  BY <1>3, <1>4

\* The holds on a of the calls fs.
Hand(fs, a) ==
    {p \in (1..Len(fs)) \X (1..(MaxArgs + 2)) :
       LET f == fs[p[1]]
       IN  Holds(f.kind) /\ p[2] <= Len(f.got) /\ f.got[p[2]].at = a}

LEMMA InHandIs == ASSUME NEW a PROVE InHand(a) = Cardinality(Hand(frames, a))
BY DEF InHand, Hand, Depth

LEMMA HandFinite ==
  ASSUME NEW fs, IsSeq(fs), NEW a
  PROVE  /\ IsFiniteSet(Hand(fs, a)) /\ Cardinality(Hand(fs, a)) \in Nat
         /\ Cardinality(Hand(fs, a)) = 0 <=> Hand(fs, a) = {}
<1>1. MaxArgs + 2 \in Nat /\ Len(fs) \in Nat
  BY BoundAssumption DEF IsSeq
<1>2. IsFiniteSet(1..Len(fs)) /\ IsFiniteSet(1..(MaxArgs + 2))
  BY <1>1, FS_Interval
<1>3. IsFiniteSet((1..Len(fs)) \X (1..(MaxArgs + 2)))
  BY <1>2, FS_Product
<1>4. Hand(fs, a) \in SUBSET ((1..Len(fs)) \X (1..(MaxArgs + 2)))
  BY DEF Hand
<1>5. IsFiniteSet(Hand(fs, a))
  BY <1>3, <1>4, FS_Subset
<1> QED
  BY <1>5, FS_CardinalityType, FS_EmptySet

\* Calls gs are the calls fs and one call more, f.
Adds(gs, fs, f) ==
    /\ Len(gs) = Len(fs) + 1 /\ gs[Len(fs) + 1] = f
    /\ \A i \in 1..Len(fs) : gs[i] = fs[i]

\* The holds of calls gs are those of the calls fs and of the one that follows them.
LEMMA HandLast ==
  ASSUME NEW fs, IsSeq(fs), NEW gs, IsSeq(gs), NEW f, Adds(gs, fs, f),
         IsSeq(f.got), Len(f.got) <= MaxArgs + 2, NEW a
  PROVE  /\ Cardinality(Hand(gs, a)) = Cardinality(Hand(fs, a)) + HeldIn(f, a)
         /\ HeldIn(f, a) \in Nat
<1> DEFINE n == Len(fs) + 1
           held == {p \in {n} \X Positions(f.got, a) : Holds(f.kind)}
<1> Len(gs) = Len(fs) + 1 /\ f = gs[Len(fs) + 1] /\ \A i \in 1..Len(fs) : gs[i] = fs[i]
  BY DEF Adds
<1>1. Len(fs) \in Nat /\ Len(f.got) \in Nat /\ MaxArgs \in Nat
  BY BoundAssumption DEF IsSeq
<1>2. /\ IsFiniteSet(Hand(fs, a)) /\ Cardinality(Hand(fs, a)) \in Nat
      /\ IsFiniteSet(Positions(f.got, a)) /\ Cardinality(Positions(f.got, a)) \in Nat
  BY HandFinite, PositionsFinite
<1>3. IsFiniteSet(held) /\ Cardinality(held) = HeldIn(f, a)
  <2>1. CASE Holds(f.kind)
    <3>1. held = {n} \X Positions(f.got, a)
      BY <2>1
    <3>2. IsFiniteSet({n}) /\ Cardinality({n}) = 1
      BY FS_Singleton
    <3> HIDE DEF n, held
    <3>3. /\ IsFiniteSet({n} \X Positions(f.got, a))
          /\ Cardinality({n} \X Positions(f.got, a)) = 1 * Cardinality(Positions(f.got, a))
      BY <1>2, <3>2, FS_Product
    <3> QED
      BY <1>2, <2>1, <3>1, <3>3 DEF HeldIn, Positions
  <2>2. CASE ~Holds(f.kind)
    <3>1. held = {}
      BY <2>2
    <3> QED
      BY <2>2, <3>1, FS_EmptySet DEF HeldIn
  <2> QED
    BY <2>1, <2>2
<1>4. Hand(gs, a) = Hand(fs, a) \cup held /\ Hand(fs, a) \cap held = {}
  <2>1. ASSUME NEW i \in 1..Len(fs), NEW j \in 1..(MaxArgs + 2)
        PROVE  <<i, j>> \in Hand(gs, a) <=> <<i, j>> \in Hand(fs, a)
    BY <1>1 DEF Hand
  <2>2. ASSUME NEW j \in 1..(MaxArgs + 2)
        PROVE  <<n, j>> \in Hand(gs, a) <=> <<n, j>> \in held
    BY <1>1 DEF Hand, Positions
  <2>3. /\ Hand(gs, a) \subseteq (1..n) \X (1..(MaxArgs + 2))
        /\ Hand(fs, a) \subseteq (1..Len(fs)) \X (1..(MaxArgs + 2))
        /\ held \subseteq {n} \X (1..(MaxArgs + 2))
    BY <1>1 DEF Hand, Positions
  <2>4. 1..n = (1..Len(fs)) \cup {n} /\ n \notin 1..Len(fs)
    BY <1>1
  <2> HIDE DEF held, n
  <2> QED
    BY <2>1, <2>2, <2>3, <2>4
<1> HIDE DEF held
<1>5. Cardinality(Hand(gs, a)) =
        Cardinality(Hand(fs, a)) + Cardinality(held) - Cardinality(Hand(fs, a) \cap held)
  BY <1>2, <1>3, <1>4, FS_Union
<1>6. Cardinality(Hand(fs, a) \cap held) = 0
  BY <1>4, FS_EmptySet
<1>7. HeldIn(f, a) \in Nat
  BY <1>2, <1>3, FS_CardinalityType
<1> QED
  BY <1>2, <1>3, <1>5, <1>6, <1>7

-----------------------------------------------------------------------------
(* The calls in progress.                                                  *)

LEMMA WantsFew ==
  ASSUME NEW kind, NEW want \in Wants(kind)
  PROVE  /\ want \in Nat /\ 1 <= want /\ want <= MaxArgs + 2
         /\ kind \in Kinds /\ ~Holds(kind) => want = 1
<1> MaxArgs \in Nat
  BY BoundAssumption
<1>1. CASE kind = "array"
  BY <1>1 DEF Wants, Holds
<1>2. CASE kind = "decl"
  BY <1>2 DEF Wants, Holds, Declares
<1>3. CASE kind = "rec"
  BY <1>3 DEF Wants, Holds, Declares
<1>4. CASE kind \notin {"array", "decl", "rec"}
  BY <1>4 DEF Wants
<1> QED
  BY <1>1, <1>2, <1>3, <1>4

\* A call that still waits for a sort and has some already is one that holds them.
LEMMA Pending ==
  ASSUME Calls, NEW i \in 1..Depth,
         Len(frames[i].got) < frames[i].want, NEW j \in 1..Len(frames[i].got)
  PROVE  Holds(frames[i].kind)
<1>1. /\ frames[i].kind \in Kinds /\ frames[i].want \in Wants(frames[i].kind)
      /\ Len(frames[i].got) \in Nat
  BY DEF Calls, FrameOK, IsSeq
<1>2. frames[i].want \in Nat /\ (~Holds(frames[i].kind) => frames[i].want = 1)
  BY <1>1, WantsFew
<1> QED
  BY <1>1, <1>2

\* The innermost call, and the calls around it.
LEMMA Innermost ==
  ASSUME Calls, Depth > 0
  PROVE  LET outer == SubSeq(frames, 1, Depth - 1)
         IN  /\ Depth \in Nat /\ FrameOK(Top, Depth) /\ IsSeq(Top.got) /\ Len(Top.got) <= MaxArgs + 2
             /\ IsSeq(outer) /\ Len(outer) = Depth - 1
             /\ \A i \in 1..(Depth - 1) : outer[i] = frames[i]
             /\ \A a : /\ InHand(a) = Cardinality(Hand(outer, a)) + HeldIn(Top, a)
                       /\ Cardinality(Hand(outer, a)) \in Nat /\ HeldIn(Top, a) \in Nat
<1> DEFINE outer == SubSeq(frames, 1, Depth - 1)
<1>1. Depth \in Nat /\ IsSeq(frames) /\ FrameOK(Top, Depth)
  BY DEF Calls, IsSeq, Depth, Top
<1>2. /\ IsSeq(outer) /\ Len(outer) = Depth - 1
      /\ \A i \in 1..(Depth - 1) : outer[i] = frames[i]
  BY <1>1, SeqPop DEF Depth
<1>3. IsSeq(Top.got) /\ Len(Top.got) \in Nat /\ Len(Top.got) <= Top.want /\ Top.want \in Wants(Top.kind)
  BY <1>1 DEF FrameOK, IsSeq
<1>4. Top.want \in Nat /\ Top.want <= MaxArgs + 2 /\ MaxArgs \in Nat
  BY <1>3, WantsFew, BoundAssumption
<1>5. Len(Top.got) <= MaxArgs + 2
  BY <1>3, <1>4
<1> HIDE DEF outer
<1>6. ASSUME NEW a
      PROVE  /\ InHand(a) = Cardinality(Hand(outer, a)) + HeldIn(Top, a)
             /\ Cardinality(Hand(outer, a)) \in Nat /\ HeldIn(Top, a) \in Nat
  <2>1. Adds(frames, outer, Top)
    BY <1>1, <1>2 DEF Depth, Top, Adds
  <2>2. IsSeq(Top.got) /\ Len(Top.got) <= MaxArgs + 2 /\ IsSeq(outer) /\ IsSeq(frames)
    BY <1>1, <1>2, <1>3, <1>5
  <2>3. /\ Cardinality(Hand(frames, a)) = Cardinality(Hand(outer, a)) + HeldIn(Top, a)
        /\ HeldIn(Top, a) \in Nat
    BY <2>1, <2>2, HandLast
  <2> QED
    BY <1>2, <2>3, HandFinite, InHandIs
<1> QED
  BY <1>1, <1>2, <1>3, <1>5, <1>6 DEF outer

LEMMA HeldInIs ==
  \A f, a : HeldIn(f, a) = IF Holds(f.kind) THEN Cardinality(Positions(f.got, a)) ELSE 0
BY DEF HeldIn, Positions

\* One more sort in a frame, held if the frame's call holds its sorts.
LEMMA HeldMore ==
  ASSUME NEW f, IsSeq(f.got), NEW e, NEW g, g.kind = f.kind, g.got = Append(f.got, e), NEW a
  PROVE  HeldIn(g, a) = HeldIn(f, a) + IF Holds(f.kind) /\ e.at = a THEN 1 ELSE 0
<1>1. PICK s : s = f.got
  OBVIOUS
<1>2. PICK t : t = Append(s, e)
  OBVIOUS
<1>3. IsSeq(s)
  BY <1>1
<1>4. Len(t) = Len(s) + 1 /\ (\A i \in 1..Len(s) : t[i] = s[i]) /\ t[Len(s) + 1] = e
  BY <1>2, <1>3, SeqAppend
<1>5. Cardinality(Positions(t, a)) =
        Cardinality(Positions(s, a)) + IF t[Len(s) + 1].at = a THEN 1 ELSE 0
  BY <1>3, <1>4, PositionsLast
<1>6. Cardinality(Positions(s, a)) \in Nat
  BY <1>3, PositionsFinite
<1>7. /\ HeldIn(f, a) = IF Holds(f.kind) THEN Cardinality(Positions(s, a)) ELSE 0
      /\ HeldIn(g, a) = IF Holds(f.kind) THEN Cardinality(Positions(t, a)) ELSE 0
  BY <1>1, <1>2, HeldInIs
<1> QED
  BY <1>4, <1>5, <1>6, <1>7

\* A sort in the hand of one of the calls fs is counted.
LEMMA HandHas ==
  ASSUME NEW fs, IsSeq(fs), NEW i \in 1..Len(fs), Holds(fs[i].kind),
         NEW j \in 1..Len(fs[i].got), j <= MaxArgs + 2
  PROVE  Cardinality(Hand(fs, fs[i].got[j].at)) >= 1
<1>1. <<i, j>> \in Hand(fs, fs[i].got[j].at)
  BY DEF Hand
<1>2. Hand(fs, fs[i].got[j].at) # {}
  BY <1>1
<1>3. /\ Cardinality(Hand(fs, fs[i].got[j].at)) \in Nat
      /\ Cardinality(Hand(fs, fs[i].got[j].at)) # 0
  BY <1>2, HandFinite
<1> QED
  BY <1>3

LEMMA NoneHeld == ASSUME Len(frames) = 0, IsSeq(frames), NEW a PROVE InHand(a) = 0
<1>1. Hand(frames, a) = {}
  BY DEF Hand
<1> QED
  BY <1>1, InHandIs, HandFinite

-----------------------------------------------------------------------------
(* Z3's memory.                                                            *)

\* What a collection leaves is a heap; and whoever is counted, or is the last
\* result, stays what it is with all that is below it.
LEMMA CollectHeap ==
  ASSUME NEW what, NEW nodes, Heap(what, nodes), NEW r, NEW l, Collect(nodes, what, r, l)
  PROVE  /\ Heap(is', below') /\ refs' = r /\ last' = l
         /\ \A a \in Addrs : (r[a] > 0 \/ a = l) /\ what[a] # Free => is'[a] = what[a]
<1> DEFINE kept == UNION {nodes[a] : a \in {b \in Addrs : r[b] > 0 \/ b = l}}
<1> USE DEF Heap
<1>1. /\ refs' = r /\ last' = l
      /\ below' = [a \in Addrs |-> IF a \in kept THEN nodes[a] ELSE {}]
      /\ is' = [a \in Addrs |-> IF a \in kept THEN what[a] ELSE Free]
  BY DEF Collect
<1>2. kept \subseteq Addrs /\ \A a \in kept : what[a] # Free /\ nodes[a] \subseteq kept
  BY DEF Transitive
<1>3. \A a \in Addrs : (r[a] > 0 \/ a = l) /\ what[a] # Free => a \in kept
  BY DEF Allocated
<1> HIDE DEF kept
<1>4. /\ \A a \in kept : is'[a] = what[a] /\ below'[a] = nodes[a]
      /\ \A a \in Addrs \ kept : is'[a] = Free /\ below'[a] = {}
  BY <1>1, <1>2
<1>5. is' = [a \in Addrs |-> is'[a]] /\ below' \in [Addrs -> SUBSET Addrs]
  BY <1>1
<1>6. Alike(is')
  BY <1>2, <1>4 DEF Alike
<1>7. Allocated(is', below')
  BY <1>2, <1>4 DEF Allocated
<1>8. Transitive(is', below')
  BY <1>2, <1>4 DEF Transitive
<1>9. ASSUME NEW a \in kept, NEW i \in DOMAIN what[a].args, NEW k \in Addrs,
             what[k] = what[a].args[i]
      PROVE  k \in kept /\ what[k] # Free
  <2>1. a \in Addrs /\ what[a] # Free
    BY <1>2
  <2>2. what[k] # Free /\ k \in ArgsOf(what, what[a])
    BY <1>9, <2>1 DEF Present, ArgsLive, ArgsOf
  <2>3. nodes[a] = {a} \cup UNION {nodes[j] : j \in ArgsOf(what, what[a])}
    BY <2>1 DEF Linked
  <2>4. k \in nodes[a]
    BY <2>2, <2>3 DEF Allocated
  <2> QED
    BY <1>2, <2>2, <2>4
<1>10. Present(is')
  <2> SUFFICES ASSUME NEW a \in Addrs, is'[a] # Free, NEW i \in DOMAIN is'[a].args
               PROVE  is'[a].args[i] # Free /\ \E k \in Addrs : is'[k] = is'[a].args[i]
    BY DEF Present, ArgsLive
  <2>1. a \in kept /\ is'[a] = what[a]
    BY <1>4
  <2>2. PICK k \in Addrs : what[k] = what[a].args[i]
    BY <1>2, <2>1 DEF Present, ArgsLive
  <2>3. k \in kept /\ what[k] # Free
    BY <1>9, <2>1, <2>2
  <2> QED
    BY <1>4, <2>1, <2>2, <2>3
<1>11. Linked(is', below')
  <2> SUFFICES ASSUME NEW a \in Addrs, is'[a] # Free
               PROVE  below'[a] = {a} \cup UNION {below'[k] : k \in ArgsOf(is', is'[a])}
    BY DEF Linked
  <2>1. a \in kept /\ is'[a] = what[a] /\ below'[a] = nodes[a] /\ what[a] # Free
    BY <1>2, <1>4
  <2>2. ArgsOf(is', is'[a]) = ArgsOf(what, what[a])
    <3>1. ASSUME NEW k \in Addrs, NEW i \in DOMAIN what[a].args
          PROVE  is'[k] = what[a].args[i] <=> what[k] = what[a].args[i]
      <4>1. CASE k \in kept
        BY <1>4, <4>1
      <4>2. CASE k \notin kept
        <5>1. is'[k] = Free /\ what[a].args[i] # Free
          BY <1>4, <2>1, <4>2 DEF Present, ArgsLive
        <5> QED
          BY <1>9, <2>1, <4>2, <5>1
      <4> QED
        BY <4>1, <4>2
    <3> QED
      BY <2>1, <3>1 DEF ArgsOf
  <2>3. \A k \in ArgsOf(what, what[a]) : below'[k] = nodes[k]
    BY <1>4, <1>9, <2>1 DEF ArgsOf
  <2>4. {below'[k] : k \in ArgsOf(what, what[a])} = {nodes[k] : k \in ArgsOf(what, what[a])}
    BY <2>3
  <2> QED
    BY <2>1, <2>2, <2>4 DEF Linked
<1> QED
  BY <1>1, <1>2, <1>3, <1>4, <1>5, <1>6, <1>7, <1>8, <1>10, <1>11

\* An API call that returns a node of live arguments leaves a heap, in which
\* whatever is counted is what it was, and the node is what was asked for.
LEMMA ReturnsHeap ==
  ASSUME Heap(is, below), NEW a \in Addrs, NEW d, d # Free, ArgsLive(is, d),
         NEW kids, kids = ArgsOf(is, d), NEW r, Returns(a, d, kids, r)
  PROVE  /\ Heap(is', below') /\ refs' = r /\ last' = a /\ is'[a] = d
         /\ \A b \in Addrs : r[b] > 0 /\ is[b] # Free => is'[b] = is[b]
<1> DEFINE what == [is EXCEPT ![a] = d]
           nodes == [below EXCEPT ![a] = {a} \cup UNION {below[k] : k \in kids}]
<1> USE DEF Heap
<1>1. Collect(nodes, what, r, a)
  BY DEF Returns
<1>2. what[a] = d /\ \A b \in Addrs : b # a => what[b] = is[b]
  OBVIOUS
<1>3. CASE \E b \in Addrs : is[b] = d
  <2>1. is[a] = d
    BY <1>3 DEF Returns
  <2>2. below[a] = {a} \cup UNION {below[k] : k \in kids}
    BY <2>1 DEF Linked
  <2>3. what = is /\ nodes = below
    <3>1. what = [b \in Addrs |-> what[b]] /\ \A b \in Addrs : what[b] = is[b]
      BY <1>2, <2>1
    <3>2. what = is
      BY <3>1
    <3>3. nodes \in [Addrs -> SUBSET Addrs]
      BY <2>2
    <3>4. \A b \in Addrs : nodes[b] = below[b]
      BY <2>2
    <3> QED
      BY <3>2, <3>3, <3>4
  <2>4. Collect(below, is, r, a)
    BY <1>1, <2>3
  <2> QED
    BY <2>1, <2>4, CollectHeap
<1>4. CASE ~ \E b \in Addrs : is[b] = d
  <2>1. is[a] = Free /\ below[a] = {}
    BY <1>4 DEF Returns, Allocated
  <2>2. \A k \in kids : k \in Addrs /\ is[k] # Free /\ k # a
    BY <2>1 DEF ArgsOf, ArgsLive
  <2>3. \A b \in Addrs : a \notin below[b]
    BY <2>1 DEF Transitive
  <2>4. /\ nodes[a] = {a} \cup UNION {below[k] : k \in kids}
        /\ \A b \in Addrs : b # a => nodes[b] = below[b]
    OBVIOUS
  <2>5. what = [b \in Addrs |-> what[b]] /\ nodes \in [Addrs -> SUBSET Addrs]
    BY <2>2, <2>4
  <2> HIDE DEF what, nodes
  <2>6. Alike(what)
    BY <1>2, <1>4 DEF Alike
  <2>7. Allocated(what, nodes)
    BY <1>2, <2>4 DEF Allocated
  <2>8. \A b \in Addrs : \A c \in nodes[b] : c \in Addrs
    BY <2>5
  <2>9. Transitive(what, nodes)
    <3> SUFFICES ASSUME NEW b \in Addrs, NEW c \in nodes[b]
                 PROVE  what[c] # Free /\ nodes[c] \subseteq nodes[b]
      BY DEF Transitive
    <3>1. CASE b # a
      BY <1>2, <2>3, <2>4, <3>1 DEF Transitive
    <3>2. CASE b = a /\ c = a
      BY <1>2, <3>2
    <3>3. CASE b = a /\ c # a
      <4>1. PICK k \in kids : c \in below[k]
        BY <2>4, <3>3
      <4>2. is[c] # Free /\ below[c] \subseteq below[k] /\ c \in Addrs
        BY <2>2, <4>1 DEF Transitive
      <4>3. below[k] \subseteq nodes[a] /\ nodes[c] = below[c] /\ what[c] = is[c]
        BY <1>2, <2>4, <3>3, <4>1, <4>2
      <4> QED
        BY <3>3, <4>2, <4>3
    <3> QED
      BY <3>1, <3>2, <3>3
  <2>10. ASSUME NEW node, ArgsLive(is, node)
         PROVE  ArgsLive(what, node) /\ ArgsOf(what, node) = ArgsOf(is, node) /\ a \notin ArgsOf(is, node)
    <3>1. ASSUME NEW k \in Addrs, NEW i \in DOMAIN node.args
          PROVE  what[k] = node.args[i] <=> is[k] = node.args[i]
      <4>1. node.args[i] # Free /\ node.args[i] # d
        BY <1>4, <2>10 DEF ArgsLive
      <4> QED
        BY <1>2, <2>1, <4>1
    <3>2. ArgsOf(what, node) = ArgsOf(is, node)
      BY <3>1 DEF ArgsOf
    <3>3. ArgsLive(what, node)
      BY <2>10, <3>1 DEF ArgsLive
    <3>4. a \notin ArgsOf(is, node)
      BY <2>1, <2>10 DEF ArgsOf, ArgsLive
    <3> QED
      BY <3>2, <3>3, <3>4
  <2>11. \A b \in Addrs : what[b] # Free => ArgsLive(is, what[b])
    BY <1>2 DEF Present
  <2>12. Present(what)
    BY <2>10, <2>11 DEF Present
  <2>13. Linked(what, nodes)
    <3> SUFFICES ASSUME NEW b \in Addrs, what[b] # Free
                 PROVE  nodes[b] = {b} \cup UNION {nodes[k] : k \in ArgsOf(what, what[b])}
      BY DEF Linked
    <3>1. ArgsOf(what, what[b]) = ArgsOf(is, what[b]) /\ a \notin ArgsOf(is, what[b])
      BY <2>10, <2>11
    <3>2. \A k \in ArgsOf(is, what[b]) : nodes[k] = below[k]
      BY <2>4, <3>1 DEF ArgsOf
    <3>3. {nodes[k] : k \in ArgsOf(what, what[b])} = {below[k] : k \in ArgsOf(is, what[b])}
      BY <3>1, <3>2
    <3>4. nodes[b] = {b} \cup UNION {below[k] : k \in ArgsOf(is, what[b])}
      <4>1. CASE b = a
        BY <1>2, <2>4, <4>1
      <4>2. CASE b # a
        BY <1>2, <2>4, <4>2 DEF Linked
      <4> QED
        BY <4>1, <4>2
    <3> QED
      BY <3>3, <3>4
  <2>14. Heap(what, nodes)
    BY <2>5, <2>6, <2>7, <2>9, <2>12, <2>13
  <2> HIDE DEF Heap
  <2>15. /\ Heap(is', below') /\ refs' = r /\ last' = a
         /\ \A b \in Addrs : (r[b] > 0 \/ b = a) /\ what[b] # Free => is'[b] = what[b]
    BY <1>1, <2>14, CollectHeap
  <2> QED
    BY <1>2, <2>1, <2>15
<1> QED
  BY <1>3, <1>4
-----------------------------------------------------------------------------
(* What every step keeps.                                                  *)

LEMMA TypesKept ==
  ASSUME Heap(is, below)', Typed', last' \in Addrs \cup {NoAddr},
         registry' \in [Uninterpreted -> Addrs \cup {NoAddr}],
         ret'.at \in Addrs \cup {NoAddr}, Depth' <= MaxDepth, Len(defining') <= MaxDefining
  PROVE  TypeOK'
BY DEF TypeOK, Typed, Heap, Allocated

\* Z3's count of a node, in the terms of the lemmas on counting.
Balance == \A a \in Addrs :
    refs[a] = terms[a] + Cardinality(Hand(frames, a)) + Cardinality(Positions(defining, a)) + lost[a]

LEMMA CountsAre == HoldsBalance <=> Balance
BY InHandIs DEF HoldsBalance, Balance, BeingDefined, Positions

LEMMA CountsAreNext == HoldsBalance' <=> Balance'
BY CountsAre, PTL

\* What a call holds, or a definition has counted, is counted.
AllCounted ==
    /\ \A i \in 1..Len(defining) : refs[defining[i].at] > 0
    /\ \A i \in 1..Len(frames) : \A j \in 1..Len(frames[i].got) :
          Holds(frames[i].kind) => refs[frames[i].got[j].at] > 0

LEMMA Counted == (Typed /\ Calls /\ HoldsBalance) => AllCounted
<1> SUFFICES ASSUME Typed, Calls, HoldsBalance
             PROVE  /\ \A i \in 1..Len(defining) : refs[defining[i].at] > 0
                    /\ \A i \in 1..Len(frames) : \A j \in 1..Len(frames[i].got) :
                         Holds(frames[i].kind) => refs[frames[i].got[j].at] > 0
  BY DEF AllCounted
<1>1. IsSeq(frames) /\ IsSeq(defining)
  BY DEF Calls, Typed
<1>2. ASSUME NEW a \in Addrs
      PROVE  /\ refs[a] = terms[a] + Cardinality(Hand(frames, a))
                            + Cardinality(Positions(defining, a)) + lost[a]
             /\ terms[a] \in Nat /\ lost[a] \in Nat
             /\ Cardinality(Hand(frames, a)) \in Nat /\ Cardinality(Positions(defining, a)) \in Nat
  <2>1. terms[a] \in Nat /\ lost[a] \in Nat
    BY BoundAssumption DEF Typed
  <2>2. Cardinality(Hand(frames, a)) \in Nat /\ Cardinality(Positions(defining, a)) \in Nat
    BY <1>1, HandFinite, PositionsFinite
  <2> QED
    BY <2>1, <2>2, CountsAre DEF Balance
<1>3. ASSUME NEW i \in 1..Len(defining)
      PROVE  refs[defining[i].at] > 0
  <2>1. defining[i].at \in Addrs
    BY DEF Typed
  <2>2. Cardinality(Positions(defining, defining[i].at)) >= 1
    BY <1>1, PositionsFinite
  <2> QED
    BY <1>2, <2>1, <2>2
<1>4. ASSUME NEW i \in 1..Len(frames), NEW j \in 1..Len(frames[i].got), Holds(frames[i].kind)
      PROVE  refs[frames[i].got[j].at] > 0
  <2>1. /\ frames[i].got[j].at \in Addrs /\ Len(frames[i].got) \in Nat
        /\ Len(frames[i].got) <= frames[i].want /\ frames[i].want \in Wants(frames[i].kind)
    BY DEF Calls, FrameOK, Depth, IsSeq
  <2>2. frames[i].want \in Nat /\ frames[i].want <= MaxArgs + 2 /\ MaxArgs \in Nat
    BY <2>1, WantsFew, BoundAssumption
  <2>3. j <= MaxArgs + 2
    BY <2>1, <2>2
  <2>4. Cardinality(Hand(frames, frames[i].got[j].at)) >= 1
    BY <1>1, <1>4, <2>3, HandHas
  <2> QED
    BY <1>2, <2>1, <2>4
<1> QED
  BY <1>3, <1>4

LEMMA CountedNext == (Typed' /\ Calls' /\ HoldsBalance') => AllCounted'
BY Counted, PTL

\* The sorts in flight: what the last sortOf returned, and what the frames have.
FlightLive ==
    /\ ret # None => is[ret.at] = ret.is
    /\ \A i \in 1..Len(frames) : \A j \in 1..Len(frames[i].got) :
          is[frames[i].got[j].at] = frames[i].got[j].is

LEMMA WhatIsInFlight == Calls => (SortsLive <=> FlightLive)
<1> SUFFICES ASSUME Calls
             PROVE  SortsLive <=> FlightLive
  OBVIOUS
<1>1. ASSUME NEW i \in 1..Len(frames), NEW j \in 1..Len(frames[i].got)
      PROVE  frames[i].got[j] # None
  <2>1. frames[i].got[j].at \in Addrs
    BY DEF Calls, FrameOK, Depth
  <2>2. None.at = NoAddr
    BY DEF None
  <2> QED
    BY <2>1, <2>2, NilAssumption
<1>2. \A g : g \in InFlight <=>
        g = ret \/ \E i \in 1..Len(frames) : \E j \in 1..Len(frames[i].got) : g = frames[i].got[j]
  BY DEF InFlight, Depth
<1> QED
  BY <1>1, <1>2 DEF SortsLive, FlightLive

LEMMA WhatIsInFlightNext == Calls' => (SortsLive' <=> FlightLive')
BY WhatIsInFlight, PTL

\* Whatever is counted after a step is what it was before.
Keeps == \A a \in Addrs : refs'[a] > 0 /\ is[a] # Free => is'[a] = is[a]

\* So the declarations being defined are, as long as a new one is what was made.
LEMMA DefinedKept ==
  ASSUME Typed, DefinedLive, Keeps, Typed', Calls', HoldsBalance',
         \A i \in 1..Len(defining') :
            (i \in 1..Len(defining) /\ defining'[i] = defining[i])
            \/ is'[defining'[i].at] = defining'[i].is
  PROVE  DefinedLive'
<1> SUFFICES ASSUME NEW i \in 1..Len(defining')
             PROVE  is'[defining'[i].at] = defining'[i].is
  BY DEF DefinedLive
<1>1. refs'[defining'[i].at] > 0
  BY CountedNext DEF AllCounted
<1> QED
  BY <1>1 DEF Typed, DefinedLive, Keeps

\* And so are the sorts in flight, as long as every call that has some holds them.
LEMMA SortsKept ==
  ASSUME Calls, SortsLive, Keeps, Typed', Calls', HoldsBalance',
         ret' # None => is'[ret'.at] = ret'.is,
         \A i \in 1..Len(frames') : \A j \in 1..Len(frames'[i].got) :
            /\ Holds(frames'[i].kind) /\ i \in 1..Depth /\ j \in 1..Len(frames[i].got)
            /\ frames'[i].got[j] = frames[i].got[j]
  PROVE  SortsLive'
<1> SUFFICES ASSUME NEW i \in 1..Len(frames'), NEW j \in 1..Len(frames'[i].got)
             PROVE  is'[frames'[i].got[j].at] = frames'[i].got[j].is
  BY WhatIsInFlightNext DEF FlightLive, None
<1>1. refs'[frames'[i].got[j].at] > 0
  BY CountedNext DEF AllCounted
<1>2. /\ i \in 1..Depth /\ j \in 1..Len(frames[i].got) /\ frames'[i].got[j] = frames[i].got[j]
      /\ frames[i].got[j].at \in Addrs /\ frames[i].got[j].is # Free
  BY DEF Calls, FrameOK
<1>3. is[frames[i].got[j].at] = frames[i].got[j].is
  BY <1>2, WhatIsInFlight DEF Depth, FlightLive
<1> QED
  BY <1>1, <1>2, <1>3 DEF Keeps
-----------------------------------------------------------------------------
(* Every action keeps the invariant.                                       *)

LEMMA InitInv == Init => Inv
<1> SUFFICES ASSUME Init PROVE Inv
  OBVIOUS
<1> USE BoundAssumption
<1>1. /\ is = [a \in Addrs |-> Free] /\ below = [a \in Addrs |-> {}]
      /\ refs = [a \in Addrs |-> 0] /\ terms = refs /\ lost = refs /\ last = NoAddr
      /\ registry = [u \in Uninterpreted |-> NoAddr]
      /\ frames = <<>> /\ ret = None /\ defining = <<>>
  BY DEF Init
<1>2. /\ IsSeq(frames) /\ IsSeq(defining) /\ Depth = 0 /\ Len(frames) = 0 /\ Len(defining) = 0
  BY <1>1, SeqEmpty DEF Depth
<1>3. Typed
  BY <1>1, <1>2 DEF Typed
<1>4. Calls
  BY <1>1, <1>2 DEF Calls
<1>5. Heap(is, below)
  BY <1>1 DEF Heap, Alike, Allocated, Transitive, Present, Linked
<1>6. HoldsBalance
  <2>1. ASSUME NEW a \in Addrs
        PROVE  Cardinality(Hand(frames, a)) = 0 /\ Cardinality(Positions(defining, a)) = 0
    BY <1>2, NoneHeld, InHandIs, PositionsFinite
  <2> QED
    BY <1>1, <2>1, CountsAre DEF Balance
<1>7. TypeOK
  BY <1>1, <1>2, <1>3 DEF TypeOK, Typed, None
<1>8. SortsLive
  BY <1>1, <1>2, <1>4, WhatIsInFlight DEF FlightLive
<1>9. DefinedLive
  BY <1>2 DEF DefinedLive
<1> QED
  BY <1>3, <1>4, <1>5, <1>6, <1>7, <1>8, <1>9 DEF Inv

LEMMA BeginInv ==
  ASSUME Inv, NEW kind \in Kinds, NEW want, Begin(kind, want) PROVE Inv' /\ Keeps
<1> DEFINE f == [kind |-> kind, want |-> want, got |-> <<>>]
<1> USE DEF Inv
<1>1. /\ Depth < MaxDepth /\ want \in Wants(kind) /\ frames' = Append(frames, f)
      /\ IF MakesSort(kind) THEN Wanting ELSE InProgram
      /\ UNCHANGED <<is, below, refs, last, registry, terms, ret, lost, defining>>
  BY DEF Begin, z3Vars
<1>2. /\ IsSeq(frames) /\ Depth = Len(frames) /\ Depth \in Nat
      /\ IsSeq(frames') /\ Depth' = Depth + 1 /\ frames'[Depth + 1] = f
      /\ \A i \in 1..Depth : frames'[i] = frames[i]
  BY <1>1, SeqAppend DEF Calls, IsSeq, Depth
<1>3. ret = None /\ (Depth > 0 => Len(Top.got) < Top.want) /\ (MakesSort(kind) <=> Depth + 1 > 1)
  <2>1. CASE MakesSort(kind)
    BY <1>1, <1>2, <2>1 DEF Wanting
  <2>2. CASE ~MakesSort(kind)
    BY <1>1, <1>2, <2>2 DEF InProgram, Calls
  <2> QED
    BY <2>1, <2>2
<1>4. /\ IsSeq(f.got) /\ Len(f.got) = 0 /\ want \in Nat /\ 1 <= want
  BY <1>1, SeqEmpty, WantsFew
<1>5. Calls'
  <2> SUFFICES ASSUME NEW i \in 1..Depth'
               PROVE  FrameOK(frames[i], i)'
    BY <1>1, <1>2, <1>3 DEF Calls, None
  <2>1. CASE i = Depth + 1
    BY <1>1, <1>2, <1>3, <1>4, <2>1 DEF FrameOK
  <2>2. CASE i < Depth
    <3>1. FrameOK(frames[i], i)
      BY <1>2, <2>2 DEF Calls
    <3> QED
      BY <1>2, <2>2, <3>1 DEF FrameOK
  <2>3. CASE i = Depth
    <3>1. FrameOK(frames[i], i) /\ Len(frames[i].got) < frames[i].want
      BY <1>2, <1>3, <2>3 DEF Calls, Top
    <3> QED
      BY <1>2, <2>3, <3>1 DEF FrameOK
  <2> QED
    BY <1>2, <2>1, <2>2, <2>3
<1>6. Typed' /\ Heap(is, below)'
  BY <1>1 DEF Typed, Heap
<1>7. HoldsBalance'
  <2>1. ASSUME NEW a
        PROVE  Cardinality(Hand(frames', a)) = Cardinality(Hand(frames, a))
    <3>1. PICK g : g = f
      OBVIOUS
    <3>2. MaxArgs \in Nat /\ IsSeq(g.got) /\ Len(g.got) <= MaxArgs + 2 /\ Len(g.got) = 0
      BY <1>4, <3>1, BoundAssumption
    <3>3. Adds(frames', frames, g)
      BY <1>2, <3>1 DEF Depth, Adds
    <3>4. Cardinality(Hand(frames', a)) = Cardinality(Hand(frames, a)) + HeldIn(g, a)
      BY <1>2, <3>2, <3>3, HandLast
    <3>5. HeldIn(g, a) = 0
      BY <3>2, HeldInIs, PositionsFinite
    <3> QED
      BY <1>2, <3>4, <3>5, HandFinite
  <2> QED
    BY <1>1, <2>1, CountsAre, CountsAreNext DEF Balance
<1>8. TypeOK'
  BY <1>1, <1>2, <1>6, TypesKept, BoundAssumption DEF TypeOK
<1>9. SortsLive'
  <2>1. FlightLive
    BY WhatIsInFlight
  <2>2. ASSUME NEW i \in 1..Len(frames'), NEW j \in 1..Len(frames'[i].got)
        PROVE  is'[frames'[i].got[j].at] = frames'[i].got[j].is
    <3>1. i # Depth + 1
      BY <1>2, <1>4
    <3>2. i \in 1..Len(frames) /\ frames'[i] = frames[i]
      BY <1>2, <3>1 DEF Depth
    <3> QED
      BY <1>1, <2>1, <3>2 DEF FlightLive
  <2> QED
    BY <1>1, <1>3, <1>5, <2>2, WhatIsInFlightNext DEF FlightLive, None
<1>10. DefinedLive'
  BY <1>1 DEF DefinedLive
<1> QED
  BY <1>1, <1>5, <1>6, <1>7, <1>8, <1>9, <1>10 DEF Keeps

\* The calls in progress stay as they are, and each that has sorts holds them: what
\* Z3 reclaims is none of those, and none of what is being defined.
LEMMA Quiet ==
  ASSUME Inv, frames' = frames, Depth = 0 \/ Wanting,
         IsSeq(defining'), Len(defining') <= MaxDefining,
         \A i \in 1..Len(defining') : i \in 1..Len(defining) /\ defining'[i] = defining[i],
         Heap(is, below)', Keeps, HoldsBalance',
         refs' \in [Addrs -> Nat], lost' \in [Addrs -> Nat], terms' \in [Addrs -> 0..MaxTerms],
         last' \in Addrs \cup {NoAddr}, registry' \in [Uninterpreted -> Addrs \cup {NoAddr}],
         ret' = None \/ (Wanting /\ ret'.at \in Addrs /\ ret'.is # Free /\ is'[ret'.at] = ret'.is)
  PROVE  Inv' /\ Keeps
<1> USE DEF Inv
<1>1. Depth' = Depth /\ Top' = Top /\ Depth = Len(frames) /\ Depth \in Nat
  BY DEF Depth, Top, Calls, IsSeq
<1>2. Typed'
  BY DEF Typed
<1>3. Calls'
  <2>1. ret' # None => Depth > 0 /\ Len(Top.got) < Top.want /\ ret'.at \in Addrs /\ ret'.is # Free
    BY DEF Wanting
  <2> QED
    BY <1>1, <2>1 DEF Calls, FrameOK, None
<1>4. TypeOK'
  <2>1. ret'.at \in Addrs \cup {NoAddr}
    BY DEF None
  <2> QED
    BY <1>1, <1>2, <2>1, TypesKept DEF TypeOK
<1>5. DefinedLive'
  BY <1>2, <1>3, DefinedKept
<1>6. ASSUME NEW i \in 1..Len(frames), NEW j \in 1..Len(frames[i].got)
      PROVE  Holds(frames[i].kind) /\ i \in 1..Depth
  <2>1. Wanting /\ i \in 1..Depth
    BY <1>1
  <2>2. Len(frames[i].got) < frames[i].want
    <3>1. CASE i = Depth
      BY <2>1, <3>1 DEF Wanting, Top
    <3>2. CASE i # Depth
      <4>1. FrameOK(frames[i], i) /\ i < Depth
        BY <1>1, <2>1, <3>2 DEF Calls
      <4> QED
        BY <4>1 DEF FrameOK
    <3> QED
      BY <3>1, <3>2
  <2> QED
    BY <2>1, <2>2, Pending
<1>7. SortsLive'
  BY <1>2, <1>3, <1>6, SortsKept DEF None
<1> QED
  BY <1>2, <1>3, <1>4, <1>5, <1>7

\* The sort of a leaf: what Z3 returns for a call that takes no sorts.
LEMMA LeafHeap ==
  ASSUME Inv, NEW n \in Families \cup Uninterpreted, NEW a \in Addrs,
         Returns(a, Leaf(n), {}, refs)
  PROVE  /\ Heap(is, below)' /\ Keeps /\ refs' = refs /\ last' = a
         /\ is'[a] = Leaf(n) /\ Leaf(n) # Free
<1>1. Leaf(n) # Free
  BY NameAssumption DEF Leaf, Free
<1>2. Leaf(n).args = <<>> /\ DOMAIN <<>> = {}
  BY DEF Leaf
<1>3. ArgsLive(is, Leaf(n)) /\ ArgsOf(is, Leaf(n)) = {}
  BY <1>2 DEF ArgsLive, ArgsOf
<1>4. /\ Heap(is', below') /\ refs' = refs /\ last' = a /\ is'[a] = Leaf(n)
      /\ \A b \in Addrs : refs[b] > 0 /\ is[b] # Free => is'[b] = is[b]
  BY <1>1, <1>3, ReturnsHeap DEF Inv
<1> QED
  BY <1>1, <1>4 DEF Keeps

LEMMA MakeLeafInv ==
  ASSUME Inv, NEW f \in Families, NEW a \in Addrs, MakeLeaf(f, a) PROVE Inv' /\ Keeps
<1> USE DEF Inv
<1>1. /\ Wanting /\ Returns(a, Leaf(f), {}, refs) /\ ret' = [at |-> a, is |-> Leaf(f)]
      /\ UNCHANGED <<registry, terms, frames, lost, defining>>
  BY DEF MakeLeaf
<1>2. /\ Heap(is, below)' /\ Keeps /\ refs' = refs /\ last' = a
      /\ is'[a] = Leaf(f) /\ Leaf(f) # Free
  BY <1>1, LeafHeap
<1>3. HoldsBalance'
  BY <1>1, <1>2, CountsAre, CountsAreNext DEF Balance
<1>4. ret'.at = a /\ ret'.is = Leaf(f)
  BY <1>1
<1> QED
  BY <1>1, <1>2, <1>3, <1>4, Quiet DEF Typed, TypeOK

LEMMA LookupInv ==
  ASSUME Inv, NEW u \in Uninterpreted, Lookup(u) PROVE Inv' /\ Keeps
<1> USE DEF Inv
<1>1. /\ Wanting /\ registry[u] # NoAddr /\ is[registry[u]] = Leaf(u)
      /\ ret' = [at |-> registry[u], is |-> Leaf(u)]
      /\ UNCHANGED <<is, below, refs, last, registry, terms, frames, lost, defining>>
  BY DEF Lookup, LookupAsDocumented, z3Vars
<1>2. registry[u] \in Addrs /\ Leaf(u) # Free
  BY <1>1, NameAssumption DEF TypeOK, Leaf, Free
<1>3. Heap(is, below)' /\ Keeps
  BY <1>1 DEF Keeps, Heap
<1>4. HoldsBalance'
  BY <1>1, CountsAre, CountsAreNext DEF Balance
<1>5. ret'.at = registry[u] /\ ret'.is = Leaf(u)
  BY <1>1
<1> QED
  BY <1>1, <1>2, <1>3, <1>4, <1>5, Quiet DEF Typed, TypeOK

\* The program's steps: no call collects sorts.
LEMMA NoCalls ==
  ASSUME Inv, InProgram PROVE Depth = 0 /\ ret = None
BY DEF Inv, InProgram, Calls, None

LEMMA DeclareUninterpretedSortInv ==
  ASSUME Inv, NEW u \in Uninterpreted, NEW a \in Addrs, DeclareUninterpretedSort(u, a)
  PROVE  Inv' /\ Keeps
<1> USE DEF Inv
<1>1. /\ InProgram /\ Returns(a, Leaf(u), {}, refs) /\ registry' = [registry EXCEPT ![u] = a]
      /\ UNCHANGED <<terms, frames, ret, lost, defining>>
  BY DEF DeclareUninterpretedSort
<1>2. Heap(is, below)' /\ Keeps /\ refs' = refs /\ last' = a
  BY <1>1, LeafHeap
<1>3. HoldsBalance'
  BY <1>1, <1>2, CountsAre, CountsAreNext DEF Balance
<1>4. registry' \in [Uninterpreted -> Addrs \cup {NoAddr}]
  BY <1>1 DEF TypeOK
<1> QED
  BY <1>1, <1>2, <1>3, <1>4, NoCalls, Quiet DEF Typed, TypeOK

LEMMA OtherCallInv == ASSUME Inv, OtherCall PROVE Inv' /\ Keeps
<1> USE DEF Inv
<1>1. /\ InProgram /\ Collect(below, is, refs, NoAddr)
      /\ UNCHANGED <<registry, terms, frames, ret, lost, defining>>
  BY DEF OtherCall
<1>2. Heap(is, below)' /\ Keeps /\ refs' = refs /\ last' = NoAddr
  BY <1>1, CollectHeap DEF Keeps
<1>3. HoldsBalance'
  BY <1>1, <1>2, CountsAre, CountsAreNext DEF Balance
<1> QED
  BY <1>1, <1>2, <1>3, NoCalls, Quiet DEF Typed, TypeOK

LEMMA DropTermInv == ASSUME Inv, NEW a \in Addrs, DropTerm(a) PROVE Inv' /\ Keeps
<1> DEFINE r == [refs EXCEPT ![a] = @ - 1]
<1> USE DEF Inv
<1>1. /\ InProgram /\ terms[a] > 0 /\ Collect(below, is, r, last)
      /\ terms' = [terms EXCEPT ![a] = @ - 1]
      /\ UNCHANGED <<registry, frames, ret, lost, defining>>
  BY DEF DropTerm
<1>2. \A b \in Addrs : refs[b] \in Nat /\ terms[b] \in 0..MaxTerms /\ lost[b] \in Nat
  BY DEF Typed
<1>3. /\ \A b : Cardinality(Hand(frames, b)) \in Nat /\ Cardinality(Positions(defining, b)) \in Nat
      /\ Balance /\ MaxTerms \in Nat
  BY HandFinite, PositionsFinite, CountsAre, BoundAssumption DEF Typed, Calls
<1>4. refs[a] - 1 \in Nat /\ terms[a] - 1 \in 0..MaxTerms
  BY <1>1, <1>2, <1>3 DEF Balance
<1>5. r \in [Addrs -> Nat] /\ terms' \in [Addrs -> 0..MaxTerms]
      /\ \A b \in Addrs : r[b] <= refs[b]
  BY <1>1, <1>2, <1>4 DEF Typed
<1>6. /\ Heap(is, below)' /\ refs' = r /\ last' = last
      /\ \A b \in Addrs : (r[b] > 0 \/ b = last) /\ is[b] # Free => is'[b] = is[b]
  BY <1>1, CollectHeap
<1>7. Keeps
  BY <1>6 DEF Keeps
<1>8. HoldsBalance'
  <2>1. ASSUME NEW b \in Addrs
        PROVE  refs'[b] = terms'[b] + Cardinality(Hand(frames', b))
                            + Cardinality(Positions(defining', b)) + lost'[b]
    BY <1>1, <1>2, <1>3, <1>6 DEF Balance, Typed
  <2> QED
    BY <2>1, CountsAreNext DEF Balance
<1> QED
  BY <1>1, <1>5, <1>6, <1>7, <1>8, NoCalls, Quiet DEF Typed, TypeOK

\* The end of a body: the innermost declaration is no longer being defined.
LEMMA DefinedPopped ==
  ASSUME Inv, defining # <<>>, PopDefined
  PROVE  /\ IsSeq(defining') /\ Len(defining') = Len(defining) - 1
         /\ \A i \in 1..Len(defining') : i \in 1..Len(defining) /\ defining'[i] = defining[i]
         /\ Defined.at \in Addrs
         /\ \A a : /\ Cardinality(Positions(defining', a)) \in Nat
                   /\ Cardinality(Positions(defining, a)) =
                        Cardinality(Positions(defining', a)) + IF a = Defined.at THEN 1 ELSE 0
<1>1. IsSeq(defining) /\ Len(defining) \in Nat
  BY DEF Inv, Typed, IsSeq
<1>2. Len(defining) # 0
  <2>1. ASSUME Len(defining) = 0
        PROVE  defining = <<>>
    BY <1>1, <2>1, IsSeqOf, EmptySeq
  <2> QED
    BY <2>1
<1>3. /\ IsSeq(defining') /\ Len(defining') = Len(defining) - 1
      /\ \A i \in 1..(Len(defining) - 1) : defining'[i] = defining[i]
  BY <1>1, <1>2, SeqPop DEF PopDefined
<1>4. Defined.at \in Addrs
  BY <1>1, <1>2 DEF Inv, Typed, Defined
<1>5. ASSUME NEW a
      PROVE  /\ Cardinality(Positions(defining', a)) \in Nat
             /\ Cardinality(Positions(defining, a)) =
                  Cardinality(Positions(defining', a)) + IF a = Defined.at THEN 1 ELSE 0
  <2>1. Len(defining) = Len(defining') + 1 /\ \A i \in 1..Len(defining') : defining[i] = defining'[i]
    BY <1>1, <1>3
  <2>2. Cardinality(Positions(defining, a)) =
          Cardinality(Positions(defining', a)) + IF defining[Len(defining') + 1].at = a THEN 1 ELSE 0
    BY <1>3, <2>1, PositionsLast
  <2>3. defining[Len(defining') + 1] = Defined
    BY <2>1 DEF Defined
  <2> QED
    BY <1>3, <2>2, <2>3, PositionsFinite
<1> QED
  BY <1>1, <1>3, <1>4, <1>5

LEMMA AddRecDefInv == ASSUME Inv, AddRecDef PROVE Inv' /\ Keeps
<1> USE DEF Inv
<1>1. /\ InProgram /\ defining # <<>> /\ terms[Defined.at] < MaxTerms /\ PopDefined
      /\ terms' = [terms EXCEPT ![Defined.at] = @ + 1]
      /\ UNCHANGED <<is, below, refs, last, registry, frames, ret, lost>>
  BY DEF AddRecDef, z3Vars
<1>2. /\ IsSeq(defining') /\ Len(defining') = Len(defining) - 1 /\ Defined.at \in Addrs
      /\ \A i \in 1..Len(defining') : i \in 1..Len(defining) /\ defining'[i] = defining[i]
      /\ \A a : /\ Cardinality(Positions(defining', a)) \in Nat
                /\ Cardinality(Positions(defining, a)) =
                     Cardinality(Positions(defining', a)) + IF a = Defined.at THEN 1 ELSE 0
  BY <1>1, DefinedPopped
<1>3. Len(defining) \in Nat /\ MaxDefining \in Nat /\ MaxTerms \in Nat /\ Len(defining) <= MaxDefining
  BY BoundAssumption DEF TypeOK, Typed, IsSeq
<1>4. /\ terms' \in [Addrs -> 0..MaxTerms] /\ Len(defining') <= MaxDefining
      /\ \A a \in Addrs : terms'[a] = terms[a] + IF a = Defined.at THEN 1 ELSE 0
  BY <1>1, <1>2, <1>3 DEF Typed
<1>5. Heap(is, below)' /\ Keeps
  BY <1>1 DEF Keeps, Heap
<1>6. HoldsBalance'
  <2>1. ASSUME NEW b \in Addrs
        PROVE  refs'[b] = terms'[b] + Cardinality(Hand(frames', b))
                            + Cardinality(Positions(defining', b)) + lost'[b]
    <3>1. /\ refs[b] = terms[b] + Cardinality(Hand(frames, b))
                         + Cardinality(Positions(defining, b)) + lost[b]
          /\ terms[b] \in Nat /\ lost[b] \in Nat /\ Cardinality(Hand(frames, b)) \in Nat
      BY <1>3, CountsAre, HandFinite DEF Balance, Typed, Calls
    <3> QED
      BY <1>1, <1>2, <1>4, <3>1
  <2> QED
    BY <2>1, CountsAreNext DEF Balance
<1> QED
  BY <1>1, <1>2, <1>4, <1>5, <1>6, NoCalls, Quiet DEF Typed, TypeOK

LEMMA BodyRaisesInv == ASSUME Inv, BodyRaises PROVE Inv' /\ Keeps
<1> DEFINE r == [refs EXCEPT ![Defined.at] = @ - 1]
<1> USE DEF Inv
<1>1. /\ InProgram /\ defining # <<>> /\ PopDefined
      /\ registry' = registry /\ terms' = terms /\ frames' = frames /\ ret' = ret
  BY DEF BodyRaises
<1>2. /\ IsSeq(defining') /\ Len(defining') = Len(defining) - 1 /\ Defined.at \in Addrs
      /\ \A i \in 1..Len(defining') : i \in 1..Len(defining) /\ defining'[i] = defining[i]
      /\ \A a : /\ Cardinality(Positions(defining', a)) \in Nat
                /\ Cardinality(Positions(defining, a)) =
                     Cardinality(Positions(defining', a)) + IF a = Defined.at THEN 1 ELSE 0
  BY <1>1, DefinedPopped
<1>3. Len(defining) \in Nat /\ MaxDefining \in Nat /\ MaxTerms \in Nat /\ Len(defining) <= MaxDefining
  BY BoundAssumption DEF TypeOK, Typed, IsSeq
<1>4. ASSUME NEW b \in Addrs
      PROVE  /\ refs[b] = terms[b] + Cardinality(Hand(frames, b))
                            + Cardinality(Positions(defining, b)) + lost[b]
             /\ refs[b] \in Nat /\ terms[b] \in Nat /\ lost[b] \in Nat
             /\ Cardinality(Hand(frames, b)) \in Nat
  BY <1>3, CountsAre, HandFinite DEF Balance, Typed, Calls
<1>5. CASE Collect(below, is, r, last) /\ lost' = lost
  <2>1. refs[Defined.at] - 1 \in Nat
    <3>1. PICK at \in Addrs : at = Defined.at
      BY <1>2
    <3>2. /\ Cardinality(Positions(defining', at)) \in Nat
          /\ Cardinality(Positions(defining, at)) = Cardinality(Positions(defining', at)) + 1
      BY <1>2, <3>1
    <3> QED
      BY <1>4, <3>1, <3>2
  <2>2. /\ r \in [Addrs -> Nat]
        /\ \A b \in Addrs : r[b] = refs[b] - IF b = Defined.at THEN 1 ELSE 0
    BY <1>2, <1>4, <2>1 DEF Typed
  <2>3. /\ Heap(is, below)' /\ refs' = r /\ last' = last
        /\ \A b \in Addrs : (r[b] > 0 \/ b = last) /\ is[b] # Free => is'[b] = is[b]
    BY <1>5, CollectHeap
  <2>4. Keeps
    BY <2>3 DEF Keeps
  <2>5. HoldsBalance'
    <3>1. ASSUME NEW b \in Addrs
          PROVE  refs'[b] = terms'[b] + Cardinality(Hand(frames', b))
                              + Cardinality(Positions(defining', b)) + lost'[b]
      <4>1. /\ refs'[b] = refs[b] - IF b = Defined.at THEN 1 ELSE 0
            /\ terms'[b] = terms[b] /\ lost'[b] = lost[b]
            /\ Cardinality(Hand(frames', b)) = Cardinality(Hand(frames, b))
        BY <1>1, <1>5, <2>2, <2>3
      <4> QED
        BY <1>2, <1>4, <4>1
    <3> QED
      BY <3>1, CountsAreNext DEF Balance
  <2>6. /\ refs' \in [Addrs -> Nat] /\ lost' \in [Addrs -> Nat]
        /\ terms' \in [Addrs -> 0..MaxTerms] /\ last' \in Addrs \cup {NoAddr}
        /\ registry' \in [Uninterpreted -> Addrs \cup {NoAddr}] /\ Len(defining') <= MaxDefining
    BY <1>1, <1>2, <1>3, <1>5, <2>2, <2>3 DEF Typed, TypeOK
  <2>7. Depth = 0 /\ ret' = None
    BY <1>1, NoCalls
  <2> QED
    BY <1>1, <1>2, <2>3, <2>4, <2>5, <2>6, <2>7, Quiet
<1>6. CASE /\ lost' = [lost EXCEPT ![Defined.at] = @ + 1]
           /\ UNCHANGED <<is, below, refs, last>>
  <2>1. /\ lost' \in [Addrs -> Nat]
        /\ \A b \in Addrs : lost'[b] = lost[b] + IF b = Defined.at THEN 1 ELSE 0
    BY <1>2, <1>6 DEF Typed
  <2>2. Heap(is, below)' /\ Keeps
    BY <1>6 DEF Keeps, Heap
  <2>3. HoldsBalance'
    <3>1. ASSUME NEW b \in Addrs
          PROVE  refs'[b] = terms'[b] + Cardinality(Hand(frames', b))
                              + Cardinality(Positions(defining', b)) + lost'[b]
      <4>1. /\ lost'[b] = lost[b] + IF b = Defined.at THEN 1 ELSE 0
            /\ refs'[b] = refs[b] /\ terms'[b] = terms[b]
            /\ Cardinality(Hand(frames', b)) = Cardinality(Hand(frames, b))
        BY <1>1, <1>6, <2>1
      <4> QED
        BY <1>2, <1>4, <4>1
    <3> QED
      BY <3>1, CountsAreNext DEF Balance
  <2>4. /\ refs' \in [Addrs -> Nat] /\ terms' \in [Addrs -> 0..MaxTerms]
        /\ last' \in Addrs \cup {NoAddr}
        /\ registry' \in [Uninterpreted -> Addrs \cup {NoAddr}] /\ Len(defining') <= MaxDefining
    BY <1>1, <1>2, <1>3, <1>6 DEF Typed, TypeOK
  <2>5. Depth = 0 /\ ret' = None
    BY <1>1, NoCalls
  <2> QED
    BY <1>1, <1>2, <2>1, <2>2, <2>3, <2>4, <2>5, Quiet
<1> QED
  BY <1>5, <1>6 DEF BodyRaises, z3Vars

\* The exception takes the calls with it, and what they held stays counted.
LEMMA RaiseInv == ASSUME Inv, Raise PROVE Inv' /\ Keeps
<1> USE DEF Inv
<1>1. /\ lost' = [a \in Addrs |-> lost[a] + InHand(a)] /\ frames' = <<>> /\ ret' = None
      /\ UNCHANGED <<is, below, refs, last, registry, terms, defining>>
  BY DEF Raise, z3Vars
<1>2. IsSeq(frames') /\ Len(frames') = 0 /\ Depth' = 0
  BY <1>1, SeqEmpty DEF Depth
<1>3. Calls'
  BY <1>1, <1>2 DEF Calls, None
<1>4. \A a : Cardinality(Hand(frames, a)) \in Nat /\ InHand(a) = Cardinality(Hand(frames, a))
  BY HandFinite, InHandIs DEF Calls
<1>5. Typed'
  BY <1>1, <1>4 DEF Typed
<1>6. Heap(is, below)' /\ Keeps
  BY <1>1 DEF Keeps, Heap
<1>7. HoldsBalance'
  <2>1. ASSUME NEW a \in Addrs
        PROVE  refs'[a] = terms'[a] + Cardinality(Hand(frames', a))
                            + Cardinality(Positions(defining', a)) + lost'[a]
    <3>1. Cardinality(Hand(frames', a)) = 0
      <4>1. Hand(frames', a) = {}
        BY <1>2 DEF Hand
      <4> QED
        BY <4>1, FS_EmptySet
    <3>2. /\ refs[a] = terms[a] + Cardinality(Hand(frames, a))
                         + Cardinality(Positions(defining, a)) + lost[a]
          /\ terms[a] \in Nat /\ lost[a] \in Nat /\ Cardinality(Positions(defining, a)) \in Nat
      BY CountsAre, PositionsFinite, BoundAssumption DEF Balance, Typed
    <3> QED
      BY <1>1, <1>4, <3>1, <3>2
  <2> QED
    BY <2>1, CountsAreNext DEF Balance
<1>8. TypeOK'
  BY <1>1, <1>2, <1>5, <1>6, TypesKept, BoundAssumption DEF TypeOK, None
<1>9. DefinedLive'
  BY <1>1 DEF DefinedLive
<1>10. SortsLive'
  BY <1>1, <1>2, <1>3, WhatIsInFlightNext DEF FlightLive, None
<1> QED
  BY <1>3, <1>5, <1>6, <1>7, <1>8, <1>9, <1>10

\* The sort that sortOf returned is now the frame's, and held, if the call holds its
\* sorts.  Nothing is reclaimed.
LEMMA TakeInv == ASSUME Inv, Take PROVE Inv' /\ Keeps
<1> USE DEF Inv
<1>1. PICK n : n = Depth
  OBVIOUS
<1>2. PICK f : f = Top
  OBVIOUS
<1>3. PICK g : g = [f EXCEPT !.got = Append(@, ret)]
  OBVIOUS
<1>4. /\ n > 0 /\ ret # None
      /\ refs' = IF Holds(f.kind) THEN [refs EXCEPT ![ret.at] = @ + 1] ELSE refs
      /\ ret' = None /\ UNCHANGED <<is, below, last, registry, terms, lost, defining>>
  BY <1>1, <1>2 DEF Take
<1>5. frames' = [frames EXCEPT ![n] = g]
  BY <1>1, <1>2, <1>3 DEF Take, Top
<1>6. /\ n \in Nat /\ n = Len(frames) /\ IsSeq(frames) /\ f = frames[n] /\ FrameOK(f, n)
      /\ Len(f.got) < f.want /\ ret.at \in Addrs /\ ret.is # Free
  BY <1>1, <1>2, <1>4, Innermost DEF Calls, Depth, Top
<1>7. n \in 1..Len(frames)
  BY <1>4, <1>6
<1>8. /\ IsSeq(frames') /\ Depth' = n /\ Len(frames') = n /\ frames'[n] = g
      /\ \A i \in 1..(n - 1) : frames'[i] = frames[i]
  <2>1. /\ IsSeq(frames') /\ Len(frames') = n
        /\ \A i \in 1..n : frames'[i] = IF i = n THEN g ELSE frames[i]
    <3>1. frames' = Replaced(frames, n, g)
      BY <1>5 DEF Replaced
    <3> QED
      BY <1>6, <1>7, <3>1, SeqExcept
  <2> QED
    BY <1>4, <1>6, <2>1 DEF Depth
<1>9. /\ f = [kind |-> f.kind, want |-> f.want, got |-> f.got]
      /\ IsSeq(f.got) /\ Len(f.got) \in Nat /\ f.want \in Wants(f.kind)
      /\ f.want \in Nat /\ f.want <= MaxArgs + 2 /\ MaxArgs \in Nat
  BY <1>6, WantsFew, BoundAssumption DEF FrameOK, IsSeq
<1>10. /\ g = [kind |-> f.kind, want |-> f.want, got |-> Append(f.got, ret)]
       /\ g.kind = f.kind /\ g.want = f.want /\ g.got = Append(f.got, ret)
  BY <1>3, <1>9
<1>11. PICK s : s = f.got
  OBVIOUS
<1>12. /\ IsSeq(g.got) /\ Len(g.got) = Len(f.got) + 1 /\ g.got[Len(f.got) + 1] = ret
       /\ \A j \in 1..Len(f.got) : g.got[j] = f.got[j]
  BY <1>9, <1>10, <1>11, SeqAppend
<1>13. FrameOK(g, n)'
  <2>1. /\ f.kind \in Kinds /\ (MakesSort(f.kind) <=> n > 1)
        /\ \A j \in 1..Len(f.got) : f.got[j].at \in Addrs /\ f.got[j].is # Free
    BY <1>6 DEF FrameOK
  <2>2. ASSUME NEW j \in 1..Len(g.got)
        PROVE  g.got[j].at \in Addrs /\ g.got[j].is # Free
    <3>1. CASE j = Len(f.got) + 1
      BY <1>6, <1>12, <3>1
    <3>2. CASE j # Len(f.got) + 1
      <4>1. j \in 1..Len(f.got)
        BY <1>9, <1>12, <3>2
      <4> QED
        BY <1>12, <2>1, <4>1
    <3> QED
      BY <3>1, <3>2
  <2>3. Len(g.got) <= g.want /\ ~(n < Depth')
    BY <1>6, <1>8, <1>9, <1>10, <1>12
  <2> QED
    BY <1>9, <1>10, <1>12, <2>1, <2>2, <2>3 DEF FrameOK
<1>14. Calls'
  <2>1. ASSUME NEW i \in 1..(n - 1)
        PROVE  FrameOK(frames[i], i)'
    <3>1. FrameOK(frames[i], i) /\ i < Depth
      BY <1>1, <1>6 DEF Calls, Depth
    <3> QED
      BY <1>6, <1>8, <3>1 DEF FrameOK
  <2>2. FrameOK(frames[n], n)'
    BY <1>8, <1>13
  <2>3. \A i \in 1..n : i = n \/ i \in 1..(n - 1)
    BY <1>6
  <2>4. \A i \in 1..n : FrameOK(frames[i], i)'
    BY <2>1, <2>2, <2>3
  <2> QED
    BY <1>4, <1>8, <2>4 DEF Calls, None
<1>15. Typed' /\ Heap(is, below)'
  BY <1>4, <1>6 DEF Typed, Heap
<1>16. HoldsBalance'
  <2>1. PICK outer : outer = SubSeq(frames, 1, Depth - 1)
    OBVIOUS
  <2>2. ASSUME NEW a \in Addrs
        PROVE  /\ Cardinality(Hand(frames', a)) = Cardinality(Hand(frames, a))
                     + IF Holds(f.kind) /\ ret.at = a THEN 1 ELSE 0
               /\ Cardinality(Hand(frames, a)) \in Nat
    <3>1. /\ IsSeq(outer) /\ Len(outer) = n - 1 /\ \A i \in 1..(n - 1) : outer[i] = frames[i]
          /\ Cardinality(Hand(frames, a)) = Cardinality(Hand(outer, a)) + HeldIn(f, a)
          /\ Cardinality(Hand(outer, a)) \in Nat /\ HeldIn(f, a) \in Nat
      BY <1>1, <1>2, <1>4, <2>1, Innermost, InHandIs
    <3>2. Len(outer) + 1 = n /\ Len(g.got) <= MaxArgs + 2
      BY <1>6, <1>9, <1>12, <3>1
    <3>3. Adds(frames', outer, g)
      BY <1>8, <3>1, <3>2 DEF Adds
    <3>4. Cardinality(Hand(frames', a)) = Cardinality(Hand(outer, a)) + HeldIn(g, a)
      BY <1>8, <1>12, <3>1, <3>2, <3>3, HandLast
    <3>5. HeldIn(g, a) = HeldIn(f, a) + IF Holds(f.kind) /\ ret.at = a THEN 1 ELSE 0
      <4>1. PICK e : e = ret
        OBVIOUS
      <4>2. g.got = Append(f.got, e)
        BY <1>10, <4>1
      <4>3. HeldIn(g, a) = HeldIn(f, a) + IF Holds(f.kind) /\ e.at = a THEN 1 ELSE 0
        BY <1>9, <1>10, <4>2, HeldMore
      <4> QED
        BY <4>1, <4>3
    <3> QED
      BY <3>1, <3>4, <3>5
  <2>3. ASSUME NEW a \in Addrs
        PROVE  refs'[a] = terms'[a] + Cardinality(Hand(frames', a))
                            + Cardinality(Positions(defining', a)) + lost'[a]
    <3>1. /\ refs[a] = terms[a] + Cardinality(Hand(frames, a))
                         + Cardinality(Positions(defining, a)) + lost[a]
          /\ terms[a] \in Nat /\ lost[a] \in Nat /\ Cardinality(Positions(defining, a)) \in Nat
      BY CountsAre, PositionsFinite, BoundAssumption DEF Balance, Typed
    <3>2. refs'[a] = refs[a] + IF Holds(f.kind) /\ ret.at = a THEN 1 ELSE 0
      BY <1>4, <1>6, <2>2, <3>1 DEF Typed
    <3>3. terms' = terms /\ lost' = lost /\ defining' = defining
      BY <1>4
    <3> QED
      BY <2>2, <3>1, <3>2, <3>3
  <2> QED
    BY <2>3, CountsAreNext DEF Balance
<1>17. TypeOK'
  BY <1>1, <1>4, <1>8, <1>15, TypesKept DEF TypeOK, None
<1>18. DefinedLive'
  BY <1>4 DEF DefinedLive
<1>19. SortsLive'
  <2>1. FlightLive
    BY WhatIsInFlight
  <2> SUFFICES ASSUME NEW i \in 1..n, NEW j \in 1..Len(frames'[i].got)
               PROVE  is'[frames'[i].got[j].at] = frames'[i].got[j].is
    BY <1>4, <1>8, <1>14, WhatIsInFlightNext DEF FlightLive, None
  <2>2. CASE i = n /\ j = Len(f.got) + 1
    BY <1>4, <1>8, <1>12, <2>1, <2>2 DEF FlightLive
  <2>3. CASE i = n /\ j # Len(f.got) + 1
    <3>1. j \in 1..Len(f.got) /\ frames'[i].got[j] = f.got[j]
      BY <1>8, <1>9, <1>12, <2>3
    <3> QED
      BY <1>4, <1>6, <1>7, <2>1, <3>1 DEF FlightLive
  <2>4. CASE i # n
    <3>1. i \in 1..Len(frames) /\ frames'[i] = frames[i]
      BY <1>6, <1>8, <2>4
    <3> QED
      BY <1>4, <2>1, <3>1 DEF FlightLive
  <2> QED
    BY <2>2, <2>3, <2>4
<1> QED
  BY <1>4, <1>14, <1>15, <1>16, <1>17, <1>18, <1>19 DEF Keeps

\* The call that has all its sorts makes its node of them: they are what they were
\* when they were made, so Z3 is given the arguments that the node names.
LEMMA NodeLive ==
  ASSUME Inv, Complete
  PROVE  Node # Free /\ ArgsLive(is, Node) /\ {g.at : g \in Got} = ArgsOf(is, Node)
<1> USE DEF Inv
<1>1. PICK f : f = Top
  OBVIOUS
<1>2. /\ f.kind \in Kinds /\ Len(f.got) \in Nat /\ f = frames[Depth] /\ Depth \in 1..Len(frames)
      /\ \A j \in 1..Len(f.got) : f.got[j].at \in Addrs /\ f.got[j].is # Free
  BY <1>1, Innermost DEF Complete, FrameOK, IsSeq, Top, Depth
<1>3. \A j \in 1..Len(f.got) : is[f.got[j].at] = f.got[j].is
  BY <1>2, WhatIsInFlight DEF FlightLive
<1>4. /\ Node.op = f.kind /\ Node.args = [j \in 1..Len(f.got) |-> f.got[j].is]
      /\ DOMAIN Node.args = 1..Len(f.got) /\ \A j \in 1..Len(f.got) : Node.args[j] = f.got[j].is
  BY <1>1 DEF Node
<1>5. Free.op = "free"
  BY DEF Free
<1>6. Node # Free
  BY <1>2, <1>4, <1>5 DEF Kinds
<1>7. ArgsLive(is, Node)
  BY <1>2, <1>3, <1>4 DEF ArgsLive
<1>8. ASSUME NEW k
      PROVE  k \in {g.at : g \in Got} <=> k \in ArgsOf(is, Node)
  <2>1. k \in {g.at : g \in Got} <=> \E j \in 1..Len(f.got) : k = f.got[j].at
    BY <1>1 DEF Got
  <2>2. k \in ArgsOf(is, Node) <=> k \in Addrs /\ \E j \in 1..Len(f.got) : is[k] = f.got[j].is
    BY <1>4 DEF ArgsOf
  <2>3. ASSUME k \in Addrs, NEW j \in 1..Len(f.got)
        PROVE  k = f.got[j].at <=> is[k] = f.got[j].is
    BY <1>2, <1>3, <2>3 DEF Heap, Alike
  <2> QED
    BY <1>2, <2>1, <2>2, <2>3
<1> QED
  BY <1>6, <1>7, <1>8

\* What Z3 has after that call.
LEMMA MadeHeap ==
  ASSUME Inv, Complete, NEW a \in Addrs, NEW r, Returns(a, Node, {g.at : g \in Got}, r)
  PROVE  /\ Heap(is, below)' /\ Keeps /\ refs' = r /\ last' = a
         /\ is'[a] = Node /\ Node # Free
<1> DEFINE d == Node
           kids == {g.at : g \in Got}
<1>1. Heap(is, below) /\ d # Free /\ ArgsLive(is, d) /\ kids = ArgsOf(is, d) /\ Returns(a, d, kids, r)
  BY NodeLive DEF Inv
<1> HIDE DEF d, kids
<1>2. /\ Heap(is', below') /\ refs' = r /\ last' = a /\ is'[a] = d
      /\ \A b \in Addrs : r[b] > 0 /\ is[b] # Free => is'[b] = is[b]
  BY <1>1, ReturnsHeap
<1> QED
  BY <1>1, <1>2 DEF Keeps, d

\* The calls around it: each has waited, and holds the sorts it has.
LEMMA Outer ==
  ASSUME Inv, Complete, PopFrame
  PROVE  /\ IsSeq(frames') /\ Depth' = Depth - 1 /\ Len(frames') = Depth - 1
         /\ Depth \in Nat /\ Depth > 0 /\ (MakesSort(Top.kind) <=> Depth > 1)
         /\ \A i \in 1..(Depth - 1) : /\ frames'[i] = frames[i] /\ FrameOK(frames[i], i)
                                      /\ Len(frames[i].got) < frames[i].want
                                      /\ \A j \in 1..Len(frames[i].got) : Holds(frames[i].kind)
         /\ Released \in [Addrs -> Nat]
         /\ \A a \in Addrs : Released[a] = terms[a] + Cardinality(Hand(frames', a))
                                + Cardinality(Positions(defining, a)) + lost[a]
<1> USE DEF Inv
<1>1. Depth > 0 /\ ret = None
  BY DEF Complete
<1>2. PICK outer : outer = SubSeq(frames, 1, Depth - 1)
  OBVIOUS
<1>3. frames' = outer
  BY <1>2 DEF PopFrame
<1>4. /\ Depth \in Nat /\ FrameOK(Top, Depth)
      /\ IsSeq(outer) /\ Len(outer) = Depth - 1
      /\ \A i \in 1..(Depth - 1) : outer[i] = frames[i]
      /\ \A a : /\ InHand(a) = Cardinality(Hand(outer, a)) + HeldIn(Top, a)
                /\ Cardinality(Hand(outer, a)) \in Nat /\ HeldIn(Top, a) \in Nat
  BY <1>1, <1>2, Innermost
<1>5. Depth' = Depth - 1
  BY <1>3, <1>4 DEF Depth
<1>6. ASSUME NEW i \in 1..(Depth - 1)
      PROVE  /\ FrameOK(frames[i], i) /\ Len(frames[i].got) < frames[i].want
             /\ \A j \in 1..Len(frames[i].got) : Holds(frames[i].kind)
  <2>1. i \in 1..Depth /\ i < Depth
    BY <1>4
  <2>2. FrameOK(frames[i], i)
    BY <2>1 DEF Calls
  <2>3. Len(frames[i].got) < frames[i].want
    BY <2>1, <2>2 DEF FrameOK
  <2> QED
    BY <2>1, <2>2, <2>3, Pending
<1>7. ASSUME NEW a \in Addrs
      PROVE  /\ refs[a] - HeldIn(Top, a) = terms[a] + Cardinality(Hand(outer, a))
                            + Cardinality(Positions(defining, a)) + lost[a]
             /\ refs[a] - HeldIn(Top, a) \in Nat
  <2>1. /\ terms[a] \in Nat /\ lost[a] \in Nat /\ Cardinality(Positions(defining, a)) \in Nat
        /\ refs[a] = terms[a] + Cardinality(Hand(frames, a))
                       + Cardinality(Positions(defining, a)) + lost[a]
    BY PositionsFinite, CountsAre, BoundAssumption DEF Typed, Balance
  <2>2. Cardinality(Hand(frames, a)) = Cardinality(Hand(outer, a)) + HeldIn(Top, a)
    BY <1>4, InHandIs
  <2> QED
    BY <1>4, <2>1, <2>2
<1>8. /\ Released \in [Addrs -> Nat]
      /\ \A a \in Addrs : Released[a] = refs[a] - HeldIn(Top, a)
  BY <1>7 DEF Released
<1>9. MakesSort(Top.kind) <=> Depth > 1
  BY <1>4 DEF FrameOK
<1> QED
  BY <1>1, <1>3, <1>4, <1>5, <1>6, <1>7, <1>8, <1>9

\* The call is over: its node is what sortOf returns to the call around it, or the
\* program's, or a declaration that is now being defined.
LEMMA CallOver ==
  ASSUME Inv, Complete, PopFrame, Heap(is, below)', Keeps, HoldsBalance',
         IsSeq(defining'), Len(defining') <= MaxDefining,
         \A i \in 1..Len(defining') :
            \/ i \in 1..Len(defining) /\ defining'[i] = defining[i]
            \/ /\ defining'[i].at \in Addrs /\ defining'[i].is # Free
               /\ is'[defining'[i].at] = defining'[i].is,
         refs' \in [Addrs -> Nat], lost' \in [Addrs -> Nat], terms' \in [Addrs -> 0..MaxTerms],
         last' \in Addrs \cup {NoAddr}, registry' \in [Uninterpreted -> Addrs \cup {NoAddr}],
         ret' = None \/ (Depth > 1 /\ ret'.at \in Addrs /\ ret'.is # Free /\ is'[ret'.at] = ret'.is)
  PROVE  Inv' /\ Keeps
<1> USE DEF Inv
<1>1. PICK m : m = Depth - 1
  OBVIOUS
<1>2. /\ IsSeq(frames') /\ Depth' = m /\ Len(frames') = m /\ m \in Nat /\ m < MaxDepth
      /\ Depth \in Nat /\ m < Depth
      /\ \A i \in 1..m : /\ frames'[i] = frames[i] /\ FrameOK(frames[i], i)
                         /\ Len(frames[i].got) < frames[i].want
                         /\ \A j \in 1..Len(frames[i].got) : Holds(frames[i].kind)
  BY <1>1, Outer, BoundAssumption DEF TypeOK
<1>3. Typed'
  <2>1. \A i \in 1..Len(defining') : defining'[i].at \in Addrs /\ defining'[i].is # Free
    BY DEF Typed
  <2> QED
    BY <2>1 DEF Typed
<1>4. Calls'
  <2>1. ASSUME NEW i \in 1..m
        PROVE  FrameOK(frames[i], i)'
    <3>1. frames'[i] = frames[i] /\ FrameOK(frames[i], i) /\ Len(frames[i].got) < frames[i].want
      BY <1>2
    <3> QED
      BY <3>1 DEF FrameOK
  <2>2. ASSUME ret' # None
        PROVE  m > 0 /\ Len(frames'[m].got) < frames'[m].want /\ ret'.at \in Addrs /\ ret'.is # Free
    <3>1. m \in 1..m /\ ret'.at \in Addrs /\ ret'.is # Free
      BY <1>1, <1>2, <2>2
    <3>2. frames'[m] = frames[m] /\ Len(frames[m].got) < frames[m].want
      BY <1>2, <3>1
    <3> QED
      BY <1>2, <3>1, <3>2
  <2> QED
    BY <1>2, <2>1, <2>2 DEF Calls, Top, None
<1>5. TypeOK'
  <2>1. ret'.at \in Addrs \cup {NoAddr}
    BY DEF None
  <2> QED
    BY <1>2, <1>3, <2>1, TypesKept, BoundAssumption
<1>6. DefinedLive'
  BY <1>3, <1>4, DefinedKept
<1>7. SortsLive'
  <2>1. ret' # None => is'[ret'.at] = ret'.is
    OBVIOUS
  <2>2. ASSUME NEW i \in 1..Len(frames'), NEW j \in 1..Len(frames'[i].got)
        PROVE  /\ Holds(frames'[i].kind) /\ i \in 1..Depth /\ j \in 1..Len(frames[i].got)
               /\ frames'[i].got[j] = frames[i].got[j]
    <3>1. i \in 1..m /\ i \in 1..Depth
      BY <1>2
    <3>2. frames'[i] = frames[i] /\ \A k \in 1..Len(frames[i].got) : Holds(frames[i].kind)
      BY <1>2, <3>1
    <3> QED
      BY <3>1, <3>2
  <2> QED
    BY <1>3, <1>4, <2>1, <2>2, SortsKept DEF None
<1> QED
  BY <1>3, <1>4, <1>5, <1>6, <1>7

LEMMA MakeSortInv == ASSUME Inv, NEW a \in Addrs, MakeSort(a) PROVE Inv' /\ Keeps
<1> USE DEF Inv
<1>1. /\ Complete /\ MakesSort(Top.kind) /\ PopFrame /\ ret' = [at |-> a, is |-> Node]
      /\ Returns(a, Node, {g.at : g \in Got}, Released)
      /\ UNCHANGED <<registry, terms, lost, defining>>
  BY DEF MakeSort
<1>2. /\ Heap(is, below)' /\ Keeps /\ refs' = Released /\ last' = a /\ is'[a] = Node /\ Node # Free
  BY <1>1, MadeHeap
<1>3. /\ Depth > 1 /\ Released \in [Addrs -> Nat]
      /\ \A b \in Addrs : Released[b] = terms[b] + Cardinality(Hand(frames', b))
                             + Cardinality(Positions(defining, b)) + lost[b]
  BY <1>1, Outer
<1>4. HoldsBalance'
  BY <1>1, <1>2, <1>3, CountsAreNext DEF Balance
<1>5. ret'.at = a /\ ret'.is = Node
  BY <1>1
<1> QED
  BY <1>1, <1>2, <1>3, <1>4, <1>5, CallOver DEF Typed, TypeOK

OneMore(counts, a) == [counts EXCEPT ![a] = @ + 1]

\* The counts after a call that counts its node: what the calls around it, the program
\* and the definitions had, and one more.
LEMMA CountedOnce ==
  ASSUME Inv, Complete, PopFrame, NEW a \in Addrs, NEW r, r = OneMore(Released, a)
  PROVE  /\ r \in [Addrs -> Nat]
         /\ \A b \in Addrs :
              /\ r[b] = (terms[b] + Cardinality(Hand(frames', b))
                         + Cardinality(Positions(defining, b)) + lost[b]) + IF b = a THEN 1 ELSE 0
              /\ terms[b] \in Nat /\ lost[b] \in Nat
              /\ Cardinality(Hand(frames', b)) \in Nat /\ Cardinality(Positions(defining, b)) \in Nat
<1>1. /\ Released \in [Addrs -> Nat] /\ IsSeq(frames')
      /\ \A b \in Addrs : Released[b] = terms[b] + Cardinality(Hand(frames', b))
                             + Cardinality(Positions(defining, b)) + lost[b]
  BY Outer
<1>2. \A b \in Addrs : terms[b] \in Nat /\ lost[b] \in Nat
  BY BoundAssumption DEF Inv, Typed
<1>3. \A b : Cardinality(Hand(frames', b)) \in Nat /\ Cardinality(Positions(defining, b)) \in Nat
  BY <1>1, HandFinite, PositionsFinite DEF Inv, Typed
<1>4. r \in [Addrs -> Nat] /\ \A b \in Addrs : r[b] = Released[b] + IF b = a THEN 1 ELSE 0
  BY <1>1 DEF OneMore
<1> QED
  BY <1>1, <1>2, <1>3, <1>4

LEMMA MakeTermInv == ASSUME Inv, NEW a \in Addrs, MakeTerm(a) PROVE Inv' /\ Keeps
<1> USE DEF Inv
<1>1. PICK r : r = OneMore(Released, a)
  OBVIOUS
<1>2. /\ Complete /\ Top.kind \in {"decl", "const"} /\ PopFrame /\ terms[a] < MaxTerms
      /\ Returns(a, Node, {g.at : g \in Got}, r) /\ terms' = [terms EXCEPT ![a] = @ + 1]
      /\ UNCHANGED <<registry, ret, lost, defining>>
  BY <1>1 DEF MakeTerm, OneMore
<1>3. Heap(is, below)' /\ Keeps /\ refs' = r /\ last' = a
  BY <1>2, MadeHeap
<1>4. /\ r \in [Addrs -> Nat]
      /\ \A b \in Addrs :
           /\ r[b] = (terms[b] + Cardinality(Hand(frames', b))
                      + Cardinality(Positions(defining, b)) + lost[b]) + IF b = a THEN 1 ELSE 0
           /\ terms[b] \in Nat /\ lost[b] \in Nat
           /\ Cardinality(Hand(frames', b)) \in Nat /\ Cardinality(Positions(defining, b)) \in Nat
  BY <1>1, <1>2, CountedOnce
<1>5. /\ terms' \in [Addrs -> 0..MaxTerms]
      /\ \A b \in Addrs : terms'[b] = terms[b] + IF b = a THEN 1 ELSE 0
  BY <1>2, BoundAssumption DEF Typed
<1>6. HoldsBalance'
  <2>1. ASSUME NEW b \in Addrs
        PROVE  refs'[b] = terms'[b] + Cardinality(Hand(frames', b))
                            + Cardinality(Positions(defining', b)) + lost'[b]
    <3>1. defining' = defining /\ lost' = lost
      BY <1>2
    <3> QED
      BY <1>3, <1>4, <1>5, <3>1
  <2> QED
    BY <2>1, CountsAreNext DEF Balance
<1>7. ret' = None
  BY <1>2 DEF Complete
<1> QED
  BY <1>2, <1>3, <1>4, <1>5, <1>6, <1>7, CallOver DEF Typed, TypeOK

LEMMA MakeRecInv ==
  ASSUME Inv, NEW a \in Addrs, NEW self \in BOOLEAN, MakeRec(a, self) PROVE Inv' /\ Keeps
<1> USE DEF Inv
<1>1. PICK r : r = OneMore(Released, a)
  OBVIOUS
<1>2. PICK e : e = [at |-> a, is |-> Node, self |-> self]
  OBVIOUS
<1>3. /\ Complete /\ Top.kind = "rec" /\ PopFrame /\ Len(defining) < MaxDefining
      /\ Returns(a, Node, {g.at : g \in Got}, r) /\ defining' = Append(defining, e)
      /\ UNCHANGED <<registry, terms, ret, lost>>
  BY <1>1, <1>2 DEF MakeRec, OneMore
<1>4. Heap(is, below)' /\ Keeps /\ refs' = r /\ last' = a /\ is'[a] = Node /\ Node # Free
  BY <1>3, MadeHeap
<1>5. /\ r \in [Addrs -> Nat]
      /\ \A b \in Addrs :
           /\ r[b] = (terms[b] + Cardinality(Hand(frames', b))
                      + Cardinality(Positions(defining, b)) + lost[b]) + IF b = a THEN 1 ELSE 0
           /\ terms[b] \in Nat /\ lost[b] \in Nat
           /\ Cardinality(Hand(frames', b)) \in Nat /\ Cardinality(Positions(defining, b)) \in Nat
  BY <1>1, <1>3, CountedOnce
<1>6. /\ IsSeq(defining) /\ Len(defining) \in Nat /\ IsSeq(defining')
      /\ Len(defining') = Len(defining) + 1 /\ defining'[Len(defining) + 1] = e
      /\ \A i \in 1..Len(defining) : defining'[i] = defining[i]
  BY <1>3, SeqAppend DEF Typed, IsSeq
<1>7. e.at = a /\ e.is = Node
  BY <1>2
<1>8. HoldsBalance'
  <2>1. ASSUME NEW b \in Addrs
        PROVE  refs'[b] = terms'[b] + Cardinality(Hand(frames', b))
                            + Cardinality(Positions(defining', b)) + lost'[b]
    <3>1. Cardinality(Positions(defining', b)) =
            Cardinality(Positions(defining, b)) + IF defining'[Len(defining) + 1].at = b THEN 1 ELSE 0
      BY <1>6, PositionsLast
    <3>2. terms' = terms /\ lost' = lost
      BY <1>3
    <3>3. (defining'[Len(defining) + 1].at = b) <=> (b = a)
      BY <1>6, <1>7
    <3> QED
      BY <1>4, <1>5, <3>1, <3>2, <3>3
  <2> QED
    BY <2>1, CountsAreNext DEF Balance
<1>9. ASSUME NEW i \in 1..Len(defining')
      PROVE  \/ i \in 1..Len(defining) /\ defining'[i] = defining[i]
             \/ /\ defining'[i].at \in Addrs /\ defining'[i].is # Free
                /\ is'[defining'[i].at] = defining'[i].is
  <2>1. CASE i = Len(defining) + 1
    BY <1>4, <1>6, <1>7, <2>1
  <2>2. CASE i # Len(defining) + 1
    BY <1>6, <2>2
  <2> QED
    BY <2>1, <2>2
<1>10. ret' = None
  BY <1>3 DEF Complete
<1>11. Len(defining') <= MaxDefining
  BY <1>3, <1>6, BoundAssumption
<1>12. /\ lost' \in [Addrs -> Nat] /\ terms' \in [Addrs -> 0..MaxTerms]
       /\ registry' \in [Uninterpreted -> Addrs \cup {NoAddr}]
  BY <1>3 DEF Typed, TypeOK
<1> QED
  BY <1>3, <1>4, <1>5, <1>6, <1>8, <1>9, <1>10, <1>11, <1>12, CallOver

LEMMA StepKeeps == Inv /\ [Next]_vars => Inv' /\ Keeps
<1> SUFFICES ASSUME Inv, [Next]_vars PROVE Inv' /\ Keeps
  OBVIOUS
<1>1. ASSUME NEW kind \in {"array", "seq", "decl", "const", "rec"},
             NEW n \in 1..(MaxArgs + 2), Begin(kind, n)
      PROVE  Inv' /\ Keeps
  BY <1>1, BeginInv DEF Kinds
<1>2. ASSUME NEW f \in Families, NEW a \in Addrs, MakeLeaf(f, a) PROVE Inv' /\ Keeps
  BY <1>2, MakeLeafInv
<1>3. ASSUME NEW u \in Uninterpreted, NEW a \in Addrs, DeclareUninterpretedSort(u, a) PROVE Inv' /\ Keeps
  BY <1>3, DeclareUninterpretedSortInv
<1>4. ASSUME NEW a \in Addrs, MakeSort(a) PROVE Inv' /\ Keeps
  BY <1>4, MakeSortInv
<1>5. ASSUME NEW a \in Addrs, MakeTerm(a) PROVE Inv' /\ Keeps
  BY <1>5, MakeTermInv
<1>6. ASSUME NEW a \in Addrs, DropTerm(a) PROVE Inv' /\ Keeps
  BY <1>6, DropTermInv
<1>7. ASSUME NEW a \in Addrs, NEW self \in BOOLEAN, MakeRec(a, self) PROVE Inv' /\ Keeps
  BY <1>7, MakeRecInv
<1>8. CASE Take
  BY <1>8, TakeInv
<1>9. CASE Raise
  BY <1>9, RaiseInv
<1>10. CASE AddRecDef
  BY <1>10, AddRecDefInv
<1>11. CASE BodyRaises
  BY <1>11, BodyRaisesInv
<1>12. CASE OtherCall
  BY <1>12, OtherCallInv
<1>13. ASSUME NEW u \in Uninterpreted, Lookup(u) PROVE Inv' /\ Keeps
  BY <1>13, LookupInv
<1>14. CASE UNCHANGED vars
  <2>1. UNCHANGED <<is, below, refs, last, registry, terms, frames, ret, defining, lost>>
    BY <1>14 DEF vars, z3Vars
  <2>2. Typed' /\ Heap(is, below)' /\ DefinedLive'
    BY <2>1 DEF Inv, Typed, Heap, DefinedLive
  <2>3. Calls'
    BY <2>1 DEF Inv, Calls, FrameOK, Depth, Top, None
  <2>4. TypeOK' /\ HoldsBalance'
    BY <2>1 DEF Inv, TypeOK, Depth, HoldsBalance, InHand, BeingDefined
  <2>5. SortsLive'
    BY <2>1 DEF Inv, SortsLive, InFlight, Depth, None
  <2> QED
    BY <2>1, <2>2, <2>3, <2>4, <2>5 DEF Inv, Keeps
<1> QED
  BY <1>1, <1>2, <1>3, <1>4, <1>5, <1>6, <1>7, <1>8, <1>9, <1>10, <1>11, <1>12, <1>13, <1>14
     DEF Next, Step

\* What the program keeps is a node: a term that is counted was given to it by
\* MakeTerm, or by the definition that AddRecDef ended, as the node it then was.
KeptLive == \A a \in Addrs : terms[a] > 0 => is[a] # Free

KeptStep == \A a \in Addrs : terms[a] > 0 /\ terms'[a] > 0 => is'[a] = is[a]

LEMMA KeptLiveStep == Inv /\ KeptLive /\ [Next]_vars => KeptLive' /\ KeptStep
<1> SUFFICES ASSUME Inv, KeptLive, [Next]_vars PROVE KeptLive' /\ KeptStep
  OBVIOUS
<1>1. Inv' /\ Keeps
  BY StepKeeps
<1>2. ASSUME NEW a \in Addrs, terms'[a] > 0
      PROVE  refs'[a] > 0
  <2>1. IsSeq(frames') /\ IsSeq(defining') /\ lost'[a] \in Nat /\ terms'[a] \in Nat
    BY <1>1, BoundAssumption DEF Inv, Calls, Typed
  <2>2. /\ Cardinality(Hand(frames', a)) \in Nat /\ Cardinality(Positions(defining', a)) \in Nat
    BY <2>1, HandFinite, PositionsFinite
  <2>3. Balance'
    BY <1>1, CountsAreNext DEF Inv
  <2> QED
    BY <1>2, <2>1, <2>2, <2>3 DEF Balance
<1>3. ASSUME NEW a \in Addrs, terms[a] > 0, terms'[a] > 0
      PROVE  is'[a] = is[a] /\ is[a] # Free
  BY <1>1, <1>2, <1>3 DEF Keeps, KeptLive
<1>4. \A a \in Addrs : terms[a] \in Nat
  BY BoundAssumption DEF Inv, Typed
<1>5. ASSUME NEW a \in Addrs, terms'[a] > 0, ~(terms[a] > 0)
      PROVE  is'[a] # Free
  <2>1. terms' # terms
    BY <1>5
  <2>2. ASSUME NEW b \in Addrs, MakeTerm(b) PROVE is'[a] # Free
    <3>1. PICK r : r = OneMore(Released, b)
      OBVIOUS
    <3>2. /\ Complete /\ Returns(b, Node, {g.at : g \in Got}, r)
          /\ terms' = [terms EXCEPT ![b] = @ + 1]
      BY <2>2, <3>1 DEF MakeTerm, OneMore
    <3>3. is'[b] = Node /\ Node # Free
      BY <3>2, MadeHeap
    <3>4. a = b
      BY <1>5, <3>2
    <3> QED
      BY <3>3, <3>4
  <2>3. ASSUME AddRecDef PROVE is'[a] # Free
    <3>1. /\ defining # <<>> /\ PopDefined /\ is' = is
          /\ terms' = [terms EXCEPT ![Defined.at] = @ + 1]
      BY <2>3 DEF AddRecDef, z3Vars
    <3>2. /\ IsSeq(defining) /\ Len(defining) \in Nat /\ Len(defining') \in Nat
          /\ Len(defining') = Len(defining) - 1
      BY <1>1, <3>1, DefinedPopped DEF Inv, Typed, IsSeq
    <3>3. is[Defined.at] = Defined.is /\ Defined.is # Free
      BY <3>2 DEF Inv, Typed, DefinedLive, Defined
    <3>4. a = Defined.at
      BY <1>5, <3>1
    <3> QED
      BY <3>1, <3>3, <3>4
  <2>4. ASSUME NEW b \in Addrs, DropTerm(b) PROVE FALSE
    <3>1. terms' = [terms EXCEPT ![b] = @ - 1] /\ terms[b] > 0
      BY <2>4 DEF DropTerm
    <3>2. a = b
      BY <1>5, <3>1
    <3> QED
      BY <1>5, <3>1, <3>2
  <2>5. (\E b \in Addrs : MakeTerm(b) \/ DropTerm(b)) \/ AddRecDef
    BY <2>1 DEF Next, Step, Begin, MakeLeaf, DeclareUninterpretedSort, MakeSort, MakeRec, Take, Raise,
                BodyRaises, OtherCall, Lookup, LookupAsDocumented, vars
  <2> QED
    BY <2>2, <2>3, <2>4, <2>5
<1>6. KeptLive'
  BY <1>3, <1>5 DEF KeptLive
<1>7. KeptStep
  BY <1>3 DEF KeptStep
<1> QED
  BY <1>6, <1>7

-----------------------------------------------------------------------------
(* The theorems.                                                           *)

\* Every state of the program satisfies the inductive invariant: hash-consed sorts,
\* whole graphs of what keeps them, calls that hold what they wait with, and counts
\* that are the sum of the holds.
THEOREM Safety == Spec => []Inv
<1> QED
  BY InitInv, StepKeeps, PTL DEF Spec

\* Counts, nodes, frames and definitions stay within their types and bounds
\* (sortOf, mkFuncDecl and defineRecFun of z3/sortdispatch and z3/functions).
THEOREM TypeCorrect == Spec => []TypeOK
<1>1. Inv => TypeOK
  BY DEF Inv
<1> QED
  BY <1>1, Safety, PTL

\* However deep the types nest and however many sorts a signature has, no sort dangles
\* between the call that makes it and the call that consumes it (heldSortOfType).
THEOREM SortsStayLive == Spec => []SortsLive
<1>1. Inv => SortsLive
  BY DEF Inv
<1> QED
  BY <1>1, Safety, PTL

\* Whatever the bodies of nested definitions make, drop or raise, the declaration that
\* reaches Z3_add_rec_def is the one that was made (defineFun, defineRecFun).
THEOREM DefinedStaysLive == Spec => []DefinedLive
<1>1. Inv => DefinedLive
  BY DEF Inv
<1> QED
  BY <1>1, Safety, PTL

\* Every hold is released once, or left behind by the exception that is counted for it:
\* nothing is released twice and nothing else leaks (releaseSort, releaseSorts).
THEOREM HoldsAreBalanced == Spec => []HoldsBalance
<1>1. Inv => HoldsBalance
  BY DEF Inv
<1> QED
  BY <1>1, Safety, PTL

\* Whatever calls come between, collect, fail or define functions, a declaration or a
\* value that the program keeps is the node it was made as (defineRecFun counts its
\* result before self goes).
THEOREM KeptValuesStay == Spec => KeptStays
<1>1. Init => KeptLive
  BY DEF Init, KeptLive
<1>2. Spec => [][KeptStep]_vars
  BY <1>1, InitInv, StepKeeps, KeptLiveStep, PTL DEF Spec
<1>3. KeptStays <=> [][KeptStep]_vars
  BY DEF KeptStays, KeptStep
<1> QED
  BY <1>2, <1>3
=============================================================================
