-------------------------- MODULE LifecycleProofs --------------------------
(***************************************************************************)
(* The ownership invariants of Lifecycle, for any number of contexts,      *)
(* ASTs, values, handles and nested withContext blocks; and what is left   *)
(* of them with the incomplete hooks of FuncInterps.                       *)
(***************************************************************************)
EXTENDS FuncInterps, FiniteSetTheorems, TLAPS

\* Inv, but for references to contexts that are counted and that nothing holds:
\* none where every hook is complete (Spec), and never one more by the steps of
\* Next, also where there are some (InterpSpec).
ExactBut(extra) ==
    \A c \in Contexts : strong[c] = Tally(Holders, holds, c) + extra[c]
InvBut(extra) ==
    ExactBut(extra) /\ RefsExact /\ HandlesValid /\ HookInv /\ NoContextLeak
NoExtra == [c \in Contexts |-> 0]

-----------------------------------------------------------------------------
(* Counting.                                                               *)

\* The finitely many locations that can refer to a context.
LEMMA HoldersFinite == IsFiniteSet(Holders) /\ IsFiniteSet(Values)
<1>1. IsFiniteSet(Prevs)
  BY FS_Interval, BoundAssumption DEF Prevs
<1>2. IsFiniteSet({Current})
  BY FS_Singleton
<1> QED
  BY <1>1, <1>2, FS_Union, FiniteAssumption DEF Holders

LEMMA TallyType ==
  ASSUME NEW S, IsFiniteSet(S), NEW f, NEW x
  PROVE  Tally(S, f, x) \in Nat
BY FS_Subset, FS_CardinalityType DEF Tally

\* g is f but for a.
SameBut(S, f, g, a) == \A s \in S : s # a => g[s] = f[s]

\* Pointing one location elsewhere adds it to one count and takes it from
\* another.
LEMMA CountUpdate ==
  ASSUME NEW S, IsFiniteSet(S), NEW f, NEW g, NEW a \in S, NEW x,
         SameBut(S, f, g, a)
  PROVE  Tally(S, g, x) = Tally(S, f, x) + Same(x, g[a]) - Same(x, f[a])
<1> DEFINE old == {s \in S : f[s] = x}
           new == {s \in S : g[s] = x}
<1>1. IsFiniteSet(old) /\ IsFiniteSet(new)
  BY FS_Subset
<1>2. /\ Cardinality(old) \in Nat /\ Cardinality(new) \in Nat
      /\ Tally(S, f, x) = Cardinality(old) /\ Tally(S, g, x) = Cardinality(new)
  BY <1>1, FS_CardinalityType DEF Tally
<1>3. CASE x = g[a] /\ x # f[a]
  <2>1. new = old \cup {a} /\ a \notin old
    BY <1>3 DEF SameBut
  <2> HIDE DEF old, new
  <2> QED
    BY <2>1, <1>1, <1>2, <1>3, FS_AddElement DEF Same
<1>4. CASE x # g[a] /\ x = f[a]
  <2>1. new = old \ {a} /\ a \in old
    BY <1>4 DEF SameBut
  <2> HIDE DEF old, new
  <2> QED
    BY <2>1, <1>1, <1>2, <1>4, FS_RemoveElement DEF Same
<1>5. CASE (x = g[a]) <=> (x = f[a])
  <2>1. new = old
    BY <1>5 DEF SameBut
  <2> HIDE DEF old, new
  <2> QED
    BY <2>1, <1>2, <1>5 DEF Same
<1> QED
  BY <1>3, <1>4, <1>5

\* A count of one leaves no second location, a location makes it positive.
LEMMA CountOne ==
  ASSUME NEW S, IsFiniteSet(S), NEW f, NEW a \in S
  PROVE  LET n == Tally(S, f, f[a])
         IN  /\ n \in Nat /\ n > 0
             /\ n = 1 => \A s \in S : f[s] = f[a] => s = a
<1> DEFINE all == {s \in S : f[s] = f[a]}
<1>1. IsFiniteSet(all) /\ a \in all
  BY FS_Subset
<1>2. Cardinality(all) \in Nat /\ Cardinality(all) # 0
  BY <1>1, FS_CardinalityType, FS_EmptySet
<1>3. ASSUME Cardinality(all) = 1, NEW s \in S, f[s] = f[a]
      PROVE  s = a
  <2>1. PICK y : all = {y}
    BY <1>1, <1>3, FS_Singleton
  <2> QED
    BY <2>1, <1>1, <1>3
<1> QED
  BY <1>2, <1>3 DEF Tally

-----------------------------------------------------------------------------
(* The effects the actions are made of.                                    *)

\* One location is pointed at c, two are pointed at b and c, a value takes the
\* raw handle a: with the counts that go with it.
PointOne(h, c) == holds' = [holds EXCEPT ![h] = c] /\ Count(c, 1, holds[h])
PointTwo(x, b, y, c) ==
  /\ holds' = [holds EXCEPT ![x] = b, ![y] = c]
  /\ strong' = [d \in Contexts |-> strong[d] + Same(d, b) - Same(d, holds[x])
                                             + Same(d, c) - Same(d, holds[y])]
Carry(v, a) ==
  /\ raw' = [raw EXCEPT ![v] = a]
  /\ zref' = [b \in Asts |-> zref[b] + Same(b, a) - Same(b, raw[v])]

\* Each of them keeps the counts exact.
LEMMA HoldOne ==
  ASSUME NEW extra \in [Contexts -> Nat], TypeOK, ExactBut(extra),
         NEW h \in Holders, NEW c \in Contexts \cup {NoCtx}, PointOne(h, c)
  PROVE  /\ ExactBut(extra)'
         /\ strong' \in [Contexts -> Nat]
         /\ holds' \in [Holders -> Contexts \cup {NoCtx}]
<1> USE DEF PointOne
<1>1. holds \in [Holders -> Contexts \cup {NoCtx}] /\ strong \in [Contexts -> Nat]
  BY DEF TypeOK
<1>2. holds' \in [Holders -> Contexts \cup {NoCtx}]
  BY <1>1
<1>3. ASSUME NEW d \in Contexts
      PROVE  /\ strong'[d] = Tally(Holders, holds', d) + extra[d]
             /\ strong'[d] \in Nat
  <2>1. Tally(Holders, holds', d)
          = Tally(Holders, holds, d) + Same(d, c) - Same(d, holds[h])
    <3> DEFINE new == holds'
    <3>1. new[h] = c /\ SameBut(Holders, holds, new, h)
      BY <1>1 DEF SameBut
    <3> HIDE DEF new
    <3>2. Tally(Holders, new, d)
            = Tally(Holders, holds, d) + Same(d, new[h]) - Same(d, holds[h])
      BY <3>1, HoldersFinite, CountUpdate
    <3> QED
      BY <3>1, <3>2 DEF new
  <2>2. strong[d] = Tally(Holders, holds, d) + extra[d] /\ extra[d] \in Nat
    BY DEF ExactBut
  <2>3. strong'[d] = strong[d] + Same(d, c) - Same(d, holds[h])
    BY <1>1 DEF Count, Same
  <2>4. Tally(Holders, holds', d) \in Nat /\ Tally(Holders, holds, d) \in Nat
    BY HoldersFinite, TallyType
  <2>5. \A p, q : Same(p, q) \in {0, 1}
    BY DEF Same
  <2> QED
    BY <2>1, <2>2, <2>3, <2>4, <2>5
<1>4. strong' \in [Contexts -> Nat]
  BY <1>3 DEF Count
<1> QED
  BY <1>2, <1>3, <1>4 DEF ExactBut

LEMMA HoldTwo ==
  ASSUME NEW extra \in [Contexts -> Nat], TypeOK, ExactBut(extra),
         NEW x \in Holders, NEW y \in Holders, x # y,
         NEW b \in Contexts \cup {NoCtx}, NEW c \in Contexts \cup {NoCtx},
         PointTwo(x, b, y, c)
  PROVE  /\ ExactBut(extra)'
         /\ strong' \in [Contexts -> Nat]
         /\ holds' \in [Holders -> Contexts \cup {NoCtx}]
<1> USE DEF PointTwo
<1>1. holds \in [Holders -> Contexts \cup {NoCtx}] /\ strong \in [Contexts -> Nat]
  BY DEF TypeOK
<1> DEFINE mid == [holds EXCEPT ![x] = b]
<1>2. mid \in [Holders -> Contexts \cup {NoCtx}] /\ mid[y] = holds[y]
  BY <1>1
<1>3. holds' = [mid EXCEPT ![y] = c]
  BY <1>1
<1>4. holds' \in [Holders -> Contexts \cup {NoCtx}]
  BY <1>2, <1>3
<1>5. ASSUME NEW d \in Contexts
      PROVE  /\ strong'[d] = Tally(Holders, holds', d) + extra[d]
             /\ strong'[d] \in Nat
  <2>1. Tally(Holders, mid, d)
          = Tally(Holders, holds, d) + Same(d, b) - Same(d, holds[x])
    <3>1. mid[x] = b /\ SameBut(Holders, holds, mid, x)
      BY <1>1 DEF SameBut
    <3> HIDE DEF mid
    <3>2. Tally(Holders, mid, d)
            = Tally(Holders, holds, d) + Same(d, mid[x]) - Same(d, holds[x])
      BY <3>1, HoldersFinite, CountUpdate
    <3> QED
      BY <3>1, <3>2
  <2>2. Tally(Holders, holds', d)
          = Tally(Holders, mid, d) + Same(d, c) - Same(d, mid[y])
    <3> DEFINE new == holds'
    <3>1. new[y] = c /\ SameBut(Holders, mid, new, y)
      BY <1>2, <1>3 DEF SameBut
    <3> HIDE DEF mid, new
    <3>2. Tally(Holders, new, d)
            = Tally(Holders, mid, d) + Same(d, new[y]) - Same(d, mid[y])
      BY <3>1, HoldersFinite, CountUpdate
    <3> QED
      BY <3>1, <3>2 DEF new
  <2>3. strong[d] = Tally(Holders, holds, d) + extra[d] /\ extra[d] \in Nat
    BY DEF ExactBut
  <2>4. strong'[d] = strong[d] + Same(d, b) - Same(d, holds[x])
                               + Same(d, c) - Same(d, holds[y])
    BY <1>1
  <2>5. Tally(Holders, holds', d) \in Nat /\ Tally(Holders, holds, d) \in Nat
    BY HoldersFinite, TallyType
  <2>6. strong[d] \in Nat /\ \A p, q : Same(p, q) \in {0, 1}
    BY <1>1 DEF Same
  <2> QED
    BY <2>1, <2>2, <2>3, <2>4, <2>5, <2>6, <1>2
<1>6. strong' \in [Contexts -> Nat]
  BY <1>5
<1> QED
  BY <1>4, <1>5, <1>6 DEF ExactBut

\* Z3's count follows a value that trades one raw handle for another.
LEMMA CarryOne ==
  ASSUME TypeOK, RefsExact,
         NEW v \in Values, NEW a \in Asts \cup {NoAst}, Carry(v, a)
  PROVE  /\ RefsExact'
         /\ zref' \in [Asts -> Nat]
         /\ raw' \in [Values -> Asts \cup {NoAst}]
<1> USE DEF Carry
<1>1. raw \in [Values -> Asts \cup {NoAst}] /\ zref \in [Asts -> Nat]
  BY DEF TypeOK
<1>2. ASSUME NEW b \in Asts
      PROVE  /\ zref'[b] = Tally(Values, raw', b)
             /\ zref'[b] \in Nat
  <2>1. Tally(Values, raw', b)
          = Tally(Values, raw, b) + Same(b, a) - Same(b, raw[v])
    <3> DEFINE new == raw'
    <3>1. new[v] = a /\ SameBut(Values, raw, new, v)
      BY <1>1 DEF SameBut
    <3> HIDE DEF new
    <3>2. Tally(Values, new, b)
            = Tally(Values, raw, b) + Same(b, new[v]) - Same(b, raw[v])
      BY <3>1, HoldersFinite, CountUpdate
    <3> QED
      BY <3>1, <3>2 DEF new
  <2>2. zref[b] = Tally(Values, raw, b)
    BY DEF RefsExact
  <2>3. Tally(Values, raw', b) \in Nat
    BY HoldersFinite, TallyType
  <2> QED
    BY <2>1, <2>2, <2>3
<1>3. zref' \in [Asts -> Nat]
  BY <1>2
<1> QED
  BY <1>1, <1>2, <1>3 DEF RefsExact

\* A location that refers to a context is counted; at a count of one it is the
\* only one.
LEMMA Counted ==
  ASSUME NEW extra \in [Contexts -> Nat], TypeOK, ExactBut(extra),
         NEW h \in Holders, holds[h] # NoCtx
  PROVE  /\ strong[holds[h]] > 0
         /\ strong[holds[h]] = 1 =>
               \A g \in Holders : holds[g] = holds[h] => g = h
<1>1. holds[h] \in Contexts
  BY DEF TypeOK
<1> QED
  BY <1>1, HoldersFinite, CountOne DEF ExactBut

\* So a context that =destroy deletes has no holder but the one that let go.
LEMMA GoneUnheld ==
  ASSUME NEW extra \in [Contexts -> Nat], TypeOK, ExactBut(extra),
         NEW h \in Holders, NEW c, NEW g \in Holders, g # h
  PROVE  holds[g] \notin Destroyed(holds[h], c)
<1> SUFFICES ASSUME holds[g] \in Destroyed(holds[h], c) PROVE FALSE
  OBVIOUS
<1>1. holds[g] = holds[h] /\ strong[holds[h]] = 1 /\ holds[h] # NoCtx
  BY NilAssumption DEF Destroyed, Dies
<1> QED
  BY <1>1, Counted

\* Z3 deletes contexts nobody holds any more: nothing that is held moves.
LEMMA Z3Step ==
  ASSUME TypeOK, RefsExact, AstsAllocated, ObjectsAllocated,
         NEW born \in SUBSET Contexts, NEW gone \in SUBSET Contexts,
         Z3Contexts(born, gone), raw' = raw, shares' = shares,
         \A v \in Values : raw[v] # NoAst => holds'[v] = holds[v] /\ holds[v] \notin gone,
         \A o \in Cells : shares[o] > 0 => holds'[o] = holds[o] /\ holds[o] \notin gone
  PROVE  /\ RefsExact' /\ AstsAllocated' /\ ObjectsAllocated'
         /\ z3ctx' \in [Contexts -> {"none", "live", "deleted"}]
         /\ owner' \in [Asts -> Contexts \cup {NoCtx}]
         /\ zref' \in [Asts -> Nat]
         /\ cell' \in [Cells -> {"free", "owned", "borrowed"}]
         /\ objOwner' \in [Cells -> Contexts \cup {NoCtx}]
<1>1. /\ z3ctx' \in [Contexts -> {"none", "live", "deleted"}]
      /\ owner' \in [Asts -> Contexts \cup {NoCtx}]
      /\ zref' \in [Asts -> Nat]
      /\ cell' \in [Cells -> {"free", "owned", "borrowed"}]
      /\ objOwner' \in [Cells -> Contexts \cup {NoCtx}]
  BY DEF TypeOK, Z3Contexts
<1>2. AstsAllocated'
  BY DEF TypeOK, Z3Contexts, AstsAllocated
<1>3. ObjectsAllocated'
  BY DEF TypeOK, Z3Contexts, ObjectsAllocated
<1>4. ASSUME NEW a \in Asts
      PROVE  zref'[a] = Tally(Values, raw', a)
  <2>1. CASE owner[a] \notin gone
    BY <2>1 DEF TypeOK, Z3Contexts, RefsExact
  <2>2. CASE owner[a] \in gone
    <3>1. {v \in Values : raw'[v] = a} = {}
      BY <2>2, NilAssumption DEF TypeOK, AstsAllocated
    <3>2. zref'[a] = 0
      BY <2>2 DEF TypeOK, Z3Contexts
    <3> QED
      BY <3>1, <3>2, FS_EmptySet DEF Tally
  <2> QED
    BY <2>1, <2>2
<1> QED
  BY <1>1, <1>2, <1>3, <1>4 DEF RefsExact

\* Nim's assignment of a context reference, wherever the program or a hook makes
\* it: to a location that carries nothing of the context it gives up.
LEMMA AssignStep ==
  ASSUME NEW extra \in [Contexts -> Nat], TypeOK, InvBut(extra),
         NEW h \in Holders, NEW c \in Contexts \cup {NoCtx},
         Assign(h, c), UNCHANGED <<borrowed, raw, shares>>,
         c # NoCtx => z3ctx[c] = "live",
         h \in Values => raw[h] = NoAst,
         h \in Cells => shares[h] = 0
  PROVE  /\ ExactBut(extra)' /\ RefsExact' /\ HandlesValid' /\ NoContextLeak'
         /\ strong' \in [Contexts -> Nat]
         /\ holds' \in [Holders -> Contexts \cup {NoCtx}]
         /\ z3ctx' \in [Contexts -> {"none", "live", "deleted"}]
         /\ owner' \in [Asts -> Contexts \cup {NoCtx}]
         /\ zref' \in [Asts -> Nat]
         /\ cell' \in [Cells -> {"free", "owned", "borrowed"}]
         /\ objOwner' \in [Cells -> Contexts \cup {NoCtx}]
         /\ \A d \in Contexts : z3ctx[d] # "none" => z3ctx'[d] # "none"
<1> DEFINE gone == Destroyed(holds[h], c)
<1> USE DEF HandlesValid, InvBut
<1>1. holds \in [Holders -> Contexts \cup {NoCtx}] /\ strong \in [Contexts -> Nat]
  BY DEF TypeOK
<1>2. ExactBut(extra)' /\ strong' \in [Contexts -> Nat]
        /\ holds' \in [Holders -> Contexts \cup {NoCtx}]
  BY HoldOne DEF Assign, PointOne
<1>3. holds' = [holds EXCEPT ![h] = c] /\ Z3Contexts({}, gone)
  BY DEF Assign
<1>4. gone \in SUBSET Contexts /\ c \notin gone
  BY DEF Destroyed
<1>5. ASSUME NEW g \in Holders, g # h
      PROVE  holds'[g] = holds[g] /\ holds[g] \notin gone
  <2>1. holds'[g] = holds[g]
    BY <1>1, <1>3, <1>5
  <2>2. holds[g] \notin gone
    BY <1>5, GoneUnheld
  <2> QED
    BY <2>1, <2>2
<1>6. \A v \in Values : raw[v] # NoAst => holds'[v] = holds[v] /\ holds[v] \notin gone
  BY <1>5 DEF Holders
<1>7. \A o \in Cells : shares[o] > 0 => holds'[o] = holds[o] /\ holds[o] \notin gone
  BY <1>5 DEF Holders
<1>8. {} \in SUBSET Contexts
  OBVIOUS
<1>9. /\ RefsExact' /\ AstsAllocated' /\ ObjectsAllocated'
      /\ z3ctx' \in [Contexts -> {"none", "live", "deleted"}]
      /\ owner' \in [Asts -> Contexts \cup {NoCtx}]
      /\ zref' \in [Asts -> Nat]
      /\ cell' \in [Cells -> {"free", "owned", "borrowed"}]
      /\ objOwner' \in [Cells -> Contexts \cup {NoCtx}]
  <2> HIDE DEF gone
  <2> QED
    BY <1>3, <1>4, <1>6, <1>7, <1>8, Z3Step
<1>10. \A d \in Contexts : z3ctx'[d] = IF d \in gone THEN "deleted" ELSE z3ctx[d]
  BY <1>3 DEF Z3Contexts
<1>11. ContextsLive'
  <2> SUFFICES ASSUME NEW g \in Holders, holds'[g] # NoCtx
               PROVE  \/ z3ctx'[holds'[g]] = "live"
                      \/ borrowed[holds'[g]] /\ g \notin Values \cup Cells
    BY DEF ContextsLive
  <2>1. CASE g = h
    BY <2>1, <1>1, <1>3, <1>4, <1>10
  <2>2. CASE g # h
    <3> HIDE DEF gone
    <3> QED
      BY <2>2, <1>1, <1>5, <1>10 DEF ContextsLive
  <2> QED
    BY <2>1, <2>2
<1>12. NoContextLeak'
  <2> SUFFICES ASSUME NEW d \in Contexts, z3ctx'[d] = "live", ~borrowed[d]
               PROVE  strong'[d] > 0
    BY DEF NoContextLeak
  <2>1. d \notin gone /\ z3ctx[d] = "live"
    BY <1>10
  <2>2. strong[d] > 0 /\ strong[d] \in Nat
    BY <2>1, <1>1 DEF NoContextLeak
  <2>3. strong'[d] = strong[d] + Same(d, c) - Same(d, holds[h])
    BY <1>1 DEF Assign, Count, Same
  <2>4. strong[d] = 1 /\ d = holds[h] => d = c
    BY <2>1 DEF Destroyed, Dies
  <2> QED
    BY <2>2, <2>3, <2>4 DEF Same
<1> QED
  BY <1>2, <1>9, <1>10, <1>11, <1>12

-----------------------------------------------------------------------------
(* Every step of the contexts' operations keeps the invariants.            *)

LEMMA CreateContextInv ==
  ASSUME NEW extra \in [Contexts -> Nat], TypeOK, InvBut(extra),
         NEW x \in CtxVars, NEW c \in Contexts, CreateContext(x, c),
         concurrent' \in [Contexts -> BOOLEAN]
  PROVE  TypeOK' /\ InvBut(extra)'
<1> DEFINE gone == Destroyed(holds[Current], c)
<1> USE DEF HandlesValid, InvBut
<1>1. /\ holds \in [Holders -> Contexts \cup {NoCtx}] /\ strong \in [Contexts -> Nat]
      /\ x \in Holders /\ Current \in Holders /\ x # Current
      /\ x \notin Values \cup Cells \cup Prevs
  BY DisjointAssumption DEF TypeOK, Holders
<1>2. /\ pc = "idle" /\ holds[x] = NoCtx /\ z3ctx[c] = "none"
      /\ holds' = [holds EXCEPT ![x] = c, ![Current] = c]
      /\ Z3Contexts({c}, gone)
      /\ UNCHANGED <<borrowed, depth, raw, shares, hookVars>>
  BY DEF CreateContext
<1>3. \A g \in Holders : holds[g] # c
  BY <1>1, <1>2, NilAssumption DEF ContextsLive, HookInv
<1>4. PointTwo(x, c, Current, c)
  BY <1>1, <1>2, NilAssumption DEF CreateContext, Count, Same, PointTwo
<1>5. ExactBut(extra)' /\ strong' \in [Contexts -> Nat]
        /\ holds' \in [Holders -> Contexts \cup {NoCtx}]
  <2>1. c \in Contexts \cup {NoCtx}
    OBVIOUS
  <2> QED
    BY <2>1, <1>1, <1>4, HoldTwo
<1>6. ASSUME NEW g \in Holders, g # x, g # Current
      PROVE  holds'[g] = holds[g] /\ holds[g] \notin gone
  BY <1>1, <1>2, <1>6, GoneUnheld
<1>7. \A v \in Values : raw[v] # NoAst => holds'[v] = holds[v] /\ holds[v] \notin gone
  BY <1>1, <1>6, DisjointAssumption DEF Holders
<1>8. \A o \in Cells : shares[o] > 0 => holds'[o] = holds[o] /\ holds[o] \notin gone
  BY <1>1, <1>6, DisjointAssumption DEF Holders
<1>9. /\ RefsExact' /\ AstsAllocated' /\ ObjectsAllocated'
      /\ z3ctx' \in [Contexts -> {"none", "live", "deleted"}]
      /\ owner' \in [Asts -> Contexts \cup {NoCtx}]
      /\ zref' \in [Asts -> Nat]
      /\ cell' \in [Cells -> {"free", "owned", "borrowed"}]
      /\ objOwner' \in [Cells -> Contexts \cup {NoCtx}]
  <2>1. {c} \in SUBSET Contexts /\ gone \in SUBSET Contexts
    BY DEF Destroyed
  <2> HIDE DEF gone
  <2> QED
    BY <2>1, <1>2, <1>7, <1>8, Z3Step
<1>10. \A d \in Contexts : z3ctx'[d] = IF d \in gone THEN "deleted"
                                       ELSE IF d = c THEN "live" ELSE z3ctx[d]
  BY <1>2 DEF Z3Contexts
<1>11. c \notin gone
  BY DEF Destroyed
<1>12. ContextsLive'
  <2> SUFFICES ASSUME NEW g \in Holders, holds'[g] # NoCtx
               PROVE  \/ z3ctx'[holds'[g]] = "live"
                      \/ borrowed[holds'[g]] /\ g \notin Values \cup Cells
    BY <1>2 DEF ContextsLive
  <2>1. CASE g = x \/ g = Current
    BY <2>1, <1>1, <1>2, <1>10, <1>11
  <2>2. CASE g # x /\ g # Current
    <3> HIDE DEF gone
    <3> QED
      BY <2>2, <1>1, <1>6, <1>10 DEF ContextsLive
  <2> QED
    BY <2>1, <2>2
<1>13. NoContextLeak'
  <2> SUFFICES ASSUME NEW d \in Contexts, z3ctx'[d] = "live", ~borrowed[d]
               PROVE  strong'[d] > 0
    BY <1>2 DEF NoContextLeak
  <2>1. strong[d] \in Nat
    BY <1>1
  <2>2. CASE d = c
    BY <2>1, <2>2, <1>1, <1>3, <1>4, <1>2, NilAssumption DEF Same, PointTwo
  <2>3. CASE d # c
    <3>1. d \notin gone /\ z3ctx[d] = "live"
      BY <2>3, <1>10
    <3>2. strong[d] > 0
      BY <3>1 DEF NoContextLeak
    <3>3. ~(strong[d] = 1 /\ d = holds[Current])
      BY <3>1, <2>3 DEF Destroyed, Dies
    <3>4. strong'[d] = strong[d] + Same(d, c) - Same(d, NoCtx) + Same(d, c)
                                 - Same(d, holds[Current])
      BY <1>2, <1>4 DEF PointTwo
    <3>5. Same(d, c) = 0 /\ Same(d, NoCtx) = 0
      BY <2>3, NilAssumption DEF Same
    <3>6. Same(d, holds[Current]) = IF d = holds[Current] THEN 1 ELSE 0
      BY DEF Same
    <3> QED
      BY <3>2, <3>3, <3>4, <3>5, <3>6, <2>1
  <2> QED
    BY <2>2, <2>3
<1>14. HookInv'
  <2>1. \A i \in Prevs : holds'[i] = holds[i]
    BY <1>1, <1>6, DisjointAssumption DEF Holders
  <2> HIDE DEF gone
  <2>2. \A d \in Contexts : borrowed[d] => z3ctx'[d] # "none"
    BY <1>10 DEF HookInv
  <2> QED
    BY <2>1, <2>2, <1>2 DEF HookInv, hookVars
<1> QED
  BY <1>2, <1>5, <1>9, <1>12, <1>13, <1>14 DEF TypeOK, hookVars

\* A context the program may use is live.
LEMMA UsableLive ==
  ASSUME TypeOK, ContextsLive, NEW c \in Contexts, Usable(c)
  PROVE  z3ctx[c] = "live"
BY NilAssumption DEF TypeOK, ContextsLive, Usable

LEMMA WrapContextBorrowedInv ==
  ASSUME NEW extra \in [Contexts -> Nat], TypeOK, InvBut(extra),
         NEW x \in CtxVars, NEW c \in Contexts, WrapContextBorrowed(x, c)
  PROVE  TypeOK' /\ InvBut(extra)'
<1> USE DEF HandlesValid, InvBut
<1>1. /\ holds \in [Holders -> Contexts \cup {NoCtx}] /\ strong \in [Contexts -> Nat]
      /\ borrowed \in [Contexts -> BOOLEAN]
      /\ x \in Holders /\ x \notin Values \cup Cells \cup Prevs
      /\ c \in Contexts \cup {NoCtx}
  BY DisjointAssumption DEF TypeOK, Holders
<1>2. /\ pc = "idle" /\ holds[x] = NoCtx /\ z3ctx[c] = "none"
      /\ borrowed' = [borrowed EXCEPT ![c] = TRUE]
      /\ holds' = [holds EXCEPT ![x] = c]
      /\ Count(c, 1, NoCtx)
      /\ Z3Contexts({c}, {})
      /\ UNCHANGED <<concurrent, depth, raw, shares, hookVars>>
  BY DEF WrapContextBorrowed
<1>3. \A g \in Holders : holds[g] # c
  BY <1>1, <1>2, NilAssumption DEF ContextsLive, HookInv
<1>4. PointOne(x, c)
  BY <1>2 DEF PointOne
<1>5. ExactBut(extra)' /\ strong' \in [Contexts -> Nat]
        /\ holds' \in [Holders -> Contexts \cup {NoCtx}]
  BY <1>1, <1>4, HoldOne
<1>6. \A g \in Holders : g # x => holds'[g] = holds[g]
  BY <1>1, <1>2
<1>7. /\ \A v \in Values : raw[v] # NoAst => holds'[v] = holds[v] /\ holds[v] \notin {}
      /\ \A o \in Cells : shares[o] > 0 => holds'[o] = holds[o] /\ holds[o] \notin {}
  BY <1>1, <1>6 DEF Holders
<1>8. /\ RefsExact' /\ AstsAllocated' /\ ObjectsAllocated'
      /\ z3ctx' \in [Contexts -> {"none", "live", "deleted"}]
      /\ owner' \in [Asts -> Contexts \cup {NoCtx}]
      /\ zref' \in [Asts -> Nat]
      /\ cell' \in [Cells -> {"free", "owned", "borrowed"}]
      /\ objOwner' \in [Cells -> Contexts \cup {NoCtx}]
  <2>1. {c} \in SUBSET Contexts /\ {} \in SUBSET Contexts
    OBVIOUS
  <2> QED
    BY <2>1, <1>2, <1>7, Z3Step
<1>9. \A d \in Contexts : z3ctx'[d] = IF d = c THEN "live" ELSE z3ctx[d]
  BY <1>2 DEF Z3Contexts
<1>10. ContextsLive'
  <2> SUFFICES ASSUME NEW g \in Holders, holds'[g] # NoCtx
               PROVE  \/ z3ctx'[holds'[g]] = "live"
                      \/ borrowed'[holds'[g]] /\ g \notin Values \cup Cells
    BY DEF ContextsLive
  <2>1. CASE g = x
    BY <2>1, <1>1, <1>2, <1>9
  <2>2. CASE g # x
    <3>1. holds'[g] = holds[g] /\ holds[g] \in Contexts /\ holds[g] # c
      BY <2>2, <1>1, <1>3, <1>6
    <3>2. z3ctx'[holds[g]] = z3ctx[holds[g]] /\ borrowed'[holds[g]] = borrowed[holds[g]]
      BY <3>1, <1>1, <1>2, <1>9
    <3> QED
      BY <3>1, <3>2 DEF ContextsLive
  <2> QED
    BY <2>1, <2>2
<1>11. NoContextLeak'
  <2> SUFFICES ASSUME NEW d \in Contexts, z3ctx'[d] = "live", ~borrowed'[d]
               PROVE  strong'[d] > 0
    BY DEF NoContextLeak
  <2>1. d # c /\ ~borrowed[d] /\ z3ctx[d] = "live"
    BY <1>1, <1>2, <1>9
  <2>2. strong'[d] = strong[d]
    BY <2>1, <1>1, <1>2, NilAssumption DEF Count, Same
  <2> QED
    BY <2>1, <2>2 DEF NoContextLeak
<1>12. HookInv'
  <2>1. \A i \in Prevs : holds'[i] = holds[i]
    BY <1>1, <1>6 DEF Holders
  <2>2. \A d \in Contexts : borrowed'[d] => z3ctx'[d] # "none"
    BY <1>1, <1>2, <1>9 DEF HookInv
  <2> QED
    BY <2>1, <2>2, <1>2 DEF HookInv, hookVars
<1>13. borrowed' \in [Contexts -> BOOLEAN]
  BY <1>1, <1>2
<1> QED
  BY <1>2, <1>5, <1>8, <1>10, <1>11, <1>12, <1>13 DEF TypeOK, hookVars

LEMMA Z3FreesBorrowedInv ==
  ASSUME NEW extra \in [Contexts -> Nat], TypeOK, InvBut(extra),
         NEW c \in Contexts, Z3FreesBorrowed(c)
  PROVE  TypeOK' /\ InvBut(extra)'
<1> USE DEF HandlesValid, InvBut
<1>1. /\ pc = "idle" /\ borrowed[c] /\ z3ctx[c] = "live"
      /\ \A h \in Values \cup Cells : holds[h] # c
      /\ Z3Contexts({}, {c})
      /\ UNCHANGED <<borrowed, concurrent, strong, holds, depth, raw, shares, hookVars>>
  BY DEF Z3FreesBorrowed
<1>2. /\ \A v \in Values : raw[v] # NoAst => holds'[v] = holds[v] /\ holds[v] \notin {c}
      /\ \A o \in Cells : shares[o] > 0 => holds'[o] = holds[o] /\ holds[o] \notin {c}
  BY <1>1
<1>3. /\ RefsExact' /\ AstsAllocated' /\ ObjectsAllocated'
      /\ z3ctx' \in [Contexts -> {"none", "live", "deleted"}]
      /\ owner' \in [Asts -> Contexts \cup {NoCtx}]
      /\ zref' \in [Asts -> Nat]
      /\ cell' \in [Cells -> {"free", "owned", "borrowed"}]
      /\ objOwner' \in [Cells -> Contexts \cup {NoCtx}]
  <2>1. {c} \in SUBSET Contexts /\ {} \in SUBSET Contexts
    OBVIOUS
  <2> QED
    BY <2>1, <1>1, <1>2, Z3Step
<1>4. \A d \in Contexts : z3ctx'[d] = IF d = c THEN "deleted" ELSE z3ctx[d]
  BY <1>1 DEF Z3Contexts
<1>5. ContextsLive' /\ NoContextLeak' /\ ExactBut(extra)'
  BY <1>1, <1>4 DEF TypeOK, ContextsLive, NoContextLeak, ExactBut
<1>6. HookInv'
  BY <1>1, <1>4 DEF HookInv, hookVars
<1> QED
  BY <1>1, <1>3, <1>5, <1>6 DEF TypeOK, hookVars

LEMMA AssignContextInv ==
  ASSUME NEW extra \in [Contexts -> Nat], TypeOK, InvBut(extra),
         NEW h \in CtxVars \cup {Current}, NEW c \in Contexts \cup {NoCtx},
         AssignContext(h, c)
  PROVE  TypeOK' /\ InvBut(extra)'
<1>1. h \in Holders /\ h \notin Values \cup Cells \cup Prevs
  BY DisjointAssumption DEF Holders
<1>2. /\ pc = "idle" /\ (c # NoCtx => Usable(c)) /\ Assign(h, c)
      /\ UNCHANGED <<borrowed, concurrent, depth, raw, shares, hookVars>>
  BY DEF AssignContext
<1>3. c # NoCtx => z3ctx[c] = "live"
  BY <1>2, UsableLive DEF InvBut, HandlesValid
<1>4. UNCHANGED <<borrowed, raw, shares>>
  BY <1>2
<1>5. /\ ExactBut(extra)' /\ RefsExact' /\ HandlesValid' /\ NoContextLeak'
      /\ strong' \in [Contexts -> Nat]
      /\ holds' \in [Holders -> Contexts \cup {NoCtx}]
      /\ z3ctx' \in [Contexts -> {"none", "live", "deleted"}]
      /\ owner' \in [Asts -> Contexts \cup {NoCtx}]
      /\ zref' \in [Asts -> Nat]
      /\ cell' \in [Cells -> {"free", "owned", "borrowed"}]
      /\ objOwner' \in [Cells -> Contexts \cup {NoCtx}]
      /\ \A d \in Contexts : z3ctx[d] # "none" => z3ctx'[d] # "none"
  BY <1>1, <1>2, <1>3, <1>4, AssignStep
<1>6. HookInv'
  <2>1. \A i \in Prevs : holds'[i] = holds[i]
    BY <1>1, <1>2 DEF Assign, TypeOK, Holders
  <2> QED
    BY <2>1, <1>2, <1>5 DEF HookInv, InvBut, hookVars
<1> QED
  BY <1>2, <1>5, <1>6 DEF TypeOK, InvBut, hookVars

LEMMA EnterWithInv ==
  ASSUME NEW extra \in [Contexts -> Nat], TypeOK, InvBut(extra),
         NEW c \in Contexts, EnterWith(c)
  PROVE  TypeOK' /\ InvBut(extra)'
<1> DEFINE x == depth + 1
<1> USE DEF HandlesValid, InvBut
<1>1. /\ holds \in [Holders -> Contexts \cup {NoCtx}] /\ strong \in [Contexts -> Nat]
      /\ depth \in 0..MaxNest
  BY DEF TypeOK
<1>2. /\ pc = "idle" /\ depth < MaxNest /\ Usable(c) /\ depth' = depth + 1
      /\ holds' = [holds EXCEPT ![x] = holds[Current], ![Current] = c]
      /\ Count(c, 1, NoCtx)
      /\ Z3Contexts({}, {})
      /\ UNCHANGED <<borrowed, concurrent, raw, shares, hookVars>>
  BY DEF EnterWith
<1>3. /\ x \in Prevs /\ x \in Holders /\ Current \in Holders /\ x # Current
      /\ x \notin Values \cup Cells /\ Current \notin Values \cup Cells \cup Prevs
  BY <1>1, <1>2, BoundAssumption, DisjointAssumption DEF Holders, Prevs
<1>4. holds[x] = NoCtx
  BY <1>1, <1>3 DEF HookInv, Prevs
<1>5. PointTwo(x, holds[Current], Current, c)
  <2>1. strong' = [d \in Contexts |-> strong[d] + Same(d, holds[Current]) - Same(d, holds[x])
                                               + Same(d, c) - Same(d, holds[Current])]
    BY <1>1, <1>2, <1>4, NilAssumption DEF Count, Same
  <2> QED
    BY <2>1, <1>2 DEF PointTwo
<1>6. ExactBut(extra)' /\ strong' \in [Contexts -> Nat]
        /\ holds' \in [Holders -> Contexts \cup {NoCtx}]
  <2>1. c \in Contexts \cup {NoCtx} /\ holds[Current] \in Contexts \cup {NoCtx}
    BY <1>1, <1>3
  <2> HIDE DEF x
  <2> QED
    BY <2>1, <1>3, <1>5, HoldTwo
<1>7. \A g \in Holders : g # x /\ g # Current => holds'[g] = holds[g]
  BY <1>1, <1>2
<1>8. holds'[x] = holds[Current] /\ holds'[Current] = c
  BY <1>1, <1>2, <1>3
<1>9. /\ \A v \in Values : raw[v] # NoAst => holds'[v] = holds[v] /\ holds[v] \notin {}
      /\ \A o \in Cells : shares[o] > 0 => holds'[o] = holds[o] /\ holds[o] \notin {}
  <2> HIDE DEF x
  <2> QED
    BY <1>3, <1>7 DEF Holders
<1>10. /\ RefsExact' /\ AstsAllocated' /\ ObjectsAllocated'
      /\ z3ctx' \in [Contexts -> {"none", "live", "deleted"}]
      /\ owner' \in [Asts -> Contexts \cup {NoCtx}]
      /\ zref' \in [Asts -> Nat]
      /\ cell' \in [Cells -> {"free", "owned", "borrowed"}]
      /\ objOwner' \in [Cells -> Contexts \cup {NoCtx}]
  <2>1. {} \in SUBSET Contexts
    OBVIOUS
  <2> QED
    BY <2>1, <1>2, <1>9, Z3Step
<1>11. z3ctx' = z3ctx
  BY <1>2 DEF Z3Contexts, TypeOK
<1>12. ContextsLive'
  <2> SUFFICES ASSUME NEW g \in Holders, holds'[g] # NoCtx
               PROVE  \/ z3ctx'[holds'[g]] = "live"
                      \/ borrowed[holds'[g]] /\ g \notin Values \cup Cells
    BY <1>2 DEF ContextsLive
  <2> HIDE DEF x
  <2>1. CASE g = x
    BY <2>1, <1>3, <1>8, <1>11 DEF ContextsLive
  <2>2. CASE g = Current
    BY <2>2, <1>2, <1>8, <1>11, UsableLive
  <2>3. CASE g # x /\ g # Current
    BY <2>3, <1>7, <1>11 DEF ContextsLive
  <2> QED
    BY <2>1, <2>2, <2>3
<1>13. NoContextLeak'
  BY <1>1, <1>2, <1>11, NilAssumption DEF NoContextLeak, Count, Same
<1>14. HookInv'
  <2>1. \A i \in Prevs : i > depth + 1 => holds'[i] = NoCtx
    BY <1>1, <1>3, <1>7 DEF HookInv, Holders, Prevs
  <2> QED
    BY <2>1, <1>2, <1>11 DEF HookInv, hookVars
<1> QED
  BY <1>1, <1>2, <1>6, <1>10, <1>12, <1>13, <1>14, BoundAssumption DEF TypeOK, hookVars

LEMMA ExitWithInv ==
  ASSUME NEW extra \in [Contexts -> Nat], TypeOK, InvBut(extra), ExitWith
  PROVE  TypeOK' /\ InvBut(extra)'
<1> DEFINE gone == Destroyed(holds[Current], holds[depth])
<1> USE DEF HandlesValid, InvBut
<1>1. /\ holds \in [Holders -> Contexts \cup {NoCtx}] /\ strong \in [Contexts -> Nat]
      /\ depth \in 0..MaxNest
  BY DEF TypeOK
<1>2. /\ pc = "idle" /\ depth > 0 /\ depth' = depth - 1
      /\ holds' = [holds EXCEPT ![Current] = holds[depth], ![depth] = NoCtx]
      /\ Count(NoCtx, 0, holds[Current])
      /\ Z3Contexts({}, gone)
      /\ UNCHANGED <<borrowed, concurrent, raw, shares, hookVars>>
  BY DEF ExitWith
<1>3. /\ depth \in Prevs /\ depth \in Holders /\ Current \in Holders /\ depth # Current
      /\ depth \notin Values \cup Cells /\ Current \notin Values \cup Cells \cup Prevs
  BY <1>1, <1>2, BoundAssumption, DisjointAssumption DEF Holders, Prevs
<1>4. PointTwo(Current, holds[depth], depth, NoCtx)
  <2>1. strong' = [d \in Contexts |-> strong[d] + Same(d, holds[depth])
                     - Same(d, holds[Current]) + Same(d, NoCtx) - Same(d, holds[depth])]
    BY <1>1, <1>2, NilAssumption DEF Count, Same
  <2> QED
    BY <2>1, <1>2 DEF PointTwo
<1>5. ExactBut(extra)' /\ strong' \in [Contexts -> Nat]
        /\ holds' \in [Holders -> Contexts \cup {NoCtx}]
  <2>1. NoCtx \in Contexts \cup {NoCtx} /\ holds[depth] \in Contexts \cup {NoCtx}
    BY <1>1, <1>3
  <2> QED
    BY <2>1, <1>3, <1>4, HoldTwo
<1>6. ASSUME NEW g \in Holders, g # Current
      PROVE  holds[g] \notin gone /\ (g # depth => holds'[g] = holds[g])
  BY <1>1, <1>2, <1>3, <1>6, GoneUnheld
<1>7. holds'[Current] = holds[depth] /\ holds'[depth] = NoCtx
  BY <1>1, <1>2, <1>3
<1>8. /\ \A v \in Values : raw[v] # NoAst => holds'[v] = holds[v] /\ holds[v] \notin gone
      /\ \A o \in Cells : shares[o] > 0 => holds'[o] = holds[o] /\ holds[o] \notin gone
  <2> HIDE DEF gone
  <2> QED
    BY <1>3, <1>6 DEF Holders
<1>9. /\ RefsExact' /\ AstsAllocated' /\ ObjectsAllocated'
      /\ z3ctx' \in [Contexts -> {"none", "live", "deleted"}]
      /\ owner' \in [Asts -> Contexts \cup {NoCtx}]
      /\ zref' \in [Asts -> Nat]
      /\ cell' \in [Cells -> {"free", "owned", "borrowed"}]
      /\ objOwner' \in [Cells -> Contexts \cup {NoCtx}]
  <2>1. {} \in SUBSET Contexts /\ gone \in SUBSET Contexts
    BY DEF Destroyed
  <2> HIDE DEF gone
  <2> QED
    BY <2>1, <1>2, <1>8, Z3Step
<1>10. \A d \in Contexts : z3ctx'[d] = IF d \in gone THEN "deleted" ELSE z3ctx[d]
  BY <1>2 DEF Z3Contexts
<1>11. ContextsLive'
  <2> SUFFICES ASSUME NEW g \in Holders, holds'[g] # NoCtx
               PROVE  \/ z3ctx'[holds'[g]] = "live"
                      \/ borrowed[holds'[g]] /\ g \notin Values \cup Cells
    BY <1>2 DEF ContextsLive
  <2> HIDE DEF gone
  <2>1. CASE g = Current
    <3>1. holds'[g] = holds[depth] /\ holds[depth] \in Contexts /\ holds[depth] \notin gone
      BY <2>1, <1>1, <1>3, <1>6, <1>7
    <3> QED
      BY <3>1, <2>1, <1>3, <1>10 DEF ContextsLive
  <2>2. CASE g # Current
    BY <2>2, <1>1, <1>6, <1>7, <1>10 DEF ContextsLive
  <2> QED
    BY <2>1, <2>2
<1>12. NoContextLeak'
  <2> SUFFICES ASSUME NEW d \in Contexts, z3ctx'[d] = "live", ~borrowed[d]
               PROVE  strong'[d] > 0
    BY <1>2 DEF NoContextLeak
  <2>1. d \notin gone /\ z3ctx[d] = "live"
    BY <1>10
  <2>2. strong[d] > 0 /\ strong[d] \in Nat
    BY <2>1, <1>1 DEF NoContextLeak
  <2>3. ~(strong[d] = 1 /\ d = holds[Current])
    <3>1. CASE d = holds[depth]
      BY <3>1, <1>3, Counted, NilAssumption
    <3>2. CASE d # holds[depth]
      BY <3>2, <2>1 DEF Destroyed, Dies
    <3> QED
      BY <3>1, <3>2
  <2>4. strong'[d] = strong[d] - Same(d, holds[Current])
    BY <1>1, <1>2, NilAssumption DEF Count, Same
  <2> QED
    BY <2>2, <2>3, <2>4 DEF Same
<1>13. HookInv'
  <2> HIDE DEF gone
  <2>1. \A i \in Prevs : i > depth - 1 => holds'[i] = NoCtx
    BY <1>1, <1>3, <1>6, <1>7 DEF HookInv, Holders, Prevs
  <2>2. \A d \in Contexts : borrowed[d] => z3ctx'[d] # "none"
    BY <1>10 DEF HookInv
  <2> QED
    BY <2>1, <2>2, <1>2 DEF HookInv, hookVars
<1> QED
  BY <1>1, <1>2, <1>5, <1>9, <1>11, <1>12, <1>13, BoundAssumption DEF TypeOK, hookVars

-----------------------------------------------------------------------------
(* Every step of the hooks and of the operations on values and handles.    *)

\* A location other than a withContext local changes: HookInv's part on those.
LEMMA PrevsKept ==
  ASSUME TypeOK, HookInv, NEW h \in Values \cup Cells, depth' = depth,
         \A g \in Holders : g # h => holds'[g] = holds[g]
  PROVE  \A i \in Prevs : i > depth' => holds'[i] = NoCtx
BY DisjointAssumption DEF HookInv, Holders

\* The dec_ref that starts =destroy and =copy frees the AST of no other value.
LEMMA DropRawKeeps ==
  ASSUME TypeOK, RefsExact, AstsAllocated, NEW v \in Values, DropRaw(v), holds' = holds
  PROVE  /\ RefsExact' /\ AstsAllocated'
         /\ raw' \in [Values -> Asts \cup {NoAst}] /\ raw'[v] = NoAst
         /\ owner' \in [Asts -> Contexts \cup {NoCtx}]
         /\ zref' \in [Asts -> Nat]
<1>1. /\ raw \in [Values -> Asts \cup {NoAst}] /\ zref \in [Asts -> Nat]
      /\ owner \in [Asts -> Contexts \cup {NoCtx}]
      /\ raw' = [raw EXCEPT ![v] = NoAst]
  BY DEF TypeOK, DropRaw
<1>2. zref' = [b \in Asts |-> zref[b] + Same(b, NoAst) - Same(b, raw[v])]
  BY <1>1, NilAssumption DEF DropRaw, DecRef, Same
<1>3. Carry(v, NoAst)
  BY <1>1, <1>2 DEF Carry
<1>4. RefsExact' /\ raw' \in [Values -> Asts \cup {NoAst}] /\ zref' \in [Asts -> Nat]
  BY <1>3, CarryOne
<1>5. AstsAllocated'
  <2> SUFFICES ASSUME NEW w \in Values, raw'[w] # NoAst
               PROVE  holds[w] # NoCtx /\ owner'[raw'[w]] = holds[w]
    BY DEF AstsAllocated
  <2>1. w # v /\ raw'[w] = raw[w] /\ raw[w] \in Asts
    BY <1>1
  <2>2. holds[w] # NoCtx /\ owner[raw[w]] = holds[w]
    BY <2>1 DEF AstsAllocated
  <2>3. ~(raw[v] = raw[w] /\ zref[raw[v]] = 1)
    <3>1. SUFFICES ASSUME raw[v] = raw[w] PROVE zref[raw[v]] # 1
      OBVIOUS
    <3>2. zref[raw[v]] = Tally(Values, raw, raw[v])
      BY <2>1, <3>1 DEF RefsExact
    <3> QED
      BY <2>1, <3>1, <3>2, HoldersFinite, CountOne
  <2> QED
    BY <1>1, <2>1, <2>2, <2>3 DEF DropRaw, DecRef
<1>6. owner' \in [Asts -> Contexts \cup {NoCtx}]
  BY <1>1 DEF DropRaw, DecRef
<1> QED
  BY <1>1, <1>4, <1>5, <1>6

LEMMA DestroyValueInv ==
  ASSUME NEW extra \in [Contexts -> Nat], TypeOK, InvBut(extra),
         NEW v \in Values, DestroyValue(v)
  PROVE  TypeOK' /\ InvBut(extra)'
<1> USE DEF HandlesValid, InvBut
<1>1. /\ pc = "idle" /\ DropRaw(v) /\ pc' = "release" /\ dst' = v /\ src' = src
      /\ UNCHANGED <<z3ctx, borrowed, concurrent, strong, holds, depth,
                     cell, objOwner, shares>>
  BY DEF DestroyValue, ctxVars, objVars
<1>2. /\ RefsExact' /\ AstsAllocated'
      /\ raw' \in [Values -> Asts \cup {NoAst}] /\ raw'[v] = NoAst
      /\ owner' \in [Asts -> Contexts \cup {NoCtx}]
      /\ zref' \in [Asts -> Nat]
  BY <1>1, DropRawKeeps
<1>3. ExactBut(extra)' /\ ContextsLive' /\ ObjectsAllocated' /\ NoContextLeak'
  BY <1>1 DEF ExactBut, ContextsLive, ObjectsAllocated, NoContextLeak
<1>4. HookInv'
  BY <1>1, <1>2, DisjointAssumption DEF HookInv
<1>5. v \in Holders /\ v \in Values \cup Cells
  BY DEF Holders
<1> QED
  BY <1>1, <1>2, <1>3, <1>4, <1>5 DEF TypeOK

LEMMA CopyValueInv ==
  ASSUME NEW extra \in [Contexts -> Nat], TypeOK, InvBut(extra),
         NEW v \in Values, NEW w \in Values, CopyValue(v, w)
  PROVE  TypeOK' /\ InvBut(extra)'
<1> USE DEF HandlesValid, InvBut
<1>1. /\ pc = "idle" /\ raw[v] # raw[w] /\ DropRaw(v)
      /\ pc' = "copyCtx" /\ dst' = v /\ src' = w
      /\ UNCHANGED <<z3ctx, borrowed, concurrent, strong, holds, depth,
                     cell, objOwner, shares>>
  BY DEF CopyValue, ctxVars, objVars
<1>2. /\ RefsExact' /\ AstsAllocated'
      /\ raw' \in [Values -> Asts \cup {NoAst}] /\ raw'[v] = NoAst
      /\ owner' \in [Asts -> Contexts \cup {NoCtx}]
      /\ zref' \in [Asts -> Nat]
  BY <1>1, DropRawKeeps
<1>3. ExactBut(extra)' /\ ContextsLive' /\ ObjectsAllocated' /\ NoContextLeak'
  BY <1>1 DEF ExactBut, ContextsLive, ObjectsAllocated, NoContextLeak
<1>4. HookInv'
  BY <1>1, <1>2 DEF HookInv
<1>5. v \in Holders /\ w \in Holders
  BY DEF Holders
<1> QED
  BY <1>1, <1>2, <1>3, <1>4, <1>5 DEF TypeOK

LEMMA ReleaseContextInv ==
  ASSUME NEW extra \in [Contexts -> Nat], TypeOK, InvBut(extra), ReleaseContext
  PROVE  TypeOK' /\ InvBut(extra)'
<1>1. /\ pc = "release" /\ Assign(dst, NoCtx) /\ pc' = "idle"
      /\ UNCHANGED <<borrowed, concurrent, depth, raw, shares, dst, src>>
  BY DEF ReleaseContext
<1>2. /\ dst \in Values \cup Cells /\ dst \in Holders
      /\ dst \in Values => raw[dst] = NoAst
      /\ dst \in Cells => shares[dst] = 0
      /\ NoCtx \in Contexts \cup {NoCtx}
      /\ UNCHANGED <<borrowed, raw, shares>>
  BY <1>1 DEF TypeOK, InvBut, HookInv
<1>3. /\ ExactBut(extra)' /\ RefsExact' /\ HandlesValid' /\ NoContextLeak'
      /\ strong' \in [Contexts -> Nat]
      /\ holds' \in [Holders -> Contexts \cup {NoCtx}]
      /\ z3ctx' \in [Contexts -> {"none", "live", "deleted"}]
      /\ owner' \in [Asts -> Contexts \cup {NoCtx}]
      /\ zref' \in [Asts -> Nat]
      /\ cell' \in [Cells -> {"free", "owned", "borrowed"}]
      /\ objOwner' \in [Cells -> Contexts \cup {NoCtx}]
      /\ \A d \in Contexts : z3ctx[d] # "none" => z3ctx'[d] # "none"
  BY <1>1, <1>2, AssignStep
<1>4. HookInv'
  <2>1. \A g \in Holders : g # dst => holds'[g] = holds[g]
    BY <1>1 DEF Assign, TypeOK
  <2>2. \A i \in Prevs : i > depth' => holds'[i] = NoCtx
    BY <2>1, <1>1, <1>2, PrevsKept DEF InvBut
  <2> QED
    BY <2>2, <1>1, <1>3 DEF HookInv, InvBut
<1> QED
  BY <1>1, <1>3, <1>4 DEF TypeOK, InvBut

LEMMA CopyContextInv ==
  ASSUME NEW extra \in [Contexts -> Nat], TypeOK, InvBut(extra), CopyContext
  PROVE  TypeOK' /\ InvBut(extra)'
<1>1. /\ pc = "copyCtx" /\ Assign(dst, holds[src]) /\ pc' = "copyInc"
      /\ UNCHANGED <<borrowed, concurrent, depth, raw, shares, dst, src>>
  BY DEF CopyContext
<1>2. /\ dst \in Values /\ src \in Values /\ dst # src /\ raw[dst] = NoAst
      /\ dst \in Holders /\ src \in Holders /\ dst \notin Cells
      /\ holds[src] \in Contexts \cup {NoCtx}
      /\ UNCHANGED <<borrowed, raw, shares>>
  BY <1>1, DisjointAssumption DEF TypeOK, InvBut, HookInv, Holders
<1>3. holds[src] # NoCtx => z3ctx[holds[src]] = "live"
  BY <1>2 DEF InvBut, HandlesValid, ContextsLive
<1>4. /\ ExactBut(extra)' /\ RefsExact' /\ HandlesValid' /\ NoContextLeak'
      /\ strong' \in [Contexts -> Nat]
      /\ holds' \in [Holders -> Contexts \cup {NoCtx}]
      /\ z3ctx' \in [Contexts -> {"none", "live", "deleted"}]
      /\ owner' \in [Asts -> Contexts \cup {NoCtx}]
      /\ zref' \in [Asts -> Nat]
      /\ cell' \in [Cells -> {"free", "owned", "borrowed"}]
      /\ objOwner' \in [Cells -> Contexts \cup {NoCtx}]
      /\ \A d \in Contexts : z3ctx[d] # "none" => z3ctx'[d] # "none"
  BY <1>1, <1>2, <1>3, AssignStep
<1>5. HookInv'
  <2>1. (\A g \in Holders : g # dst => holds'[g] = holds[g]) /\ holds'[dst] = holds[src]
    BY <1>1, <1>2 DEF Assign, TypeOK
  <2>2. \A i \in Prevs : i > depth' => holds'[i] = NoCtx
    BY <2>1, <1>1, <1>2, PrevsKept DEF InvBut
  <2> QED
    BY <2>1, <2>2, <1>1, <1>2, <1>4 DEF HookInv, InvBut
<1> QED
  BY <1>1, <1>2, <1>4, <1>5 DEF TypeOK, InvBut

LEMMA CopyIncRefInv ==
  ASSUME NEW extra \in [Contexts -> Nat], TypeOK, InvBut(extra), CopyIncRef
  PROVE  TypeOK' /\ InvBut(extra)'
<1> USE DEF HandlesValid, InvBut
<1>1. /\ pc = "copyInc" /\ raw' = [raw EXCEPT ![dst] = raw[src]] /\ pc' = "idle"
      /\ IF raw[src] # NoAst THEN IncRef(raw[src]) ELSE UNCHANGED zref
      /\ UNCHANGED <<z3ctx, borrowed, concurrent, strong, holds, depth, owner,
                     cell, objOwner, shares, dst, src>>
  BY DEF CopyIncRef, ctxVars, objVars
<1>2. /\ dst \in Values /\ src \in Values /\ raw[dst] = NoAst /\ holds[dst] = holds[src]
      /\ raw \in [Values -> Asts \cup {NoAst}] /\ zref \in [Asts -> Nat]
      /\ raw[src] \in Asts \cup {NoAst}
  BY <1>1 DEF TypeOK, HookInv
<1>3. Carry(dst, raw[src])
  <2>1. zref' = [b \in Asts |-> zref[b] + Same(b, raw[src]) - Same(b, raw[dst])]
    BY <1>1, <1>2, NilAssumption DEF IncRef, Same
  <2> QED
    BY <2>1, <1>1 DEF Carry
<1>4. RefsExact' /\ raw' \in [Values -> Asts \cup {NoAst}] /\ zref' \in [Asts -> Nat]
  BY <1>2, <1>3, CarryOne
<1>5. AstsAllocated'
  BY <1>1, <1>2 DEF AstsAllocated
<1>6. ExactBut(extra)' /\ ContextsLive' /\ ObjectsAllocated' /\ NoContextLeak'
  BY <1>1 DEF ExactBut, ContextsLive, ObjectsAllocated, NoContextLeak
<1>7. HookInv'
  BY <1>1 DEF HookInv
<1> QED
  BY <1>1, <1>4, <1>5, <1>6, <1>7 DEF TypeOK

\* An empty value or cell comes to refer to a usable context, the rest of the
\* contexts' state staying put.
LEMMA TakeContext ==
  ASSUME NEW extra \in [Contexts -> Nat], TypeOK, InvBut(extra),
         NEW h \in Values \cup Cells, NEW c \in Contexts,
         holds[h] = NoCtx, z3ctx[c] = "live",
         holds' = [holds EXCEPT ![h] = c], Count(c, 1, NoCtx),
         UNCHANGED <<z3ctx, borrowed, depth>>
  PROVE  /\ ExactBut(extra)' /\ ContextsLive' /\ NoContextLeak'
         /\ strong' \in [Contexts -> Nat]
         /\ holds' \in [Holders -> Contexts \cup {NoCtx}]
         /\ holds'[h] = c
         /\ \A g \in Holders : g # h => holds'[g] = holds[g]
         /\ \A i \in Prevs : i > depth' => holds'[i] = NoCtx
<1>1. /\ h \in Holders /\ c \in Contexts \cup {NoCtx}
      /\ holds \in [Holders -> Contexts \cup {NoCtx}] /\ strong \in [Contexts -> Nat]
  BY DEF TypeOK, Holders
<1>2. PointOne(h, c)
  BY DEF PointOne
<1>3. ExactBut(extra)' /\ strong' \in [Contexts -> Nat]
        /\ holds' \in [Holders -> Contexts \cup {NoCtx}]
  BY <1>1, <1>2, HoldOne DEF InvBut
<1>4. holds'[h] = c /\ \A g \in Holders : g # h => holds'[g] = holds[g]
  BY <1>1
<1>5. ContextsLive'
  BY <1>4 DEF InvBut, HandlesValid, ContextsLive
<1>6. NoContextLeak'
  BY <1>1, NilAssumption DEF InvBut, NoContextLeak, Count, Same
<1>7. \A i \in Prevs : i > depth' => holds'[i] = NoCtx
  BY <1>4, PrevsKept DEF InvBut
<1> QED
  BY <1>3, <1>4, <1>5, <1>6, <1>7

LEMMA BuildInv ==
  ASSUME NEW extra \in [Contexts -> Nat], TypeOK, InvBut(extra),
         NEW v \in Values, NEW c \in Contexts, NEW a \in Asts, Build(v, c, a)
  PROVE  TypeOK' /\ InvBut(extra)'
<1>1. /\ pc = "idle" /\ Empty(v) /\ Usable(c) /\ owner[a] \in {NoCtx, c}
      /\ owner' = [owner EXCEPT ![a] = c] /\ IncRef(a)
      /\ raw' = [raw EXCEPT ![v] = a]
      /\ holds' = [holds EXCEPT ![v] = c] /\ Count(c, 1, NoCtx)
      /\ UNCHANGED <<z3ctx, borrowed, concurrent, depth, cell, objOwner, shares,
                     pc, dst, src>>
  BY DEF Build, objVars, hookVars
<1>2. /\ holds[v] = NoCtx /\ raw[v] = NoAst /\ v \in Values \cup Cells
      /\ v \in Holders /\ v \notin Cells /\ z3ctx[c] = "live" /\ a \in Asts \cup {NoAst}
  BY <1>1, UsableLive, DisjointAssumption DEF Empty, Holders, InvBut, HandlesValid
<1>3. /\ ExactBut(extra)' /\ ContextsLive' /\ NoContextLeak'
      /\ strong' \in [Contexts -> Nat]
      /\ holds' \in [Holders -> Contexts \cup {NoCtx}]
      /\ holds'[v] = c
      /\ \A g \in Holders : g # v => holds'[g] = holds[g]
      /\ \A i \in Prevs : i > depth' => holds'[i] = NoCtx
  BY <1>1, <1>2, TakeContext
<1>4. Carry(v, a)
  <2>1. zref \in [Asts -> Nat] /\ zref' = [zref EXCEPT ![a] = @ + 1]
    BY <1>1 DEF TypeOK, IncRef
  <2>2. \A b \in Asts : zref'[b] = zref[b] + Same(b, a) - Same(b, raw[v])
    BY <2>1, <1>2, NilAssumption DEF Same
  <2>3. zref' = [b \in Asts |-> zref[b] + Same(b, a) - Same(b, raw[v])]
    BY <2>1, <2>2
  <2> QED
    BY <2>3, <1>1 DEF Carry
<1>5. RefsExact' /\ raw' \in [Values -> Asts \cup {NoAst}] /\ zref' \in [Asts -> Nat]
  BY <1>2, <1>4, CarryOne DEF InvBut
<1>6. AstsAllocated'
  <2> SUFFICES ASSUME NEW w \in Values, raw'[w] # NoAst
               PROVE  holds'[w] # NoCtx /\ owner'[raw'[w]] = holds'[w]
    BY DEF AstsAllocated
  <2>1. CASE w = v
    BY <2>1, <1>1, <1>3, NilAssumption DEF TypeOK
  <2>2. CASE w # v
    <3>1. raw'[w] = raw[w] /\ holds'[w] = holds[w] /\ raw[w] \in Asts
      BY <2>2, <1>1, <1>3 DEF TypeOK, Holders
    <3>2. holds[w] # NoCtx /\ owner[raw[w]] = holds[w]
      BY <3>1 DEF InvBut, HandlesValid, AstsAllocated
    <3> QED
      BY <3>1, <3>2, <1>1 DEF TypeOK
  <2> QED
    BY <2>1, <2>2
<1>7. ObjectsAllocated'
  BY <1>1, <1>2, <1>3 DEF InvBut, HandlesValid, ObjectsAllocated, Holders
<1>8. HookInv'
  BY <1>1, <1>3 DEF InvBut, HookInv
<1>9. owner' \in [Asts -> Contexts \cup {NoCtx}]
  BY <1>1 DEF TypeOK
<1> QED
  BY <1>1, <1>3, <1>5, <1>6, <1>7, <1>8, <1>9 DEF TypeOK, InvBut, HandlesValid

LEMMA WrapNilInv ==
  ASSUME NEW extra \in [Contexts -> Nat], TypeOK, InvBut(extra),
         NEW v \in Values, NEW c \in Contexts, WrapNil(v, c)
  PROVE  TypeOK' /\ InvBut(extra)'
<1>1. /\ pc = "idle" /\ Empty(v) /\ Usable(c)
      /\ holds' = [holds EXCEPT ![v] = c] /\ Count(c, 1, NoCtx)
      /\ UNCHANGED <<z3ctx, borrowed, concurrent, depth, raw, owner, zref,
                     cell, objOwner, shares, pc, dst, src>>
  BY DEF WrapNil, astVars, objVars, hookVars
<1>2. /\ holds[v] = NoCtx /\ raw[v] = NoAst /\ v \in Values \cup Cells
      /\ v \notin Cells /\ z3ctx[c] = "live"
  BY <1>1, UsableLive, DisjointAssumption DEF Empty, InvBut, HandlesValid
<1>3. /\ ExactBut(extra)' /\ ContextsLive' /\ NoContextLeak'
      /\ strong' \in [Contexts -> Nat]
      /\ holds' \in [Holders -> Contexts \cup {NoCtx}]
      /\ \A g \in Holders : g # v => holds'[g] = holds[g]
      /\ \A i \in Prevs : i > depth' => holds'[i] = NoCtx
  BY <1>1, <1>2, TakeContext
<1>4. RefsExact' /\ AstsAllocated' /\ ObjectsAllocated' /\ HookInv'
  BY <1>1, <1>2, <1>3
     DEF InvBut, HandlesValid, RefsExact, AstsAllocated, ObjectsAllocated, HookInv, Holders
<1> QED
  BY <1>1, <1>3, <1>4 DEF TypeOK, InvBut, HandlesValid

LEMMA WrapHandleInv ==
  ASSUME NEW extra \in [Contexts -> Nat], TypeOK, InvBut(extra),
         NEW o \in Cells, NEW c \in Contexts,
         NEW kind \in {"owned", "borrowed"}, WrapHandle(o, c, kind)
  PROVE  TypeOK' /\ InvBut(extra)'
<1>1. /\ pc = "idle" /\ cell[o] = "free" /\ holds[o] = NoCtx /\ Usable(c)
      /\ cell' = [cell EXCEPT ![o] = kind] /\ objOwner' = [objOwner EXCEPT ![o] = c]
      /\ shares' = [shares EXCEPT ![o] = 1]
      /\ holds' = [holds EXCEPT ![o] = c] /\ Count(c, 1, NoCtx)
      /\ UNCHANGED <<z3ctx, borrowed, concurrent, depth, raw, owner, zref, pc, dst, src>>
  BY DEF WrapHandle, astVars, hookVars
<1>2. /\ o \in Values \cup Cells /\ o \notin Values /\ z3ctx[c] = "live"
  BY <1>1, UsableLive, DisjointAssumption DEF InvBut, HandlesValid
<1>3. /\ ExactBut(extra)' /\ ContextsLive' /\ NoContextLeak'
      /\ strong' \in [Contexts -> Nat]
      /\ holds' \in [Holders -> Contexts \cup {NoCtx}]
      /\ holds'[o] = c
      /\ \A g \in Holders : g # o => holds'[g] = holds[g]
      /\ \A i \in Prevs : i > depth' => holds'[i] = NoCtx
  BY <1>1, <1>2, TakeContext
<1>4. /\ cell' \in [Cells -> {"free", "owned", "borrowed"}]
      /\ objOwner' \in [Cells -> Contexts \cup {NoCtx}]
      /\ shares' \in [Cells -> 0..MaxShares]
  BY <1>1, BoundAssumption DEF TypeOK
<1>5. AstsAllocated' /\ RefsExact'
  BY <1>1, <1>2, <1>3 DEF InvBut, HandlesValid, AstsAllocated, RefsExact, Holders
<1>6. ObjectsAllocated'
  BY <1>1, <1>3, NilAssumption
     DEF TypeOK, InvBut, HandlesValid, ObjectsAllocated, Holders
<1>7. HookInv'
  BY <1>1, <1>3 DEF InvBut, HookInv
<1> QED
  BY <1>1, <1>3, <1>4, <1>5, <1>6, <1>7 DEF TypeOK, InvBut, HandlesValid

LEMMA ShareHandleInv ==
  ASSUME NEW extra \in [Contexts -> Nat], TypeOK, InvBut(extra),
         NEW o \in Cells, ShareHandle(o)
  PROVE  TypeOK' /\ InvBut(extra)'
<1>1. /\ shares[o] \in 1..(MaxShares - 1) /\ shares' = [shares EXCEPT ![o] = @ + 1]
      /\ pc = "idle"
      /\ UNCHANGED <<z3ctx, borrowed, concurrent, strong, holds, depth, raw, owner, zref,
                     cell, objOwner, pc, dst, src>>
  BY DEF ShareHandle, ctxVars, astVars, hookVars
<1>2. shares' \in [Cells -> 0..MaxShares] /\ \A p \in Cells : shares'[p] > 0 => shares[p] > 0
  BY <1>1, BoundAssumption DEF TypeOK
<1> QED
  BY <1>1, <1>2 DEF TypeOK, InvBut, ExactBut, RefsExact, HandlesValid, ContextsLive,
                    AstsAllocated, ObjectsAllocated, HookInv, NoContextLeak

LEMMA DropHandleInv ==
  ASSUME NEW extra \in [Contexts -> Nat], TypeOK, InvBut(extra),
         NEW o \in Cells, DropHandle(o)
  PROVE  TypeOK' /\ InvBut(extra)'
<1>1. /\ pc = "idle" /\ shares[o] > 0 /\ shares' = [shares EXCEPT ![o] = @ - 1]
      /\ UNCHANGED <<z3ctx, borrowed, concurrent, strong, holds, depth, raw, owner, zref, src>>
  BY DEF DropHandle, ctxVars, astVars, hookVars
<1>2. shares' \in [Cells -> 0..MaxShares] /\ shares[o] \in Nat
  BY <1>1, BoundAssumption DEF TypeOK
<1>3. /\ o \in Holders /\ o \notin Values /\ o \in Values \cup Cells
  BY DisjointAssumption DEF Holders
<1>4. /\ ExactBut(extra)' /\ RefsExact' /\ ContextsLive' /\ AstsAllocated' /\ NoContextLeak'
  BY <1>1 DEF InvBut, ExactBut, RefsExact, HandlesValid, ContextsLive, AstsAllocated,
              NoContextLeak
<1>5. CASE shares[o] > 1
  <2>1. UNCHANGED <<cell, objOwner, pc, dst>>
    BY <1>1, <1>5 DEF DropHandle, hookVars
  <2>2. ObjectsAllocated'
    BY <2>1, <1>1, <1>2, <1>5 DEF TypeOK, InvBut, HandlesValid, ObjectsAllocated
  <2>3. HookInv'
    BY <2>1, <1>1 DEF InvBut, HookInv
  <2> QED
    BY <2>1, <2>2, <2>3, <1>1, <1>2, <1>4 DEF TypeOK, InvBut, HandlesValid
<1>6. CASE ~(shares[o] > 1)
  <2>1. /\ pc' = "release" /\ dst' = o /\ shares'[o] = 0
        /\ \/ UNCHANGED <<cell, objOwner>>
           \/ cell' = [cell EXCEPT ![o] = "free"] /\ objOwner' = [objOwner EXCEPT ![o] = NoCtx]
    BY <1>1, <1>2, <1>6 DEF DropHandle, TypeOK
  <2>2. ObjectsAllocated'
    BY <2>1, <1>1, <1>2 DEF TypeOK, InvBut, HandlesValid, ObjectsAllocated
  <2>3. HookInv'
    BY <2>1, <1>1, <1>3 DEF InvBut, HookInv
  <2>4. /\ cell' \in [Cells -> {"free", "owned", "borrowed"}]
        /\ objOwner' \in [Cells -> Contexts \cup {NoCtx}]
    BY <2>1 DEF TypeOK
  <2> QED
    BY <2>1, <2>2, <2>3, <2>4, <1>1, <1>2, <1>3, <1>4 DEF TypeOK, InvBut, HandlesValid
<1> QED
  BY <1>5, <1>6

LEMMA DupValueInv ==
  ASSUME NEW extra \in [Contexts -> Nat], TypeOK, InvBut(extra),
         NEW v \in Values, NEW w \in Values, DupValue(v, w)
  PROVE  TypeOK' /\ InvBut(extra)'
<1> DEFINE c == holds[w]
           a == raw[w]
<1>1. /\ pc = "idle" /\ Empty(v) /\ c # NoCtx
      /\ raw' = [raw EXCEPT ![v] = a]
      /\ holds' = [holds EXCEPT ![v] = c] /\ Count(c, 1, NoCtx)
      /\ IF a # NoAst THEN IncRef(a) ELSE UNCHANGED zref
      /\ UNCHANGED <<z3ctx, borrowed, concurrent, depth, owner, cell, objOwner, shares,
                     pc, dst, src>>
  BY DEF DupValue, objVars, hookVars
<1>2. /\ holds[v] = NoCtx /\ raw[v] = NoAst /\ v \in Values \cup Cells
      /\ v \in Holders /\ w \in Holders /\ v \notin Cells
  BY <1>1, DisjointAssumption DEF Empty, Holders
<1>3. c \in Contexts /\ z3ctx[c] = "live" /\ a \in Asts \cup {NoAst}
  BY <1>1, <1>2 DEF TypeOK, InvBut, HandlesValid, ContextsLive
<1>4. a # NoAst => owner[a] = c
  BY DEF InvBut, HandlesValid, AstsAllocated
<1> HIDE DEF c, a
<1>5. /\ ExactBut(extra)' /\ ContextsLive' /\ NoContextLeak'
      /\ strong' \in [Contexts -> Nat]
      /\ holds' \in [Holders -> Contexts \cup {NoCtx}]
      /\ holds'[v] = c
      /\ \A g \in Holders : g # v => holds'[g] = holds[g]
      /\ \A i \in Prevs : i > depth' => holds'[i] = NoCtx
  BY <1>1, <1>2, <1>3, TakeContext
<1>6. Carry(v, a)
  <2>1. zref \in [Asts -> Nat] /\ zref' = IF a # NoAst THEN [zref EXCEPT ![a] = @ + 1] ELSE zref
    BY <1>1 DEF TypeOK, IncRef
  <2>2. \A b \in Asts : zref'[b] = zref[b] + Same(b, a) - Same(b, raw[v])
    BY <2>1, <1>2, <1>3, NilAssumption DEF Same
  <2>3. zref' = [b \in Asts |-> zref[b] + Same(b, a) - Same(b, raw[v])]
    BY <2>1, <2>2
  <2> QED
    BY <2>3, <1>1 DEF Carry
<1>7. RefsExact' /\ raw' \in [Values -> Asts \cup {NoAst}] /\ zref' \in [Asts -> Nat]
  BY <1>3, <1>6, CarryOne DEF InvBut
<1>8. AstsAllocated'
  <2> SUFFICES ASSUME NEW u \in Values, raw'[u] # NoAst
               PROVE  holds'[u] # NoCtx /\ owner'[raw'[u]] = holds'[u]
    BY DEF AstsAllocated
  <2>1. CASE u = v
    BY <2>1, <1>1, <1>4, <1>5 DEF TypeOK
  <2>2. CASE u # v
    <3>1. raw'[u] = raw[u] /\ holds'[u] = holds[u]
      BY <2>2, <1>1, <1>5 DEF TypeOK, Holders
    <3> QED
      BY <3>1, <1>1 DEF InvBut, HandlesValid, AstsAllocated
  <2> QED
    BY <2>1, <2>2
<1>9. ObjectsAllocated'
  BY <1>1, <1>2, <1>5 DEF InvBut, HandlesValid, ObjectsAllocated, Holders
<1>10. HookInv'
  BY <1>1, <1>5 DEF InvBut, HookInv
<1> QED
  BY <1>1, <1>5, <1>7, <1>8, <1>9, <1>10 DEF TypeOK, InvBut, HandlesValid

\* A move re-counts nothing, because the source is reset with it.
LEMMA MoveValueInv ==
  ASSUME NEW extra \in [Contexts -> Nat], TypeOK, InvBut(extra),
         NEW v \in Values, NEW w \in Values, MoveValue(v, w)
  PROVE  TypeOK' /\ InvBut(extra)'
<1> USE DEF HandlesValid, InvBut
<1>1. /\ pc = "idle" /\ holds[v] = NoCtx /\ raw[v] = NoAst /\ holds[w] # NoCtx /\ v # w
      /\ raw' = [raw EXCEPT ![v] = raw[w], ![w] = NoAst]
      /\ holds' = [holds EXCEPT ![v] = holds[w], ![w] = NoCtx]
      /\ UNCHANGED <<z3ctx, borrowed, concurrent, strong, depth, owner, zref,
                     cell, objOwner, shares, pc, dst, src>>
  BY DEF MoveValue, Empty, objVars, hookVars
<1>2. /\ v \in Holders /\ w \in Holders /\ v \notin Cells \cup Prevs /\ w \notin Cells \cup Prevs
      /\ holds \in [Holders -> Contexts \cup {NoCtx}] /\ strong \in [Contexts -> Nat]
      /\ raw \in [Values -> Asts \cup {NoAst}] /\ zref \in [Asts -> Nat]
      /\ holds[w] \in Contexts \cup {NoCtx} /\ raw[w] \in Asts \cup {NoAst}
  BY DisjointAssumption DEF Holders, TypeOK
<1>3. PointTwo(v, holds[w], w, NoCtx)
  <2>1. \A d \in Contexts : strong'[d] = strong[d] + Same(d, holds[w]) - Same(d, holds[v])
                                                   + Same(d, NoCtx) - Same(d, holds[w])
    BY <1>1, <1>2, NilAssumption DEF Same
  <2>2. strong' \in [Contexts -> Nat]
    BY <1>1, <1>2
  <2> QED
    BY <2>1, <2>2, <1>1 DEF PointTwo
<1>4. /\ ExactBut(extra)' /\ holds' \in [Holders -> Contexts \cup {NoCtx}]
  <2>1. NoCtx \in Contexts \cup {NoCtx}
    OBVIOUS
  <2> QED
    BY <2>1, <1>1, <1>2, <1>3, HoldTwo
<1>5. /\ holds'[v] = holds[w] /\ holds'[w] = NoCtx
      /\ \A g \in Holders : g \notin {v, w} => holds'[g] = holds[g]
      /\ raw'[v] = raw[w] /\ raw'[w] = NoAst
      /\ \A u \in Values : u \notin {v, w} => raw'[u] = raw[u]
      /\ raw' \in [Values -> Asts \cup {NoAst}]
  BY <1>1, <1>2
<1>6. RefsExact'
  <2> SUFFICES ASSUME NEW b \in Asts PROVE zref[b] = Tally(Values, raw', b)
    BY <1>1 DEF RefsExact
  <2> DEFINE mid == [raw EXCEPT ![v] = raw[w]]
             new == raw'
  <2>1. /\ mid[v] = raw[w] /\ mid[w] = raw[w] /\ new[w] = NoAst
        /\ SameBut(Values, raw, mid, v) /\ SameBut(Values, mid, new, w)
    BY <1>1, <1>2, <1>5 DEF SameBut
  <2> HIDE DEF mid, new
  <2>2. Tally(Values, mid, b) = Tally(Values, raw, b) + Same(b, mid[v]) - Same(b, raw[v])
    BY <2>1, HoldersFinite, CountUpdate
  <2>3. Tally(Values, new, b) = Tally(Values, mid, b) + Same(b, new[w]) - Same(b, mid[w])
    BY <2>1, HoldersFinite, CountUpdate
  <2>4. Tally(Values, raw, b) = zref[b] /\ zref[b] \in Nat
    BY <1>2 DEF RefsExact
  <2>5. Tally(Values, new, b) = zref[b]
    BY <2>1, <2>2, <2>3, <2>4, <1>1, NilAssumption DEF Same
  <2> QED
    BY <2>5 DEF new
<1>7. AstsAllocated'
  BY <1>1, <1>5 DEF AstsAllocated, Holders
<1>8. ObjectsAllocated'
  BY <1>1, <1>2, <1>5 DEF ObjectsAllocated, Holders
<1>9. ContextsLive'
  <2> SUFFICES ASSUME NEW g \in Holders, holds'[g] # NoCtx
               PROVE  \/ z3ctx[holds'[g]] = "live"
                      \/ borrowed[holds'[g]] /\ g \notin Values \cup Cells
    BY <1>1 DEF ContextsLive
  <2> QED
    BY <1>1, <1>2, <1>5 DEF ContextsLive
<1>10. NoContextLeak' /\ HookInv'
  BY <1>1, <1>2, <1>5 DEF NoContextLeak, HookInv, Holders
<1> QED
  BY <1>1, <1>4, <1>5, <1>6, <1>7, <1>8, <1>9, <1>10 DEF TypeOK

-----------------------------------------------------------------------------
(* The theorems.                                                           *)

LEMMA InitInv == Init => TypeOK /\ InvBut(NoExtra)
<1> SUFFICES ASSUME Init PROVE TypeOK /\ InvBut(NoExtra)
  OBVIOUS
<1>1. TypeOK
  BY BoundAssumption DEF Init, TypeOK, Holders
<1>2. ExactBut(NoExtra)
  <2>1. ASSUME NEW c \in Contexts PROVE {h \in Holders : holds[h] = c} = {}
    BY NilAssumption DEF Init
  <2> QED
    BY <2>1, FS_EmptySet, Z3 DEF Init, ExactBut, NoExtra, Tally
<1>3. RefsExact
  <2>1. ASSUME NEW a \in Asts PROVE {v \in Values : raw[v] = a} = {}
    BY NilAssumption DEF Init
  <2> QED
    BY <2>1, FS_EmptySet DEF Init, RefsExact, Tally
<1>4. HandlesValid /\ HookInv /\ NoContextLeak
  BY DEF Init, HandlesValid, ContextsLive, AstsAllocated, ObjectsAllocated, HookInv,
         NoContextLeak, Holders
<1> QED
  BY <1>1, <1>2, <1>3, <1>4 DEF InvBut

LEMMA StepInv ==
  ASSUME NEW extra \in [Contexts -> Nat], TypeOK, InvBut(extra), [Next]_vars
  PROVE  TypeOK' /\ InvBut(extra)'
<1>1. CASE ContextStep
  <2>1. ASSUME NEW x \in CtxVars, NEW c \in Contexts, NewContext(x, c)
        PROVE  TypeOK' /\ InvBut(extra)'
    <3>1. CreateContext(x, c) /\ concurrent' \in [Contexts -> BOOLEAN]
      BY <2>1 DEF NewContext, TypeOK
    <3> QED
      BY <3>1, CreateContextInv
  <2>2. ASSUME NEW x \in CtxVars, NEW c \in Contexts, NewScratchContext(x, c)
        PROVE  TypeOK' /\ InvBut(extra)'
    <3>1. CreateContext(x, c) /\ concurrent' \in [Contexts -> BOOLEAN]
      BY <2>2 DEF NewScratchContext, TypeOK
    <3> QED
      BY <3>1, CreateContextInv
  <2> QED
    BY <1>1, <2>1, <2>2, WrapContextBorrowedInv, Z3FreesBorrowedInv, EnterWithInv,
       AssignContextInv, ExitWithInv DEF ContextStep
<1>2. CASE ValueStep
  BY <1>2, BuildInv, WrapNilInv, DupValueInv, MoveValueInv, CopyValueInv, DestroyValueInv
     DEF ValueStep
<1>3. CASE HandleStep
  BY <1>3, WrapHandleInv, ShareHandleInv, DropHandleInv DEF HandleStep
<1>4. CASE HookStep
  BY <1>4, ReleaseContextInv, CopyContextInv, CopyIncRefInv DEF HookStep
<1>5. CASE UNCHANGED vars
  BY <1>5 DEF vars, ctxVars, astVars, objVars, hookVars, TypeOK, InvBut, ExactBut, RefsExact,
              HandlesValid, ContextsLive, AstsAllocated, ObjectsAllocated, HookInv,
              NoContextLeak
<1> QED
  BY <1>1, <1>2, <1>3, <1>4, <1>5 DEF Next

\* The inductive invariant holds in every reachable state.
THEOREM Safety == Spec => [](TypeOK /\ Inv)
<1>1. NoExtra \in [Contexts -> Nat]
  BY DEF NoExtra
<1>2. InvBut(NoExtra) <=> Inv
  <2>1. \A c \in Contexts :
           Tally(Holders, holds, c) \in Nat /\ NoExtra[c] = 0
    BY HoldersFinite, TallyType DEF NoExtra
  <2>2. ExactBut(NoExtra) <=> StrongExact
    BY <2>1 DEF ExactBut, StrongExact
  <2> QED
    BY <2>2 DEF InvBut, Inv
<1>3. TypeOK /\ InvBut(NoExtra) /\ [Next]_vars => TypeOK' /\ InvBut(NoExtra)'
  BY <1>1, StepInv
<1> QED
  BY <1>2, <1>3, InitInv, PTL DEF Spec

\* The model is typed: no hook drives a reference count below zero.
THEOREM TypeCorrect == Spec => []TypeOK
BY Safety, PTL

\* The hooks of every value, handle, variable, threadvar and withContext local
\* keep a context's ARC count at the number of locations that refer to it.
THEOREM ContextCountsExact == Spec => []StrongExact
<1>1. TypeOK /\ Inv => StrongExact
  BY DEF Inv
<1> QED
  BY <1>1, Safety, PTL

\* wrap, =copy, =dup, moves and =destroy keep Z3's count of an AST at the number
\* of values that carry it.
THEOREM AstCountsExact == Spec => []RefsExact
<1>1. TypeOK /\ Inv => RefsExact
  BY DEF Inv
<1> QED
  BY <1>1, Safety, PTL

\* No value or handle ever carries a freed AST, a freed object or a deleted
\* context.
THEOREM NothingDangles == Spec => []HandlesValid
<1>1. TypeOK /\ Inv => HandlesValid
  BY DEF Inv
<1> QED
  BY <1>1, Safety, PTL

\* No context outlives the last reference to it.
THEOREM NothingLeaks == Spec => []ContextsFreed
<1>1. TypeOK /\ Inv => ContextsFreed
  <2> SUFFICES ASSUME TypeOK, Inv, NEW c \in Contexts, z3ctx[c] = "live", ~borrowed[c],
                      \A h \in Holders : holds[h] # c
               PROVE  FALSE
    BY DEF ContextsFreed
  <2>1. {h \in Holders : holds[h] = c} = {}
    OBVIOUS
  <2>2. strong[c] = 0
    BY <2>1, FS_EmptySet DEF Inv, StrongExact, Tally
  <2> QED
    BY <2>2 DEF Inv, NoContextLeak
<1> QED
  BY <1>1, Safety, PTL

-----------------------------------------------------------------------------
(* What a step may never do, with the hooks of FuncInterps among the steps. *)

\* A free cell has no object, and an object of the wrapper's own is referred to.
CellInv ==
    \A o \in Cells : /\ cell[o] = "free" => objOwner[o] = NoCtx
                     /\ cell[o] = "owned" => shares[o] > 0

\* A step that deletes Z3 contexts leaves the cells of the others alone.
LEMMA CellsWithContexts ==
  ASSUME TypeOK, CellInv, NEW born \in SUBSET Contexts, NEW gone \in SUBSET Contexts,
         Z3Contexts(born, gone), shares' = shares
  PROVE  CellInv'
BY NilAssumption DEF TypeOK, CellInv, Z3Contexts

\* No context but those of Destroyed goes with an assignment.
LEMMA DestroyedType ==
  ASSUME NEW old, NEW new
  PROVE  Destroyed(old, new) \in SUBSET Contexts
BY DEF Destroyed

LEMMA CellStep == TypeOK /\ CellInv /\ [InterpNext]_vars => CellInv'
<1> SUFFICES ASSUME TypeOK, CellInv, [InterpNext]_vars PROVE CellInv'
  OBVIOUS
<1> USE CellsWithContexts, DestroyedType
<1>1. CASE ContextStep
  <2>1. ASSUME NEW x \in CtxVars, NEW c \in Contexts, CreateContext(x, c) PROVE CellInv'
    BY <2>1 DEF CreateContext
  <2>2. ASSUME NEW x \in CtxVars, NEW c \in Contexts, WrapContextBorrowed(x, c) PROVE CellInv'
    BY <2>2 DEF WrapContextBorrowed
  <2>3. ASSUME NEW c \in Contexts, Z3FreesBorrowed(c) PROVE CellInv'
    BY <2>3 DEF Z3FreesBorrowed
  <2>4. ASSUME NEW c \in Contexts, EnterWith(c) PROVE CellInv'
    BY <2>4 DEF EnterWith
  <2>5. ASSUME NEW h, NEW c, AssignContext(h, c) PROVE CellInv'
    BY <2>5 DEF AssignContext, Assign
  <2>6. ASSUME ExitWith PROVE CellInv'
    BY <2>6 DEF ExitWith
  <2> QED
    BY <1>1, <2>1, <2>2, <2>3, <2>4, <2>5, <2>6 DEF ContextStep, NewContext, NewScratchContext
<1>2. CASE ValueStep
  BY <1>2 DEF ValueStep, Build, WrapNil, DupValue, MoveValue, CopyValue, DestroyValue,
              objVars, CellInv
<1>3. ASSUME NEW o \in Cells, NEW c \in Contexts, NEW kind \in {"owned", "borrowed"},
             WrapHandle(o, c, kind)
      PROVE  CellInv'
  BY <1>3 DEF WrapHandle, CellInv, TypeOK
<1>4. ASSUME NEW o \in Cells, ShareHandle(o) PROVE CellInv'
  BY <1>4, BoundAssumption DEF ShareHandle, CellInv, TypeOK
<1>5. ASSUME NEW o \in Cells, DropHandle(o) PROVE CellInv'
  BY <1>5, BoundAssumption DEF DropHandle, CellInv, TypeOK
<1>6. CASE HookStep
  BY <1>6 DEF HookStep, ReleaseContext, CopyContext, CopyIncRef, Assign, objVars, CellInv
<1>7. CASE UNCHANGED vars
  BY <1>7 DEF vars, objVars, CellInv
<1>8. ASSUME NEW o \in Cells, DropUnreleased(o) PROVE CellInv'
  BY <1>8, BoundAssumption DEF DropUnreleased, CellInv, TypeOK
<1> QED
  BY <1>1, <1>2, <1>3, <1>4, <1>5, <1>6, <1>7, <1>8 DEF InterpNext, Next, HandleStep

\* Free cells have no object, and the objects of the wrapper's own are held.
THEOREM CellsAccounted == Spec => []CellInv
<1>1. Init => CellInv
  BY DEF Init, CellInv
<1>2. [Next]_vars => [InterpNext]_vars
  BY DEF InterpNext
<1> QED
  BY <1>1, <1>2, CellStep, Safety, PTL DEF Spec

\* The steps that may run Z3_del_context.  No handle is at stake in them: the
\* contexts that go are not Z3's own, unless it is Z3 that frees them.
HandlesKept ==
    /\ \A v \in Values : raw[v] # NoAst => holds'[v] = holds[v]
    /\ \A o \in Cells : shares[o] > 0 => holds'[o] = holds[o]

LastReference(c) == strong[c] = 1 /\ \E h \in Holders : holds[h] = c

ContextsMove ==
    /\ \E born, gone \in SUBSET Contexts :
          /\ Z3Contexts(born, gone)
          /\ \A c \in born : z3ctx[c] = "none"
          /\ \A c \in gone : IF borrowed[c] THEN strong' = strong ELSE LastReference(c)
    /\ \A c \in Contexts : z3ctx[c] # "none" => borrowed'[c] = borrowed[c]
    /\ HandlesKept

\* The other steps.
ContextsStay ==
    /\ z3ctx' = z3ctx
    /\ \A o \in Cells : cell[o] = "borrowed" => cell'[o] = "borrowed"

LEMMA StepKinds == TypeOK /\ HookInv /\ [InterpNext]_vars => ContextsMove \/ ContextsStay
<1> SUFFICES ASSUME TypeOK, HookInv, [InterpNext]_vars PROVE ContextsMove \/ ContextsStay
  OBVIOUS
<1> USE DestroyedType
<1>0. ASSUME NEW h \in Holders, NEW c
      PROVE  \A d \in Destroyed(holds[h], c) : ~borrowed[d] /\ LastReference(d)
  BY DEF Destroyed, Dies, LastReference
<1>1. Current \in Holders /\ CtxVars \subseteq Holders /\ Prevs \subseteq Holders
  BY DEF Holders
<1>2. CASE ContextStep
  <2>1. ASSUME NEW x \in CtxVars, NEW c \in Contexts, CreateContext(x, c) PROVE ContextsMove
    <3>1. HandlesKept
      BY <2>1, <1>1, DisjointAssumption DEF CreateContext, HandlesKept, TypeOK, Holders
    <3>2. /\ {c} \in SUBSET Contexts
          /\ \A d \in Destroyed(holds[Current], c) : ~borrowed[d] /\ LastReference(d)
      BY <1>0, <1>1
    <3> QED
      BY <2>1, <3>1, <3>2 DEF CreateContext, ContextsMove
  <2>2. ASSUME NEW x \in CtxVars, NEW c \in Contexts, WrapContextBorrowed(x, c)
        PROVE  ContextsMove
    <3>1. HandlesKept
      BY <2>2, <1>1, DisjointAssumption DEF WrapContextBorrowed, HandlesKept, TypeOK, Holders
    <3>2. {c} \in SUBSET Contexts /\ {} \in SUBSET Contexts
      OBVIOUS
    <3>3. \A d \in Contexts : z3ctx[d] # "none" => borrowed'[d] = borrowed[d]
      BY <2>2 DEF WrapContextBorrowed, TypeOK
    <3> QED
      BY <2>2, <3>1, <3>2, <3>3 DEF WrapContextBorrowed, ContextsMove
  <2>3. ASSUME NEW c \in Contexts, Z3FreesBorrowed(c) PROVE ContextsMove
    <3>1. {c} \in SUBSET Contexts /\ {} \in SUBSET Contexts
      OBVIOUS
    <3> QED
      BY <2>3, <3>1 DEF Z3FreesBorrowed, ContextsMove, HandlesKept
  <2>4. ASSUME NEW c \in Contexts, EnterWith(c) PROVE ContextsMove
    <3>1. depth + 1 \in Prevs
      BY <2>4, BoundAssumption DEF EnterWith, TypeOK, Prevs
    <3>2. HandlesKept
      BY <2>4, <1>1, <3>1, DisjointAssumption DEF EnterWith, HandlesKept, TypeOK, Holders
    <3>3. {} \in SUBSET Contexts
      OBVIOUS
    <3> QED
      BY <2>4, <3>2, <3>3 DEF EnterWith, ContextsMove
  <2>5. ASSUME NEW h \in CtxVars \cup {Current}, NEW c \in Contexts \cup {NoCtx},
               AssignContext(h, c)
        PROVE  ContextsMove
    <3>1. HandlesKept
      BY <2>5, <1>1, DisjointAssumption DEF AssignContext, Assign, HandlesKept, TypeOK, Holders
    <3>2. /\ {} \in SUBSET Contexts
          /\ \A d \in Destroyed(holds[h], c) : ~borrowed[d] /\ LastReference(d)
      BY <1>0, <1>1
    <3> QED
      BY <2>5, <3>1, <3>2 DEF AssignContext, Assign, ContextsMove
  <2>6. ASSUME ExitWith PROVE ContextsMove
    <3>1. depth \in Prevs
      BY <2>6, BoundAssumption DEF ExitWith, TypeOK, Prevs
    <3>2. HandlesKept
      BY <2>6, <1>1, <3>1, DisjointAssumption DEF ExitWith, HandlesKept, TypeOK, Holders
    <3>3. /\ {} \in SUBSET Contexts
          /\ \A d \in Destroyed(holds[Current], holds[depth]) : ~borrowed[d] /\ LastReference(d)
      BY <1>0, <1>1
    <3> QED
      BY <2>6, <3>2, <3>3 DEF ExitWith, ContextsMove
  <2> QED
    BY <1>2, <2>1, <2>2, <2>3, <2>4, <2>5, <2>6 DEF ContextStep, NewContext, NewScratchContext
<1>3. CASE ValueStep
  BY <1>3 DEF ValueStep, Build, WrapNil, DupValue, MoveValue, CopyValue, DestroyValue,
              objVars, ctxVars, ContextsStay
<1>4. CASE HandleStep
  BY <1>4 DEF HandleStep, WrapHandle, ShareHandle, DropHandle, ctxVars, TypeOK, ContextsStay
<1>5. CASE ReleaseContext \/ CopyContext
  <2>1. PICK c : Assign(dst, c) /\ borrowed' = borrowed
    BY <1>5 DEF ReleaseContext, CopyContext
  <2>2. /\ dst \in Values => raw[dst] = NoAst
        /\ dst \in Cells => shares[dst] = 0
    BY <1>5, DisjointAssumption DEF ReleaseContext, CopyContext, TypeOK, HookInv
  <2>3. HandlesKept
    BY <2>1, <2>2 DEF Assign, HandlesKept, TypeOK, Holders
  <2>4. /\ {} \in SUBSET Contexts
        /\ \A d \in Destroyed(holds[dst], c) : ~borrowed[d] /\ LastReference(d)
    BY <1>0 DEF TypeOK
  <2> QED
    BY <2>1, <2>3, <2>4 DEF Assign, ContextsMove
<1>6. CASE CopyIncRef \/ UNCHANGED vars
  BY <1>6 DEF CopyIncRef, vars, ctxVars, objVars, ContextsStay
<1>7. ASSUME NEW o \in Cells, DropUnreleased(o) PROVE ContextsStay
  BY <1>7 DEF DropUnreleased, ContextsStay, TypeOK
<1> QED
  BY <1>2, <1>3, <1>4, <1>5, <1>6, <1>7 DEF InterpNext, Next, HookStep

\* What holds of the handles whether or not all the counts are given back.
Sound == RefsExact /\ HandlesValid /\ HookInv

\* A deleted context is one that nothing refers to afterwards: a live AST or
\* object of it would have a value or handle that does.
LEMMA CleanStep ==
  TypeOK /\ Sound /\ CellInv /\ Sound' /\ [InterpNext]_vars =>
  \A c \in Contexts :
     z3ctx[c] = "live" /\ z3ctx'[c] = "deleted" /\ ~borrowed[c] =>
        /\ \A h \in Holders : holds'[h] # c
        /\ \A a \in Asts : owner[a] = c => zref[a] = 0
        /\ \A o \in Cells : objOwner[o] = c => cell[o] = "borrowed"
<1> SUFFICES ASSUME TypeOK, Sound, CellInv, Sound', [InterpNext]_vars, NEW c \in Contexts,
                    z3ctx[c] = "live", z3ctx'[c] = "deleted", ~borrowed[c]
             PROVE  /\ \A h \in Holders : holds'[h] # c
                    /\ \A a \in Asts : owner[a] = c => zref[a] = 0
                    /\ \A o \in Cells : objOwner[o] = c => cell[o] = "borrowed"
  OBVIOUS
<1>1. ~borrowed'[c] /\ HandlesKept
  BY StepKinds DEF Sound, ContextsMove, ContextsStay
<1>2. ASSUME NEW h \in Holders PROVE holds'[h] # c
  BY <1>1, NilAssumption DEF Sound, HandlesValid, ContextsLive
<1>3. ASSUME NEW a \in Asts, owner[a] = c PROVE zref[a] = 0
  <2>1. ASSUME NEW v \in Values, raw[v] = a PROVE FALSE
    <3>1. holds[v] = c /\ holds'[v] = c
      BY <2>1, <1>1, <1>3, NilAssumption DEF Sound, HandlesValid, AstsAllocated, HandlesKept
    <3> QED
      BY <3>1, <1>2 DEF Holders
  <2>2. {v \in Values : raw[v] = a} = {}
    BY <2>1
  <2> QED
    BY <2>2, FS_EmptySet DEF Sound, RefsExact, Tally
<1>4. ASSUME NEW o \in Cells, objOwner[o] = c PROVE cell[o] = "borrowed"
  <2>1. ASSUME shares[o] > 0 PROVE FALSE
    <3>1. holds[o] = c /\ holds'[o] = c
      BY <2>1, <1>1, <1>4 DEF Sound, HandlesValid, ObjectsAllocated, HandlesKept
    <3> QED
      BY <3>1, <1>2 DEF Holders
  <2> QED
    BY <2>1, <1>4, NilAssumption DEF CellInv, TypeOK
<1> QED
  BY <1>2, <1>3, <1>4

\* Z3_del_context never runs on a context in which a value still has an AST or a
\* handle its object.
THEOREM DeletionIsClean == Spec => DeletedClean
<1>1. (Inv => Sound) /\ ([Next]_vars => [InterpNext]_vars)
  BY DEF Inv, Sound, InterpNext
<1> QED
  BY <1>1, CleanStep, Safety, CellsAccounted, PTL DEF Spec, DeletedClean

LEMMA BorrowedStep ==
  TypeOK /\ Sound /\ [InterpNext]_vars =>
  /\ \A o \in Cells : cell[o] = "borrowed" /\ cell'[o] # "borrowed" =>
        z3ctx'[objOwner[o]] = "deleted"
  /\ \A c \in Contexts : borrowed[c] /\ strong'[c] # strong[c] =>
        z3ctx'[c] = "deleted" <=> z3ctx[c] = "deleted"
<1> SUFFICES ASSUME TypeOK, Sound, ContextsMove
             PROVE  /\ \A o \in Cells : cell[o] = "borrowed" /\ cell'[o] # "borrowed" =>
                          z3ctx'[objOwner[o]] = "deleted"
                    /\ \A c \in Contexts : borrowed[c] /\ strong'[c] # strong[c] =>
                          z3ctx'[c] = "deleted" <=> z3ctx[c] = "deleted"
  BY StepKinds DEF Sound, ContextsStay
<1>1. PICK born \in SUBSET Contexts, gone \in SUBSET Contexts :
        /\ Z3Contexts(born, gone)
        /\ \A c \in born : z3ctx[c] = "none"
        /\ \A c \in gone : IF borrowed[c] THEN strong' = strong ELSE LastReference(c)
  BY DEF ContextsMove
<1>2. ASSUME NEW o \in Cells, cell[o] = "borrowed", cell'[o] # "borrowed"
      PROVE  z3ctx'[objOwner[o]] = "deleted"
  BY <1>1, <1>2 DEF Z3Contexts
<1>3. ASSUME NEW c \in Contexts, borrowed[c], strong'[c] # strong[c]
      PROVE  z3ctx'[c] = "deleted" <=> z3ctx[c] = "deleted"
  BY <1>1, <1>3 DEF Z3Contexts, Sound, HookInv
<1> QED
  BY <1>2, <1>3

\* The wrapper's drops free neither a context nor a vector that is Z3's own.
THEOREM BorrowedIsZ3s == Spec => BorrowedLeftToZ3
<1>1. (Inv => Sound) /\ ([Next]_vars => [InterpNext]_vars)
  BY DEF Inv, Sound, InterpNext
<1> QED
  BY <1>1, BorrowedStep, Safety, PTL DEF Spec, BorrowedLeftToZ3

-----------------------------------------------------------------------------
(* Handles whose =destroy forgets its context (FuncInterps).  What they leave *)
(* counted stays counted, and that is all they do wrong.                   *)

\* Some references are counted that nothing holds any more.
InterpInv == TypeOK /\ \E extra \in [Contexts -> Nat] : InvBut(extra)

AtLeast(more, extra) == \A c \in Contexts : more[c] >= extra[c]

\* The last reference to such a handle leaves one count behind.
LEMMA DropUnreleasedInv ==
  ASSUME NEW extra \in [Contexts -> Nat], TypeOK, InvBut(extra),
         NEW o \in Cells, DropUnreleased(o)
  PROVE  /\ TypeOK'
         /\ \E more \in [Contexts -> Nat] : InvBut(more)' /\ AtLeast(more, extra)
<1> USE DEF InvBut, HandlesValid
<1>1. /\ pc = "idle" /\ shares[o] > 0 /\ cell[o] = "owned"
      /\ shares' = [shares EXCEPT ![o] = @ - 1]
      /\ UNCHANGED <<z3ctx, borrowed, concurrent, strong, depth, raw, owner, zref, pc, dst, src>>
  BY DEF DropUnreleased, astVars, hookVars
<1>2. o \in Holders /\ Values \subseteq Holders /\ Cells \subseteq Holders /\ o \notin Values
      /\ o \notin Prevs
  BY DisjointAssumption DEF Holders
<1>3. RefsExact' /\ NoContextLeak'
  BY <1>1 DEF RefsExact, NoContextLeak
<1>4. CASE shares[o] > 1
  <2>1. UNCHANGED <<cell, objOwner, holds>>
    BY <1>4 DEF DropUnreleased
  <2>2. shares' \in [Cells -> 0..MaxShares] /\ \A q \in Cells : shares'[q] > 0 => shares[q] > 0
    BY <1>1, <1>4, BoundAssumption DEF TypeOK
  <2>3. TypeOK'
    BY <1>1, <2>1, <2>2 DEF TypeOK
  <2>4. ExactBut(extra)' /\ HandlesValid' /\ HookInv'
    BY <1>1, <2>1, <2>2 DEF ExactBut, ContextsLive, AstsAllocated, ObjectsAllocated, HookInv
  <2>5. AtLeast(extra, extra)
    BY DEF AtLeast
  <2> QED
    BY <1>3, <2>3, <2>4, <2>5
<1>5. CASE ~(shares[o] > 1)
  <2> DEFINE new == holds'
  <2>0. PICK more \in [Contexts -> Nat] : \A c \in Contexts : more[c] = extra[c] + Same(c, holds[o])
    <3>1. [c \in Contexts |-> extra[c] + Same(c, holds[o])] \in [Contexts -> Nat]
      BY DEF Same
    <3> QED
      BY <3>1
  <2>1. /\ holds' = [holds EXCEPT ![o] = NoCtx] /\ cell' = [cell EXCEPT ![o] = "free"]
        /\ objOwner' = [objOwner EXCEPT ![o] = NoCtx]
    BY <1>5 DEF DropUnreleased
  <2>2. /\ shares' \in [Cells -> 0..MaxShares]
        /\ \A q \in Cells : shares'[q] > 0 => shares[q] > 0 /\ q # o
    BY <1>1, <1>5, BoundAssumption DEF TypeOK
  <2>3. TypeOK'
    BY <1>1, <2>1, <2>2 DEF TypeOK
  <2>4. new[o] = NoCtx /\ \A h \in Holders : h # o => new[h] = holds[h]
    BY <1>2, <2>1 DEF TypeOK
  <2>5. ASSUME NEW c \in Contexts
        PROVE  strong'[c] = Tally(Holders, new, c) + more[c]
    <3>1. SameBut(Holders, holds, new, o)
      BY <2>4 DEF SameBut
    <3> HIDE DEF new
    <3>2. Tally(Holders, new, c)
            = Tally(Holders, holds, c) + Same(c, new[o]) - Same(c, holds[o])
      BY <3>1, <1>2, HoldersFinite, CountUpdate
    <3>3. Same(c, new[o]) = 0 /\ Same(c, holds[o]) \in {0, 1}
      BY <2>4, NilAssumption DEF Same
    <3>4. Tally(Holders, holds, c) \in Nat /\ extra[c] \in Nat
      BY HoldersFinite, TallyType
    <3>5. strong'[c] = Tally(Holders, holds, c) + extra[c] /\ more[c] = extra[c] + Same(c, holds[o])
      BY <1>1, <2>0 DEF ExactBut
    <3> QED
      BY <3>2, <3>3, <3>4, <3>5
  <2>6. AtLeast(more, extra)
    BY <2>0 DEF Same, AtLeast
  <2>7. ContextsLive'
    BY <1>1, <2>4 DEF ContextsLive
  <2>8. AstsAllocated' /\ ObjectsAllocated'
    BY <1>1, <1>2, <2>1, <2>2, <2>4 DEF AstsAllocated, ObjectsAllocated, TypeOK
  <2>9. HookInv'
    BY <1>1, <1>2, <2>4 DEF HookInv, Holders
  <2>10. ExactBut(more)'
    BY <2>5 DEF ExactBut
  <2> QED
    BY <1>3, <2>3, <2>6, <2>7, <2>8, <2>9, <2>10
<1> QED
  BY <1>4, <1>5

LEMMA InterpStep ==
  ASSUME NEW extra \in [Contexts -> Nat], TypeOK, InvBut(extra), [InterpNext]_vars
  PROVE  /\ TypeOK'
         /\ \E more \in [Contexts -> Nat] : InvBut(more)' /\ AtLeast(more, extra)
<1>1. CASE [Next]_vars
  <2>1. TypeOK' /\ InvBut(extra)'
    BY <1>1, StepInv
  <2>2. AtLeast(extra, extra)
    BY DEF AtLeast
  <2> QED
    BY <2>1, <2>2
<1>2. CASE \E o \in Cells : DropUnreleased(o)
  BY <1>2, DropUnreleasedInv
<1> QED
  BY <1>1, <1>2 DEF InterpNext

\* The invariant of the program with these handles.
THEOREM InterpSafety == InterpSpec => []InterpInv
<1>1. Init => InterpInv
  <2>1. NoExtra \in [Contexts -> Nat]
    BY DEF NoExtra
  <2> QED
    BY <2>1, InitInv DEF InterpInv
<1>2. InterpInv /\ [InterpNext]_vars => InterpInv'
  BY InterpStep DEF InterpInv
<1> QED
  BY <1>1, <1>2, PTL DEF InterpSpec

\* The incomplete =destroy of Z3FuncDecl, Z3FuncInterp, Z3RcfNum and Z3Pattern is
\* harmless to what is in use: no value or handle, theirs or another, carries a
\* freed AST, a freed object or a deleted context, and Z3's count of each AST is the
\* number of values that carry it.
THEOREM NothingElseGoesWrong == InterpSpec => [](HandlesValid /\ RefsExact)
<1>1. InterpInv => HandlesValid /\ RefsExact
  BY DEF InterpInv, InvBut
<1> QED
  BY <1>1, InterpSafety, PTL

\* A context is never counted less often than it is referred to.
CountsCover == \A c \in Contexts : strong[c] >= Tally(Holders, holds, c)

THEOREM NeverUndercounted == InterpSpec => []CountsCover
<1>1. InterpInv => CountsCover
  <2> SUFFICES ASSUME NEW extra \in [Contexts -> Nat], InvBut(extra), NEW c \in Contexts
               PROVE  strong[c] >= Tally(Holders, holds, c)
    BY DEF InterpInv, CountsCover
  <2>1. Tally(Holders, holds, c) \in Nat /\ extra[c] \in Nat
    BY HoldersFinite, TallyType
  <2> QED
    BY <2>1 DEF InvBut, ExactBut
<1> QED
  BY <1>1, InterpSafety, PTL

\* Even so, a context that the wrapper does delete has nothing left in it.
THEOREM DeletionStaysClean == InterpSpec => DeletedClean
<1>1. InterpInv => TypeOK /\ Sound
  BY DEF InterpInv, InvBut, Sound
<1>2. Init => CellInv
  BY DEF Init, CellInv
<1> QED
  BY <1>1, <1>2, CellStep, CleanStep, InterpSafety, PTL DEF InterpSpec, DeletedClean

\* A context of the wrapper's own that is counted more often than it is referred to
\* is so for ever: no later step of the program gives the reference back, and none
\* deletes the context.
Forgotten(c) == strong[c] > Tally(Holders, holds, c)
LeakStays ==
    [][\A c \in Contexts :
         Forgotten(c) => /\ Forgotten(c)'
                         /\ z3ctx[c] = "live" /\ ~borrowed[c] => z3ctx'[c] = "live"]_vars

THEOREM LeaksAreForGood == InterpSpec => LeakStays
<1>1. ASSUME InterpInv, [InterpNext]_vars, NEW c \in Contexts, Forgotten(c)
      PROVE  /\ Forgotten(c)'
             /\ z3ctx[c] = "live" /\ ~borrowed[c] => z3ctx'[c] = "live"
  <2>1. PICK extra \in [Contexts -> Nat] : InvBut(extra)
    BY <1>1 DEF InterpInv
  <2>2. PICK more \in [Contexts -> Nat] : InvBut(more)' /\ AtLeast(more, extra)
    BY <1>1, <2>1, InterpStep DEF InterpInv
  <2>3. /\ strong[c] = Tally(Holders, holds, c) + extra[c]
        /\ strong'[c] = Tally(Holders, holds', c) + more[c]
    BY <2>1, <2>2 DEF InvBut, ExactBut
  <2>4. Tally(Holders, holds, c) \in Nat /\ Tally(Holders, holds', c) \in Nat
    BY HoldersFinite, TallyType
  <2>5. extra[c] \in Nat /\ more[c] \in Nat /\ more[c] >= extra[c]
    BY <2>2 DEF AtLeast
  <2>6. strong[c] > Tally(Holders, holds, c)
    BY <1>1 DEF Forgotten
  <2>7. Forgotten(c)'
    BY <2>3, <2>4, <2>5, <2>6 DEF Forgotten
  <2>8. ASSUME LastReference(c) PROVE FALSE
    <3>1. PICK h \in Holders : holds[h] = c
      BY <2>8 DEF LastReference
    <3>2. Tally(Holders, holds, c) > 0
      BY <3>1, HoldersFinite, CountOne
    <3> QED
      BY <3>2, <2>4, <2>6, <2>8 DEF LastReference
  <2>9. HookInv
    BY <2>1 DEF InvBut
  <2>10. ASSUME z3ctx[c] = "live", ~borrowed[c] PROVE z3ctx'[c] = "live"
    BY <1>1, <2>8, <2>9, <2>10, StepKinds DEF InterpInv, ContextsMove, ContextsStay, Z3Contexts
  <2> QED
    BY <2>7, <2>10
<1>2. InterpInv /\ [InterpNext]_vars => [\A c \in Contexts :
        Forgotten(c) => /\ Forgotten(c)'
                        /\ z3ctx[c] = "live" /\ ~borrowed[c] => z3ctx'[c] = "live"]_vars
  BY <1>1
<1> QED
  BY <1>2, InterpSafety, PTL DEF InterpSpec, LeakStays
=============================================================================
