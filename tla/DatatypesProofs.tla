--------------------------- MODULE DatatypesProofs ---------------------------
(***************************************************************************)
(* Datatype declarations, for any types, constructors and number of calls: *)
(* the func_decls are counted exactly, what failed leaves no more behind   *)
(* than what succeeded, and types declared together are registered         *)
(* together.                                                               *)
(***************************************************************************)
EXTENDS Datatypes, SequenceTheorems, TLAPS

-----------------------------------------------------------------------------
(* The inductive invariant.                                                *)

CallRecord == [form : {"single", "batch", "seq", "direct"}, types : Groups]

\* Which forms take which steps, and which calls what is there comes from.
Calls ==
    /\ calls \in Seq(CallRecord)
    /\ step # "idle" => This > 0 /\ Form # "direct"
    /\ step # "idle" /\ Form = "single" => Len(Group) = 1 /\ step # "list"
    /\ \A c \in descs \cup fresh \cup pinned \cup handles : c[1] \in 1..This
    /\ \A c \in pinned : calls[c[1]].form = "direct"
    /\ \A c \in handles \cup decls : calls[c[1]].form # "direct"
    /\ step # "idle" => \A c \in handles \cup decls : c[1] # This

\* The constructors of the first k types of the latest call.
Done(k) == UNION {Constructors(This, Group[j]) : j \in 1..k}

\* The references made so far are those of the types that have been queried.
Fresh ==
    /\ step \in {"idle", "build", "list", "make"} => fresh = {}
    /\ step = "query" => fresh = Done(at - 1)
    /\ step \in {"finally", "return"} /\ ~raising => fresh = Done(Len(Group))
    /\ \A c \in fresh : c[1] = This

\* What belongs to a datatype that was made is deleted by its own call, and before
\* that call ends.
Deleting == step \in {"query", "finally"}
Reclaim ==
    /\ \A d \in descs :
          calls[d[1]].form = "single" /\ <<d[1], d[2]>> \in declared => d[1] = This /\ Deleting
    /\ \A l \in lists \cap declared : l[1] = This /\ Deleting
    /\ \A l \in lists : calls[l[1]].form # "single"
    /\ \A c \in descs \cup lists : step # "idle" /\ c[1] = This => c[2] \in Members
    /\ step \in {"build", "list", "make"} => \A d \in declared : d[1] # This

\* Nothing of declareDatatypes is registered before it returns.
Registered ==
    /\ \A n \in 1..This :
          /\ calls[n].form = "batch"
          /\ \E t \in Types : registry[t] = n
          => \A k \in 1..Len(calls[n].types) : registry[calls[n].types[k]] >= n
    /\ step # "idle" /\ Form = "batch" => \A t \in Types : registry[t] # This

Inv == TypeOK /\ Calls /\ Fresh /\ CountsExact /\ Reclaim /\ Registered

-----------------------------------------------------------------------------
(* Groups and constructors.                                                *)

LEMMA GroupsTyped ==
  ASSUME NEW ts \in Groups
  PROVE  /\ ts \in Seq(Types) /\ Len(ts) \in 1..MaxBatch /\ DOMAIN ts = 1..Len(ts)
         /\ \A i \in 1..Len(ts) : ts[i] \in Types
         /\ \A i, j \in 1..Len(ts) : i # j => ts[i] # ts[j]
<1>1. PICK k \in 1..MaxBatch : ts \in [1..k -> Types]
  BY DEF Groups
<1>2. k \in Nat
  BY <1>1, BoundAssumption
<1>3. ts \in Seq(Types)
  BY <1>1, <1>2, SeqDef
<1>4. Len(ts) = k /\ DOMAIN ts = 1..Len(ts)
  BY <1>1, <1>2, <1>3, LenProperties
<1> QED
  BY <1>1, <1>3, <1>4 DEF Groups

LEMMA GroupFacts ==
  ASSUME TypeOK, Calls, step # "idle"
  PROVE  /\ This \in 1..MaxCalls /\ Group \in Groups
         /\ Len(Group) \in 1..MaxBatch /\ at \in 1..Len(Group)
         /\ \A i \in 1..Len(Group) : Group[i] \in Types
         /\ \A i, j \in 1..Len(Group) : i # j => Group[i] # Group[j]
         /\ Members \subseteq Types
<1>1. This \in 1..MaxCalls /\ This \in 1..This
  BY BoundAssumption DEF TypeOK, Calls, This
<1>2. Group \in Groups
  BY <1>1 DEF TypeOK, Group
<1> QED
  BY <1>1, <1>2, GroupsTyped DEF TypeOK, Members

LEMMA ThisFacts ==
  ASSUME TypeOK, Calls
  PROVE  This \in Nat /\ This \in 0..MaxCalls /\ MaxCalls \in Nat
BY BoundAssumption DEF TypeOK, Calls, This

LEMMA SpecsTyped == ASSUME NEW t \in Types PROVE Len(Specs[t]) \in Nat
BY SpecsAssumption

LEMMA ConsFacts ==
  ASSUME NEW n, NEW t, NEW c \in Constructors(n, t)
  PROVE  c[1] = n /\ c[2] = t
BY DEF Constructors

LEMMA ConsAll ==
  ASSUME NEW n \in 1..MaxCalls, NEW t \in Types
  PROVE  Constructors(n, t) \subseteq AllConstructors
BY DEF AllConstructors

LEMMA AllFacts ==
  ASSUME NEW c \in AllConstructors
  PROVE  c[1] \in 1..MaxCalls /\ c[2] \in Types /\ c \in Constructors(c[1], c[2])
<1>1. PICK n \in 1..MaxCalls, t \in Types : c \in Constructors(n, t)
  BY DEF AllConstructors
<1> QED
  BY <1>1, ConsFacts

LEMMA DoneFacts ==
  ASSUME TypeOK, Calls, step # "idle"
  PROVE  /\ Done(0) = {}
         /\ \A k \in 1..Len(Group) : Done(k) = Done(k - 1) \cup Constructors(This, Group[k])
         /\ \A k \in 0..Len(Group) : Done(k) \subseteq AllConstructors
         /\ \A k \in 0..Len(Group) : \A c \in Done(k) : c[1] = This
         /\ \A k \in 1..Len(Group) : Done(k - 1) \cap Constructors(This, Group[k]) = {}
<1> USE GroupFacts
<1>1. Done(0) = {}
  BY DEF Done
<1>2. ASSUME NEW k \in 1..Len(Group)
      PROVE  Done(k) = Done(k - 1) \cup Constructors(This, Group[k])
  <2>1. 1..k = (1..(k - 1)) \cup {k}
    BY <1>2
  <2> QED
    BY <2>1 DEF Done
<1>3. ASSUME NEW k \in 0..Len(Group), NEW c \in Done(k)
      PROVE  c \in AllConstructors /\ c[1] = This
  <2>1. PICK j \in 1..k : c \in Constructors(This, Group[j])
    BY <1>3 DEF Done
  <2> QED
    BY <1>3, <2>1, ConsAll, ConsFacts
<1>4. ASSUME NEW k \in 1..Len(Group), NEW c \in Done(k - 1)
      PROVE  c \notin Constructors(This, Group[k])
  <2>1. PICK j \in 1..(k - 1) : c \in Constructors(This, Group[j])
    BY <1>4 DEF Done
  <2> QED
    BY <1>4, <2>1, ConsFacts
<1> QED
  BY <1>1, <1>2, <1>3, <1>4

-----------------------------------------------------------------------------
(* The steps of a call.                                                    *)

LEMMA SameCall ==
  ASSUME calls' = calls
  PROVE  /\ This' = This /\ Form' = Form /\ Group' = Group /\ Members' = Members
         /\ \A k : Done(k)' = Done(k)
BY DEF This, Form, Group, Members, Done

LEMMA CountSame == ASSUME CountsExact, UNCHANGED declVars PROVE CountsExact'
BY DEF CountsExact, declVars, KeptBy

LEMMA DeclareInv ==
  ASSUME Inv, NEW form \in {"single", "batch", "seq"}, NEW ts \in Groups, Declare(form, ts)
  PROVE  Inv'
<1> USE DEF Inv
<1> DEFINE call == [form |-> form, types |-> ts]
<1>1. /\ UNCHANGED <<z3Vars, declVars, registry>>
      /\ step = "idle" /\ This < MaxCalls /\ (form = "single" => Len(ts) = 1)
      /\ calls' = Append(calls, call) /\ step' = "build" /\ at' = 1 /\ raising' = FALSE
  BY DEF Declare
<1>2. call \in CallRecord /\ call.form = form /\ call.types = ts
  BY DEF CallRecord
<1> HIDE DEF call
<1>3. /\ calls' \in Seq(CallRecord) /\ This' = This + 1 /\ This \in Nat
      /\ calls'[This + 1] = call /\ \A n \in 1..This : calls'[n] = calls[n]
  BY <1>1, <1>2 DEF Calls, This
<1>4. Form' = form /\ Group' = ts /\ Len(ts) \in 1..MaxBatch /\ This + 1 \in 1..MaxCalls
  BY <1>1, <1>2, <1>3, GroupsTyped, ThisFacts DEF Form, Group
<1>5. TypeOK'
  <2>1. \A n \in 1..This' : /\ calls'[n].form \in {"single", "batch", "seq", "direct"}
                            /\ calls'[n].types \in Groups
    BY <1>2, <1>3 DEF TypeOK
  <2>2. lists \cup declared \cup decls \subseteq (1..This') \X Types
    BY <1>3 DEF TypeOK
  <2>3. registry \in [Types -> 0..This']
    BY <1>3 DEF TypeOK
  <2>4. This' <= MaxCalls /\ step' \in {"build"} /\ at' \in 1..Len(Group')
    BY <1>1, <1>3, <1>4
  <2> QED
    BY <1>1, <2>1, <2>2, <2>3, <2>4 DEF TypeOK, z3Vars, declVars
<1>6. Calls'
  <2>1. \A c \in descs \cup fresh \cup pinned \cup handles : c[1] \in 1..This
    BY DEF Calls
  <2>2. \A c \in decls : c[1] \in 1..This
    BY DEF TypeOK
  <2>3. /\ \A c \in descs \cup fresh \cup pinned \cup handles : c[1] \in 1..This'
        /\ \A c \in pinned : calls'[c[1]].form = "direct"
        /\ \A c \in handles \cup decls : calls'[c[1]].form # "direct" /\ c[1] # This'
    BY <1>3, <2>1, <2>2 DEF Calls
  <2>4. /\ This' > 0 /\ Form' # "direct"
        /\ Form' = "single" => Len(Group') = 1 /\ step' # "list"
    BY <1>1, <1>3, <1>4
  <2> QED
    BY <1>1, <1>3, <2>3, <2>4 DEF Calls, z3Vars, declVars
<1>7. Fresh'
  BY <1>1 DEF Fresh, declVars
<1>8. CountsExact'
  BY <1>1, CountSame
<1>9. Reclaim'
  <2>1. \A c \in descs \cup lists \cup declared : c[1] \in 1..This
    BY DEF Calls, TypeOK
  <2>2. /\ \A c \in descs \cup lists : calls'[c[1]] = calls[c[1]] /\ c[1] # This'
        /\ \A c \in declared : c[1] # This'
    BY <1>3, <2>1
  <2>3. /\ \A d \in descs : calls[d[1]].form = "single" => <<d[1], d[2]>> \notin declared
        /\ lists \cap declared = {} /\ \A l \in lists : calls[l[1]].form # "single"
    BY <1>1 DEF Reclaim, Deleting
  <2> QED
    BY <1>1, <2>2, <2>3 DEF Reclaim, z3Vars
<1>10. Registered'
  <2>1. \A u \in Types : registry[u] # This' /\ registry[u] \in Nat
    BY <1>3 DEF TypeOK
  <2>2. ASSUME NEW n \in 1..This', calls'[n].form = "batch", NEW u \in Types, registry[u] = n
        PROVE  \A k \in 1..Len(calls'[n].types) : registry[calls'[n].types[k]] >= n
    <3>1. n \in 1..This /\ calls'[n] = calls[n]
      BY <1>3, <2>1, <2>2
    <3> QED
      BY <2>2, <3>1 DEF Registered
  <2> QED
    BY <1>1, <2>1, <2>2 DEF Registered
<1> QED
  BY <1>5, <1>6, <1>7, <1>8, <1>9, <1>10

\* A step that ends the call, outside the try or with all done.
LEMMA BuildInv ==
  ASSUME Inv, NEW m \in Nat, BuildRawConstructors(m) PROVE Inv'
<1> USE DEF Inv
<1> DEFINE g == Group[at]
           new == {<<This, g, j>> : j \in 1..m}
<1>1. /\ UNCHANGED <<lists, declared, declVars, registry, calls, raising>>
      /\ step = "build" /\ m <= Len(Specs[g]) /\ descs' = descs \cup new
      /\ \/ /\ Last /\ at' = 1
            /\ step' = IF Form = "single" THEN "make" ELSE "list"
         \/ ~Last /\ step' = "build" /\ at' = at + 1
         \/ step' = "idle" /\ at' = 1
  BY DEF BuildRawConstructors, Advance, Escape
<1>2. /\ This \in 1..MaxCalls /\ g \in Members /\ g \in Types /\ Len(Group) \in 1..MaxBatch
      /\ at \in 1..Len(Group)
  BY <1>1, GroupFacts DEF Members
<1>3. \A c \in new : c[1] = This /\ c[2] = g /\ c \in AllConstructors
  <2> SUFFICES ASSUME NEW j \in 1..m
               PROVE  <<This, g, j>> \in AllConstructors
    OBVIOUS
  <2>1. Len(Specs[g]) \in Nat
    BY <1>2, SpecsTyped
  <2>2. <<This, g, j>> \in Constructors(This, g)
    BY <1>1, <2>1 DEF Constructors
  <2> QED
    BY <1>2, <2>2, ConsAll
<1> HIDE DEF new, g
<1>4. TypeOK'
  <2>1. at' \in 1..Len(Group)
    BY <1>1, <1>2 DEF Last
  <2> QED
    BY <1>1, <1>3, <2>1, SameCall DEF TypeOK, declVars
<1>5. Calls'
  BY <1>1, <1>2, <1>3, SameCall DEF Calls, declVars
<1>6. Fresh' /\ CountsExact'
  BY <1>1, CountSame, SameCall DEF Fresh, declVars
<1>7. Reclaim'
  BY <1>1, <1>2, <1>3, SameCall DEF Reclaim, Deleting
<1>8. Registered'
  BY <1>1, SameCall DEF Registered
<1> QED
  BY <1>4, <1>5, <1>6, <1>7, <1>8

LEMMA MakeListInv == ASSUME Inv, MakeList PROVE Inv'
<1> USE DEF Inv
<1> DEFINE l == <<This, Group[at]>>
<1>1. /\ UNCHANGED <<descs, declared, declVars, registry, calls, raising>>
      /\ step = "list" /\ lists' = lists \cup {l}
      /\ \/ Last /\ at' = 1 /\ step' = "make"
         \/ ~Last /\ step' = "list" /\ at' = at + 1
  BY DEF MakeList, Advance
<1>2. /\ This \in 1..MaxCalls /\ Group[at] \in Members /\ Group[at] \in Types
      /\ Len(Group) \in 1..MaxBatch /\ at \in 1..Len(Group)
  BY <1>1, GroupFacts DEF Members
<1>3. l[1] = This /\ l[2] = Group[at] /\ l \in (1..This) \X Types
  BY <1>2
<1> HIDE DEF l
<1>4. TypeOK'
  <2>1. at' \in 1..Len(Group)
    BY <1>1, <1>2 DEF Last
  <2> QED
    BY <1>1, <1>3, <2>1, SameCall DEF TypeOK, declVars
<1>5. Calls'
  BY <1>1, SameCall DEF Calls, declVars
<1>6. Fresh' /\ CountsExact'
  BY <1>1, CountSame, SameCall DEF Fresh, declVars
<1>7. Reclaim'
  BY <1>1, <1>2, <1>3, SameCall DEF Reclaim, Deleting, Calls, Form
<1>8. Registered'
  BY <1>1, SameCall DEF Registered
<1> QED
  BY <1>4, <1>5, <1>6, <1>7, <1>8

LEMMA MakeDatatypesInv == ASSUME Inv, MakeDatatypes PROVE Inv'
<1> USE DEF Inv
<1>1. /\ UNCHANGED <<calls, raising, descs, lists, declVars, registry>>
      /\ step = "make" /\ step' = "query" /\ at' = 1
      /\ declared' = declared \cup {<<This, u>> : u \in Members}
  BY DEF MakeDatatypes
<1>2. /\ This \in 1..MaxCalls /\ Members \subseteq Types /\ Len(Group) \in 1..MaxBatch
  BY <1>1, GroupFacts
<1>3. TypeOK'
  BY <1>1, <1>2, SameCall DEF TypeOK, declVars
<1>4. Calls'
  BY <1>1, SameCall DEF Calls, declVars
<1>5. Fresh'
  BY <1>1, SameCall, DoneFacts DEF Fresh, declVars
<1>6. CountsExact'
  BY <1>1, CountSame
<1>7. Reclaim'
  BY <1>1, SameCall DEF Reclaim, Deleting
<1>8. Registered'
  BY <1>1, SameCall DEF Registered
<1> QED
  BY <1>3, <1>4, <1>5, <1>6, <1>7, <1>8

LEMMA FailInv == ASSUME Inv, Fail PROVE Inv'
<1> USE DEF Inv
<1>1. /\ UNCHANGED <<z3Vars, declVars, registry, calls, raising>>
      /\ step \in {"list", "make"} /\ step' = "idle"
  BY DEF Fail, Escape
<1>2. TypeOK' /\ Calls'
  BY <1>1, SameCall DEF TypeOK, Calls, z3Vars, declVars
<1>3. Fresh' /\ CountsExact'
  BY <1>1, CountSame, SameCall DEF Fresh, declVars
<1>4. Reclaim' /\ Registered'
  BY <1>1, SameCall DEF Reclaim, Deleting, Registered, z3Vars
<1> QED
  BY <1>2, <1>3, <1>4

LEMMA QueryFailsInv == ASSUME Inv, NEW m \in Nat, QueryFails(m) PROVE Inv'
<1> USE DEF Inv
<1>1. /\ UNCHANGED <<calls, at, z3Vars, declVars, registry>>
      /\ step = "query" /\ step' = "finally" /\ raising' = TRUE
  BY DEF QueryFails
<1>2. TypeOK' /\ Calls'
  BY <1>1, SameCall DEF TypeOK, Calls, z3Vars, declVars
<1>3. Fresh' /\ CountsExact'
  BY <1>1, CountSame, SameCall DEF Fresh, declVars
<1>4. Reclaim' /\ Registered'
  BY <1>1, SameCall DEF Reclaim, Deleting, Registered, z3Vars
<1> QED
  BY <1>2, <1>3, <1>4

\* What is counted in a call was not counted before.
LEMMA Elsewhere ==
  ASSUME Inv, step # "idle"
  PROVE  \A c \in pinned \cup KeptBy(decls, handles) : c[1] # This
<1> USE DEF Inv
<1>1. \A c \in pinned \cup handles : c[1] # This
  BY DEF Calls, Form
<1>2. ASSUME NEW d \in decls, NEW c \in Constructors(d[1], d[2]) PROVE c[1] # This
  BY <1>2, ConsFacts DEF Calls
<1> QED
  BY <1>1, <1>2 DEF KeptBy

LEMMA QueryInv == ASSUME Inv, Query PROVE Inv'
<1> USE DEF Inv
<1> DEFINE g == Group[at]
           cs == Constructors(This, g)
<1>1. /\ UNCHANGED <<calls, raising, z3Vars, decls, pinned, handles>> /\ step = "query"
      /\ fresh' = fresh \cup cs
      /\ count' = [c \in AllConstructors |-> IF c \in cs THEN count[c] + 1 ELSE count[c]]
      /\ registry' = IF Form = "seq" THEN [registry EXCEPT ![g] = This] ELSE registry
      /\ \/ Last /\ at' = 1 /\ step' = "finally"
         \/ ~Last /\ step' = "query" /\ at' = at + 1
  BY DEF Query, Advance, Retain
<1>2. /\ This \in 1..MaxCalls /\ Len(Group) \in 1..MaxBatch /\ at \in 1..Len(Group)
      /\ g \in Types
  BY <1>1, GroupFacts
<1>3. /\ cs \subseteq AllConstructors /\ \A c \in cs : c[1] = This
      /\ fresh \cap cs = {} /\ fresh \cup cs = Done(at)
  BY <1>1, <1>2, ConsAll, ConsFacts, DoneFacts DEF Fresh
<1>4. registry' \in [Types -> 0..This]
  BY <1>1, <1>2 DEF TypeOK
<1> HIDE DEF cs, g
<1>5. CountsExact'
  <2>1. \A c \in cs : c \notin fresh /\ c \notin pinned \cup KeptBy(decls, handles)
    BY <1>1, <1>3, Elsewhere
  <2>2. KeptBy(decls, handles)' = KeptBy(decls, handles)
    BY <1>1 DEF KeptBy
  <2>3. ASSUME NEW c \in AllConstructors
        PROVE  count'[c] = IF c \in fresh' \cup pinned' \cup KeptBy(decls, handles)' THEN 1 ELSE 0
    <3>1. CASE c \in cs
      BY <1>1, <2>1, <2>2, <3>1 DEF CountsExact
    <3>2. CASE c \notin cs
      BY <1>1, <2>2, <3>2 DEF CountsExact
    <3> QED
      BY <3>1, <3>2
  <2> QED
    BY <2>3 DEF CountsExact
<1>6. TypeOK'
  <2>1. at' \in 1..Len(Group)
    BY <1>1, <1>2 DEF Last
  <2>2. count' \in [AllConstructors -> Nat]
    BY <1>1 DEF TypeOK
  <2>3. descs \cup fresh' \cup pinned \cup handles \subseteq AllConstructors
    BY <1>1, <1>3 DEF TypeOK
  <2> QED
    BY <1>1, <1>4, <2>1, <2>2, <2>3, SameCall DEF TypeOK, z3Vars
<1>7. Calls'
  BY <1>1, <1>2, <1>3, SameCall DEF Calls, z3Vars
<1>8. Fresh'
  BY <1>1, <1>2, <1>3, SameCall DEF Fresh, Last, TypeOK
<1>9. Reclaim'
  BY <1>1, SameCall DEF Reclaim, Deleting, z3Vars
<1>10. Registered'
  <2>1. ASSUME NEW n \in 1..This, calls[n].form = "batch", NEW u \in Types, registry'[u] = n,
               NEW k \in 1..Len(calls[n].types)
        PROVE  registry'[calls[n].types[k]] >= n
    <3>1. calls[n].types[k] \in Types
      BY <2>1, GroupsTyped DEF TypeOK
    <3>2. registry[u] = n
      BY <1>1, <1>2, <2>1 DEF TypeOK, Form
    <3>3. registry[calls[n].types[k]] >= n
      BY <2>1, <3>2 DEF Registered
    <3> QED
      BY <1>1, <1>2, <2>1, <3>1, <3>3 DEF TypeOK
  <2>2. Form = "batch" => \A u \in Types : registry'[u] # This
    BY <1>1 DEF Registered
  <2> QED
    BY <1>1, <2>1, <2>2, SameCall DEF Registered
<1> QED
  BY <1>5, <1>6, <1>7, <1>8, <1>9, <1>10

LEMMA FinallyInv == ASSUME Inv, Finally PROVE Inv'
<1> USE DEF Inv
<1>1. /\ UNCHANGED <<calls, declared, decls, pinned, handles, registry>>
      /\ step = "finally" /\ at' = 1 /\ raising' = FALSE
      /\ IF Form = "single"
         THEN descs' = descs \ Constructors(This, Group[1]) /\ UNCHANGED lists
         ELSE lists' = lists \ {<<This, u>> : u \in Members} /\ UNCHANGED descs
      /\ IF raising
         THEN /\ fresh' = {} /\ step' = "idle"
              /\ count' = [c \in AllConstructors |-> IF c \in fresh THEN count[c] - 1 ELSE count[c]]
         ELSE UNCHANGED <<count, fresh>> /\ step' = "return"
  BY DEF Finally, Release
<1>2. /\ This \in 1..MaxCalls /\ Len(Group) \in 1..MaxBatch
      /\ Form = "single" => Members = {Group[1]}
  BY <1>1, GroupFacts DEF Calls, Members
<1>3. KeptBy(decls, handles)' = KeptBy(decls, handles)
  BY <1>1 DEF KeptBy
<1>4. \A c \in fresh : c \notin pinned \cup KeptBy(decls, handles)
  BY <1>1, Elsewhere DEF Fresh
<1>5. CountsExact'
  BY <1>1, <1>3, <1>4 DEF CountsExact
<1>6. TypeOK'
  <2>1. count' \in [AllConstructors -> Nat]
    BY <1>1, <1>5 DEF CountsExact, TypeOK
  <2>2. descs' \subseteq descs /\ lists' \subseteq lists /\ fresh' \subseteq fresh
    BY <1>1
  <2> QED
    BY <1>1, <1>2, <2>1, <2>2, SameCall DEF TypeOK
<1>7. Calls' /\ Fresh'
  BY <1>1, SameCall DEF Calls, Fresh
<1>8. Reclaim'
  <2>1. ASSUME NEW d \in descs', calls[d[1]].form = "single", <<d[1], d[2]>> \in declared
        PROVE  FALSE
    <3>1. d \in descs /\ d[1] = This
      BY <1>1, <2>1 DEF Reclaim
    <3>2. Form = "single"
      BY <2>1, <3>1 DEF Form
    <3>3. d[2] = Group[1]
      BY <1>1, <1>2, <3>1, <3>2 DEF Reclaim
    <3>4. d \in Constructors(This, Group[1])
      BY <3>1, <3>3, AllFacts DEF TypeOK
    <3> QED
      BY <1>1, <2>1, <3>2, <3>4
  <2>2. ASSUME NEW l \in lists', l \in declared PROVE FALSE
    <3>1. l \in lists /\ l[1] = This /\ Form # "single"
      BY <1>1, <2>2 DEF Reclaim, Form
    <3>2. l = <<This, l[2]>> /\ l[2] \in Members
      BY <1>1, <3>1 DEF TypeOK, Reclaim
    <3> QED
      BY <1>1, <2>2, <3>1, <3>2
  <2>3. descs' \subseteq descs /\ lists' \subseteq lists
    BY <1>1
  <2> QED
    BY <1>1, <2>1, <2>2, <2>3, SameCall DEF Reclaim
<1>9. Registered'
  BY <1>1, SameCall DEF Registered
<1> QED
  BY <1>5, <1>6, <1>7, <1>8, <1>9

LEMMA ReturnInv == ASSUME Inv, Return PROVE Inv'
<1> USE DEF Inv
<1>1. /\ UNCHANGED <<calls, at, raising, z3Vars, count, pinned, handles>>
      /\ step = "return" /\ step' = "idle" /\ fresh' = {}
      /\ registry' = [u \in Types |-> IF u \in Members THEN This ELSE registry[u]]
      /\ decls' = decls \cup {<<This, u>> : u \in Members}
  BY DEF Return
<1>2. /\ This \in 1..MaxCalls /\ Members \subseteq Types
  BY <1>1, GroupFacts
<1>3. fresh = UNION {Constructors(This, u) : u \in Members}
  BY <1>1 DEF Fresh, TypeOK, Done, Members
<1>4. KeptBy(decls, handles)' = KeptBy(decls, handles) \cup fresh
  <2> DEFINE made == {<<This, u>> : u \in Members}
             Of(d) == Constructors(d[1], d[2])
  <2>1. \A u \in Members : Of(<<This, u>>) = Constructors(This, u)
    OBVIOUS
  <2>2. UNION {Of(d) : d \in made} = fresh
    <3> HIDE DEF Of
    <3> QED
      BY <1>3, <2>1
  <2> QED
    BY <1>1, <2>2 DEF KeptBy
<1>5. CountsExact'
  BY <1>1, <1>4 DEF CountsExact
<1>6. TypeOK'
  BY <1>1, <1>2, SameCall DEF TypeOK, z3Vars
<1>7. Calls'
  BY <1>1, <1>2, SameCall DEF Calls, z3Vars, Form
<1>8. Fresh' /\ Reclaim'
  BY <1>1, SameCall DEF Fresh, Reclaim, Deleting, z3Vars
<1>9. Registered'
  <2>1. ASSUME NEW n \in 1..This, calls[n].form = "batch", NEW u \in Types, registry'[u] = n,
               NEW k \in 1..Len(calls[n].types)
        PROVE  registry'[calls[n].types[k]] >= n
    <3>1. calls[n].types[k] \in Types
      BY <2>1, GroupsTyped DEF TypeOK
    <3>2. CASE n = This
      BY <1>1, <1>2, <2>1, <3>1, <3>2 DEF Members, Group
    <3>3. CASE n # This
      <4>1. registry[u] = n
        BY <1>1, <2>1, <3>3
      <4>2. registry[calls[n].types[k]] >= n
        BY <2>1, <4>1 DEF Registered
      <4> QED
        BY <1>1, <1>2, <2>1, <3>1, <4>2
    <3> QED
      BY <3>2, <3>3
  <2> QED
    BY <1>1, <2>1, SameCall DEF Registered
<1> QED
  BY <1>5, <1>6, <1>7, <1>8, <1>9

\* mkEnumerationSort and mkTupleSort count what they make, for good.
LEMMA MkSortInv == ASSUME Inv, NEW t \in Types, MkSort(t) PROVE Inv'
<1> USE DEF Inv
<1> DEFINE call == [form |-> "direct", types |-> <<t>>]
           n == This + 1
           cs == Constructors(n, t)
<1>1. /\ UNCHANGED <<step, at, raising, descs, lists, fresh, decls, handles, registry>>
      /\ step = "idle" /\ This < MaxCalls /\ calls' = Append(calls, call)
      /\ declared' = declared \cup {<<n, t>>}
      /\ count' = [c \in AllConstructors |-> IF c \in cs THEN count[c] + 1 ELSE count[c]]
      /\ pinned' = pinned \cup cs
  BY DEF MkSort, Retain
<1>2. call \in CallRecord /\ n \in 1..MaxCalls /\ This \in Nat
  <2>1. n \in 1..MaxCalls /\ This \in Nat
    BY <1>1, ThisFacts
  <2>2. <<t>> \in [1..1 -> Types] /\ 1 \in 1..MaxBatch
    BY BoundAssumption
  <2>3. \A i, j \in DOMAIN <<t>> : i # j => <<t>>[i] # <<t>>[j]
    BY <2>2
  <2>4. <<t>> \in Groups
    BY <2>2, <2>3 DEF Groups
  <2> QED
    BY <2>1, <2>4 DEF CallRecord
<1>3. /\ calls' \in Seq(CallRecord) /\ This' = n /\ calls'[n] = call
      /\ \A m \in 1..This : calls'[m] = calls[m]
  BY <1>1, <1>2 DEF Calls, This
<1>4. /\ cs \subseteq AllConstructors /\ \A c \in cs : c[1] = n
  BY <1>2, ConsAll, ConsFacts
<1>5. call.form = "direct" /\ call.types \in Groups
  BY <1>2 DEF CallRecord
<1> HIDE DEF call, cs
<1>6. /\ \A c \in descs \cup fresh \cup pinned \cup handles \cup lists \cup declared \cup decls :
            c[1] \in 1..This
  BY DEF Calls, TypeOK
<1>7. CountsExact'
  <2>1. \A c \in cs : c \notin fresh /\ c \notin pinned \cup KeptBy(decls, handles)
    <3>1. ASSUME NEW d \in decls, NEW c \in Constructors(d[1], d[2]) PROVE c[1] \in 1..This
      BY <1>6, <3>1, ConsFacts
    <3> QED
      BY <1>2, <1>4, <1>6, <3>1 DEF KeptBy
  <2>2. KeptBy(decls, handles)' = KeptBy(decls, handles)
    BY <1>1 DEF KeptBy
  <2>3. ASSUME NEW c \in AllConstructors
        PROVE  count'[c] = IF c \in fresh' \cup pinned' \cup KeptBy(decls, handles)' THEN 1 ELSE 0
    <3>1. CASE c \in cs
      BY <1>1, <2>1, <2>2, <3>1 DEF CountsExact
    <3>2. CASE c \notin cs
      BY <1>1, <2>2, <3>2 DEF CountsExact
    <3> QED
      BY <3>1, <3>2
  <2> QED
    BY <2>3 DEF CountsExact
<1>8. TypeOK'
  <2>1. \A m \in 1..This' : /\ calls'[m].form \in {"single", "batch", "seq", "direct"}
                            /\ calls'[m].types \in Groups
    BY <1>2, <1>3, <1>5 DEF TypeOK
  <2>2. lists \cup declared' \cup decls \subseteq (1..This') \X Types
    BY <1>1, <1>2, <1>3 DEF TypeOK
  <2>3. registry \in [Types -> 0..This'] /\ This' <= MaxCalls
    BY <1>2, <1>3 DEF TypeOK
  <2>4. count' \in [AllConstructors -> Nat] /\ pinned' \subseteq AllConstructors
    BY <1>1, <1>4 DEF TypeOK
  <2> QED
    BY <1>1, <2>1, <2>2, <2>3, <2>4 DEF TypeOK
<1>9. Calls'
  <2>1. \A c \in pinned' : c[1] \in 1..This'
    <3>1. 1..This \subseteq 1..n /\ n \in 1..n
      BY <1>2
    <3> QED
      BY <1>1, <1>3, <1>4, <1>6, <3>1
  <2>2. \A c \in descs \cup fresh \cup handles : c[1] \in 1..This'
    <3>1. 1..This \subseteq 1..n
      BY <1>2
    <3> QED
      BY <1>3, <1>6, <3>1
  <2>3. \A c \in handles \cup decls : calls'[c[1]].form # "direct"
    BY <1>3, <1>6 DEF Calls
  <2>4. /\ \A c \in descs \cup fresh \cup pinned' \cup handles : c[1] \in 1..This'
        /\ \A c \in handles \cup decls : calls'[c[1]].form # "direct"
    BY <2>1, <2>2, <2>3
  <2>5. \A c \in pinned' : calls'[c[1]].form = "direct"
    BY <1>1, <1>3, <1>4, <1>5, <1>6 DEF Calls
  <2> QED
    BY <1>1, <1>3, <2>4, <2>5 DEF Calls
<1>10. Fresh'
  BY <1>1 DEF Fresh
<1>11. Reclaim'
  <2>1. /\ \A c \in descs \cup lists : calls'[c[1]] = calls[c[1]] /\ c[1] # n
    BY <1>2, <1>3, <1>6
  <2>2. /\ \A d \in descs : calls[d[1]].form = "single" => <<d[1], d[2]>> \notin declared'
        /\ lists \cap declared' = {} /\ \A l \in lists : calls[l[1]].form # "single"
    BY <1>1, <2>1 DEF Reclaim, Deleting
  <2> QED
    BY <1>1, <2>1, <2>2 DEF Reclaim
<1>12. Registered'
  <2>1. ASSUME NEW m \in 1..This', calls'[m].form = "batch", NEW u \in Types, registry[u] = m
        PROVE  \A k \in 1..Len(calls'[m].types) : registry[calls'[m].types[k]] >= m
    <3>1. m \in 1..This /\ calls'[m] = calls[m]
      BY <1>2, <1>3, <1>5, <2>1
    <3> QED
      BY <2>1, <3>1 DEF Registered
  <2> QED
    BY <1>1, <2>1 DEF Registered
<1> QED
  BY <1>7, <1>8, <1>9, <1>10, <1>11, <1>12

-----------------------------------------------------------------------------
(* The program's use of declarations.                                      *)

LEMMA LookupInv ==
  ASSUME Inv, NEW d \in decls, NEW c \in Constructors(d[1], d[2]), Lookup(d, c) PROVE Inv'
<1> USE DEF Inv
<1>1. /\ UNCHANGED <<callVars, z3Vars, count, fresh, decls, pinned, registry>>
      /\ step = "idle" /\ handles' = handles \cup {c} /\ UNCHANGED <<calls, step, at, raising>>
  BY DEF Lookup, callVars
<1>2. /\ d[1] \in 1..This /\ d[2] \in Types /\ c[1] = d[1] /\ This \in 0..MaxCalls
  BY ConsFacts, ThisFacts DEF TypeOK
<1>3. c \in AllConstructors
  <2>1. d[1] \in 1..MaxCalls
    BY <1>2, ThisFacts
  <2>2. Constructors(d[1], d[2]) \subseteq AllConstructors
    BY <1>2, <2>1, ConsAll
  <2> QED
    BY <2>2
<1>4. KeptBy(decls, handles)' = KeptBy(decls, handles)
  BY <1>1 DEF KeptBy
<1>5. CountsExact'
  BY <1>1, <1>4 DEF CountsExact
<1>6. TypeOK' /\ Calls'
  BY <1>1, <1>2, <1>3, SameCall DEF TypeOK, Calls, z3Vars
<1>7. Fresh' /\ Reclaim' /\ Registered'
  BY <1>1, SameCall DEF Fresh, Reclaim, Deleting, Registered, z3Vars
<1> QED
  BY <1>5, <1>6, <1>7

LEMMA DropInv == ASSUME Inv, NEW ds, NEW hs, Drop(ds, hs) PROVE Inv'
<1> USE DEF Inv
<1> DEFINE gone == KeptBy(decls, handles) \ KeptBy(decls', handles')
<1>1. /\ UNCHANGED <<calls, step, at, raising, z3Vars, fresh, pinned, registry>>
      /\ step = "idle" /\ decls' = decls \ ds /\ handles' = handles \ hs
      /\ count' = [c \in AllConstructors |-> IF c \in gone THEN count[c] - 1 ELSE count[c]]
  BY DEF Drop, Release, callVars
<1>2. KeptBy(decls', handles') \subseteq KeptBy(decls, handles)
  BY <1>1 DEF KeptBy
<1>3. \A c \in KeptBy(decls, handles) : c \notin pinned /\ c \notin fresh
  <2>1. ASSUME NEW d \in decls, NEW c \in Constructors(d[1], d[2]) PROVE calls[c[1]].form # "direct"
    BY <2>1, ConsFacts DEF Calls
  <2>2. \A c \in KeptBy(decls, handles) : calls[c[1]].form # "direct"
    BY <2>1 DEF KeptBy, Calls
  <2> QED
    BY <1>1, <2>2 DEF Calls, Fresh
<1> HIDE DEF gone
<1>4. \A c : c \in gone <=> c \in KeptBy(decls, handles) /\ c \notin KeptBy(decls', handles')
  BY DEF gone
<1>5. CountsExact'
  BY SMTT(30), <1>1, <1>2, <1>3, <1>4 DEF CountsExact
<1>6. TypeOK'
  <2>1. count' \in [AllConstructors -> Nat]
    BY <1>1, <1>5 DEF CountsExact
  <2> QED
    BY <1>1, <2>1, SameCall DEF TypeOK, z3Vars
<1>7. Calls' /\ Fresh' /\ Reclaim' /\ Registered'
  BY <1>1, SameCall DEF Calls, Fresh, Reclaim, Deleting, Registered, z3Vars
<1> QED
  BY <1>5, <1>6, <1>7

-----------------------------------------------------------------------------
LEMMA InitInv == Init => Inv
<1> SUFFICES ASSUME Init PROVE Inv
  OBVIOUS
<1>1. This = 0 /\ calls \in Seq(CallRecord)
  BY DEF Init, This
<1>2. TypeOK
  BY <1>1, BoundAssumption DEF Init, TypeOK
<1>3. CountsExact
  BY DEF Init, CountsExact, KeptBy
<1> QED
  BY <1>1, <1>2, <1>3 DEF Init, Inv, Calls, Fresh, Reclaim, Registered

LEMMA StepInv == Inv /\ [Next]_vars => Inv'
<1> SUFFICES ASSUME Inv, [Next]_vars PROVE Inv'
  OBVIOUS
<1>1. CASE UNCHANGED vars
  <2>1. UNCHANGED <<calls, step, at, raising, z3Vars, declVars, registry>>
    BY <1>1 DEF vars, callVars
  <2> QED
    BY <2>1, SameCall, CountSame
       DEF Inv, TypeOK, Calls, Fresh, Reclaim, Deleting, Registered, z3Vars, declVars
<1>2. CASE Call
  <2>1. \A t \in Types : 0..Len(Specs[t]) \subseteq Nat
    BY SpecsTyped
  <2> QED
    BY <1>2, <2>1, DeclareInv, BuildInv, QueryFailsInv, MkSortInv, MakeListInv,
       MakeDatatypesInv, FailInv, QueryInv, FinallyInv, ReturnInv DEF Call
<1>3. CASE Use
  BY <1>3, LookupInv, DropInv DEF Use
<1> QED
  BY <1>1, <1>2, <1>3 DEF Next

-----------------------------------------------------------------------------
(* The theorems.                                                           *)

THEOREM Safety == Spec => []Inv
BY InitInv, StepInv, PTL DEF Spec

\* What a context keeps of its calls is of calls that were made and of their types.
THEOREM TypeCorrect == Spec => []TypeOK
<1>1. Inv => TypeOK
  BY DEF Inv
<1> QED
  BY <1>1, Safety, PTL

\* The func_decls of every constructor are counted once while anything reaches them,
\* and never after, however calls fail and in whatever order references end.
THEOREM CountsAreExact == Spec => []CountsExact
<1>1. Inv => CountsExact
  BY DEF Inv
<1> QED
  BY <1>1, Safety, PTL

\* A query that fails leaves nothing behind that a successful call would delete.
THEOREM NothingLeftBehind == Spec => []TryReclaims
<1>1. Inv => TryReclaims
  BY DEF Inv, TryReclaims, Reclaim, Deleting
<1> QED
  BY <1>1, Safety, PTL

\* declareDatatypes registers all of its types or none.
THEOREM AllOrNone == Spec => []RegisteredTogether
<1>1. Inv => RegisteredTogether
  BY DEF Inv, RegisteredTogether, Registered
<1> QED
  BY <1>1, Safety, PTL
=============================================================================
