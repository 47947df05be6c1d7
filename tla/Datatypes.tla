----------------------------- MODULE Datatypes -----------------------------
(***************************************************************************)
(* Declaring inductive datatypes (z3/datatypes): what one call builds in   *)
(* Z3, what it gives back on each way out, and what it leaves registered.  *)
(*                                                                         *)
(* A call builds constructor descriptors, and for several types at once    *)
(* constructor lists; has Z3 make the datatypes; queries each descriptor   *)
(* for its func_decls, which the returned declaration counts; deletes what *)
(* it built; and registers the sorts under their marker types.  Any of the *)
(* Z3 calls may report an error, which raises.  Only from the first query  *)
(* on is the deletion in a finally.                                        *)
(*                                                                         *)
(* The forms: "single" is declareDatatype, "batch" declareDatatypes of any *)
(* arity, "seq" declareDatatypesN; "direct" is mkEnumerationSort and       *)
(* mkTupleSort, one call into Z3 whose func_decls the program gets raw and *)
(* counted for good.  The datatypes themselves stay with the context.      *)
(***************************************************************************)
EXTENDS Naturals, Sequences

CONSTANTS
    Types,      \* marker types, or sort names
    Specs,      \* for each type its constructors: what each one's fields refer to
    MaxCalls,   \* bound: declarations made in the context
    MaxBatch    \* bound: types declared together

ASSUME SpecsAssumption ==
    \A t \in Types : Specs[t] \in Seq([cross : SUBSET Types, uses : SUBSET Types])
ASSUME BoundAssumption == MaxCalls \in Nat /\ MaxBatch \in Nat \ {0}

VARIABLES
    calls,      \* the form and the types of each call, the latest last
    step,       \* where the latest call is, or "idle"
    at,         \* the type it works on, by index
    raising,    \* it unwinds through its finally
    descs,      \* constructor descriptors that Z3 keeps
    lists,      \* constructor lists that Z3 keeps
    declared,   \* datatypes that Z3 has made
    count,      \* references the wrapper counts on a constructor's func_decls
    fresh,      \* Z3ConstructorDeclRefs the call has made
    decls,      \* Z3DatatypeDecls the program keeps
    pinned,     \* constructors whose raw func_decls the program was given
    handles,    \* Z3ConstructorDecls, Z3RecognizerDecls, Z3AccessorDecls it keeps
    registry    \* ctx.datatypeRegistry: the call each type's sort is from

callVars == <<calls, step, at, raising>>
z3Vars == <<descs, lists, declared>>
declVars == <<count, fresh, decls, pinned, handles>>
vars == <<callVars, z3Vars, declVars, registry>>

\* The constructors of type t in call n.
Constructors(n, t) == {<<n, t, i>> : i \in 1..Len(Specs[t])}
AllConstructors == UNION {Constructors(n, t) : n \in 1..MaxCalls, t \in Types}

Init ==
    /\ calls = <<>> /\ step = "idle" /\ at = 1 /\ raising = FALSE
    /\ descs = {} /\ lists = {} /\ declared = {}
    /\ count = [c \in AllConstructors |-> 0]
    /\ fresh = {} /\ decls = {} /\ pinned = {} /\ handles = {}
    /\ registry = [t \in Types |-> 0]

This == Len(calls)
Form == calls[This].form
Group == calls[This].types
Members == {Group[k] : k \in 1..Len(Group)}
Last == at = Len(Group)

\* The step that follows when every type has been through this one.
Advance(next) ==
    /\ IF Last THEN step' = next /\ at' = 1 ELSE step' = step /\ at' = at + 1
    /\ UNCHANGED <<calls, raising>>

\* checkErr or a usage check raises outside the try: nothing is deleted.
Escape == step' = "idle" /\ at' = 1 /\ UNCHANGED <<calls, raising>>

Retain(cs) == count' = [c \in AllConstructors |-> IF c \in cs THEN count[c] + 1 ELSE count[c]]
Release(cs) == count' = [c \in AllConstructors |-> IF c \in cs THEN count[c] - 1 ELSE count[c]]

\* The constructors whose declarations the references in ds and hs keep.
KeptBy(ds, hs) == hs \cup UNION {Constructors(d[1], d[2]) : d \in ds}

-----------------------------------------------------------------------------
Declare(form, ts) ==
    /\ step = "idle" /\ This < MaxCalls
    /\ form = "single" => Len(ts) = 1
    /\ form = "batch" => Len(ts) > 1
    /\ calls' = Append(calls, [form |-> form, types |-> ts])
    /\ step' = "build" /\ at' = 1 /\ raising' = FALSE
    /\ UNCHANGED <<z3Vars, declVars, registry>>

\* What a constructor's fields refer to is there: cross-references are to the
\* types declared together, and other datatypes are registered.
Resolvable(c) ==
    /\ c.cross \subseteq (IF Form = "single" THEN {} ELSE Members)
    /\ \A u \in c.uses : registry[u] # 0

\* buildRawConstructors for one type: all its descriptors, or the first m and
\* an exception.
BuildRawConstructors(m) ==
    /\ step = "build"
    /\ LET t == Group[at]
       IN  /\ m <= Len(Specs[t])
           /\ \A i \in 1..m : Resolvable(Specs[t][i])
           /\ descs' = descs \cup {<<This, t, i>> : i \in 1..m}
           /\ IF m = Len(Specs[t])
              THEN Advance(IF Form = "single" THEN "make" ELSE "list")
              ELSE Escape
    /\ UNCHANGED <<lists, declared, declVars, registry>>

MakeList ==
    /\ step = "list"
    /\ lists' = lists \cup {<<This, Group[at]>>}
    /\ Advance("make")
    /\ UNCHANGED <<descs, declared, declVars, registry>>

\* Z3_mk_datatype, Z3_mk_datatypes.
MakeDatatypes ==
    /\ step = "make"
    /\ declared' = declared \cup {<<This, t>> : t \in Members}
    /\ step' = "query" /\ at' = 1
    /\ UNCHANGED <<calls, raising, descs, lists, declVars, registry>>

\* Z3_mk_constructor_list, a name symbol or Z3_mk_datatypes fails.
Fail ==
    /\ step \in {"list", "make"}
    /\ Escape
    /\ UNCHANGED <<z3Vars, declVars, registry>>

\* Seeded fault for Query: declareDatatypes registers each sort in its loop.
QueryRegistering ==
    /\ step = "query"
    /\ LET cs == Constructors(This, Group[at])
       IN  Retain(cs) /\ fresh' = fresh \cup cs
    /\ registry' = [registry EXCEPT ![Group[at]] = This]
    /\ Advance("finally")
    /\ UNCHANGED <<z3Vars, decls, pinned, handles>>

\* queryConstructorsInto for one type; declareDatatypesN registers at once.
Query ==
    /\ step = "query"
    /\ LET cs == Constructors(This, Group[at])
       IN  Retain(cs) /\ fresh' = fresh \cup cs
    /\ registry' = IF Form = "seq" THEN [registry EXCEPT ![Group[at]] = This] ELSE registry
    /\ Advance("finally")
    /\ UNCHANGED <<z3Vars, decls, pinned, handles>>

\* Seeded fault for QueryFails: what this type's first queries retained stays.
QueryFailsRetaining(m) ==
    /\ step = "query" /\ m < Len(Specs[Group[at]])
    /\ Retain({<<This, Group[at], i>> : i \in 1..m})
    /\ step' = "finally" /\ raising' = TRUE
    /\ UNCHANGED <<calls, at, z3Vars, fresh, decls, pinned, handles, registry>>

\* Z3_query_constructor fails after m constructors of the type: the references
\* made for those are destroyed as the exception leaves.
QueryFails(m) ==
    /\ step = "query" /\ m < Len(Specs[Group[at]])
    /\ step' = "finally" /\ raising' = TRUE
    /\ UNCHANGED <<calls, at, z3Vars, declVars, registry>>

\* Seeded fault for Finally: the deletion is not in a finally (before the L8 fix).
NoFinally ==
    /\ step = "finally"
    /\ IF raising THEN UNCHANGED <<descs, lists>>
       ELSE IF Form = "single"
            THEN descs' = descs \ Constructors(This, Group[1]) /\ UNCHANGED lists
            ELSE lists' = lists \ {<<This, t>> : t \in Members} /\ UNCHANGED descs
    /\ IF raising
       THEN Release(fresh) /\ fresh' = {} /\ step' = "idle"
       ELSE UNCHANGED <<count, fresh>> /\ step' = "return"
    /\ at' = 1 /\ raising' = FALSE
    /\ UNCHANGED <<calls, declared, decls, pinned, handles, registry>>

\* delConstructors, or delConstructorLists: Z3 keeps the descriptors of a list it
\* deletes ("each constructor inside the constructor list must be independently
\* reclaimed using Z3_del_constructor", z3_api.h).  An exception then goes on, and
\* with the result go the references made so far.
Finally ==
    /\ step = "finally"
    /\ IF Form = "single"
       THEN descs' = descs \ Constructors(This, Group[1]) /\ UNCHANGED lists
       ELSE lists' = lists \ {<<This, t>> : t \in Members} /\ UNCHANGED descs
    /\ IF raising
       THEN Release(fresh) /\ fresh' = {} /\ step' = "idle"
       ELSE UNCHANGED <<count, fresh>> /\ step' = "return"
    /\ at' = 1 /\ raising' = FALSE
    /\ UNCHANGED <<calls, declared, decls, pinned, handles, registry>>

\* The sorts are registered and the declarations returned.
Return ==
    /\ step = "return"
    /\ registry' = [t \in Types |-> IF t \in Members THEN This ELSE registry[t]]
    /\ decls' = decls \cup {<<This, t>> : t \in Members}
    /\ fresh' = {} /\ step' = "idle"
    /\ UNCHANGED <<calls, at, raising, z3Vars, count, pinned, handles>>

\* mkEnumerationSort, mkTupleSort: nothing is registered, and nothing ever gives
\* back the references that are taken here.
MkSort(t) ==
    /\ step = "idle" /\ This < MaxCalls
    /\ calls' = Append(calls, [form |-> "direct", types |-> <<t>>])
    /\ declared' = declared \cup {<<This + 1, t>>}
    /\ Retain(Constructors(This + 1, t))
    /\ pinned' = pinned \cup Constructors(This + 1, t)
    /\ UNCHANGED <<step, at, raising, descs, lists, fresh, decls, handles, registry>>

-----------------------------------------------------------------------------
(* The program's use of declarations.                                      *)

\* con, recognizer, accessor: a reference to one constructor's declarations.
Lookup(d, c) ==
    /\ step = "idle" /\ d \in decls /\ c \in Constructors(d[1], d[2])
    /\ handles' = handles \cup {c}
    /\ UNCHANGED <<callVars, z3Vars, count, fresh, decls, pinned, registry>>

\* Seeded fault for Drop: a declaration that goes releases all its func_decls.
DropReleasingAll(ds, hs) ==
    /\ step = "idle"
    /\ decls' = decls \ ds /\ handles' = handles \ hs
    /\ Release(KeptBy(ds, hs))
    /\ UNCHANGED <<callVars, z3Vars, fresh, pinned, registry>>

\* References end.  A Z3ConstructorDeclRef that loses its last one releases its
\* func_decls.
Drop(ds, hs) ==
    /\ step = "idle"
    /\ decls' = decls \ ds /\ handles' = handles \ hs
    /\ Release(KeptBy(decls, handles) \ KeptBy(decls', handles'))
    /\ UNCHANGED <<callVars, z3Vars, fresh, pinned, registry>>

-----------------------------------------------------------------------------
Groups == {ts \in UNION {[1..k -> Types] : k \in 1..MaxBatch} :
             \A i, j \in DOMAIN ts : i # j => ts[i] # ts[j]}

Call ==
    \/ \E form \in {"single", "batch", "seq"}, ts \in Groups : Declare(form, ts)
    \/ \E t \in Types : \E m \in 0..Len(Specs[t]) : BuildRawConstructors(m) \/ QueryFails(m)
    \/ \E t \in Types : MkSort(t)
    \/ MakeList \/ MakeDatatypes \/ Fail \/ Query \/ Finally \/ Return

Use ==
    \/ \E d \in decls : \E c \in Constructors(d[1], d[2]) : Lookup(d, c)
    \/ \E d \in decls : Drop({d}, {})
    \/ \E h \in handles : Drop({}, {h})

Next == Call \/ Use

Spec == Init /\ [][Next]_vars

-----------------------------------------------------------------------------
TypeOK ==
    /\ \A n \in 1..This : /\ calls[n].form \in {"single", "batch", "seq", "direct"}
                          /\ calls[n].types \in Groups
    /\ This <= MaxCalls
    /\ step \in {"idle", "build", "list", "make", "query", "finally", "return"}
    /\ step # "idle" => at \in 1..Len(Group)
    /\ raising => step = "finally"
    /\ count \in [AllConstructors -> Nat]
    /\ descs \cup fresh \cup pinned \cup handles \subseteq AllConstructors
    /\ lists \cup declared \cup decls \subseteq (1..This) \X Types
    /\ registry \in [Types -> 0..This]

\* The func_decls of a constructor are counted once for as long as anything can
\* reach them, a handle that outlives its declaration and a call that fails
\* half-way included, and never after.  (The raw ones of an enumeration or a
\* tuple are reached for ever.)
CountsExact ==
    \A c \in AllConstructors :
       count[c] = IF c \in fresh \cup pinned \cup KeptBy(decls, handles) THEN 1 ELSE 0

\* The L8 fix: once Z3 has made the datatypes, a failed query leaves no more
\* behind than a successful call: no descriptor of declareDatatype, and no list of
\* declareDatatypes.
TryReclaims ==
    step = "idle" =>
       /\ \A d \in descs : calls[d[1]].form = "single" => <<d[1], d[2]>> \notin declared
       /\ lists \cap declared = {}

\* As documented, deleting the lists also releases "the individual constructors
\* Z3 owns through" them: no descriptor outlives a declaration that was made.
ListsReclaim ==
    step = "idle" => \A d \in descs : <<d[1], d[2]>> \notin declared

\* declareDatatypes registers all of its types or none, whichever query fails, so
\* that no sort is found by name whose siblings are missing (or are those of an
\* earlier call of the same name).
RegisteredTogether ==
    step = "idle" =>
       \A n \in 1..This :
          /\ calls[n].form = "batch"
          /\ \E t \in Types : registry[t] = n
          => \A k \in 1..Len(calls[n].types) : registry[calls[n].types[k]] >= n
=============================================================================
