------------------------------ MODULE SortHold ------------------------------
(***************************************************************************)
(* Raw sorts between the Z3 calls that make and consume them.              *)
(*                                                                         *)
(* "In a ref-counted context Z3 keeps only its LAST API result alive"      *)
(* (z3/sortdispatch): a node (sort, declaration or term) lives while the   *)
(* wrapper counts a reference on it, while it is the last result, or while *)
(* a node that lives is built from it.  Its address is then reused.        *)
(*                                                                         *)
(* sortOf recurses through a type and makes its sorts from the inside out. *)
(* Whoever needs several sorts for one call holds each as it is made and   *)
(* releases them after the call; whoever needs one passes it on at once.   *)
(* A function that is being defined (defineFun, defineRecFun) is declared  *)
(* before the program's body proc builds the term it stands for.           *)
(* Uninterpreted sorts are made once and looked up in the context's        *)
(* uninterpretedRegistry, which counts no reference.                       *)
(***************************************************************************)
EXTENDS Naturals, Sequences, FiniteSets, Functions

CONSTANTS
    Addrs,          \* addresses of nodes in one context
    Families,       \* parameterless sorts made anew by each sortOf (Z3Fp)
    Uninterpreted,  \* marker types of uninterpreted sorts
    MaxDepth,       \* bound: nesting of a type
    MaxArgs,        \* bound: domain sorts of a declaration
    MaxDefining,    \* bound: bodies of definitions that run
    MaxTerms,       \* bound: references the program keeps on one node
    MaxLost,        \* bound: holds that exceptions leave
    NoAddr

ASSUME NilAssumption == NoAddr \notin Addrs
ASSUME NameAssumption == "free" \notin Families \cup Uninterpreted
ASSUME FamilyAssumption == Families \cap Uninterpreted = {}
ASSUME BoundAssumption == MaxDepth \in Nat /\ MaxArgs \in Nat
                          /\ MaxTerms \in Nat /\ MaxLost \in Nat
                          /\ MaxDefining \in Nat

VARIABLES
    is,         \* what each allocated node is: its operator and arguments
    below,      \* the nodes each node is built from, itself included
    refs,       \* Z3's reference counts
    last,       \* the last API result
    registry,   \* ctx.uninterpretedRegistry
    terms,      \* references the program's own values hold
    frames,     \* calls that are collecting sorts, the innermost last
    ret,        \* the raw sort the innermost sortOf returned
    defining,   \* declarations whose body proc runs, the innermost last
    lost        \* holds that an exception left behind

z3Vars == <<is, below, refs, last>>
vars == <<z3Vars, registry, terms, frames, ret, defining, lost>>

Free == [op |-> "free", args |-> <<>>]
Leaf(name) == [op |-> name, args |-> <<>>]
None == [at |-> NoAddr, is |-> Free]

Init ==
    /\ is = [a \in Addrs |-> Free]
    /\ below = [a \in Addrs |-> {}]
    /\ refs = [a \in Addrs |-> 0] /\ terms = refs /\ lost = refs
    /\ last = NoAddr
    /\ registry = [u \in Uninterpreted |-> NoAddr]
    /\ frames = <<>> /\ ret = None /\ defining = <<>>

-----------------------------------------------------------------------------
(* Z3.                                                                     *)

\* With the nodes below, the counts r and the last result l, Z3 frees whatever
\* nothing keeps.
Collect(nodes, what, r, l) ==
    LET kept == UNION {nodes[a] : a \in {b \in Addrs : r[b] > 0 \/ b = l}}
    IN  /\ refs' = r /\ last' = l
        /\ below' = [a \in Addrs |-> IF a \in kept THEN nodes[a] ELSE {}]
        /\ is' = [a \in Addrs |-> IF a \in kept THEN what[a] ELSE Free]

\* An API call returns node d, built from the nodes at kids: the one there is
\* (hash-consing), or a new one at a free address.  The wrapper then leaves r.
Returns(a, d, kids, r) ==
    /\ IF \E b \in Addrs : is[b] = d THEN is[a] = d ELSE is[a] = Free
    /\ Collect([below EXCEPT ![a] = {a} \cup UNION {below[k] : k \in kids}],
               [is EXCEPT ![a] = d], r, a)

-----------------------------------------------------------------------------
Depth == Len(frames)
Top == frames[Depth]
Got == {Top.got[i] : i \in 1..Len(Top.got)}
InProgram == Depth = 0

\* The innermost call waits for its next sort.
Wanting == Depth > 0 /\ ret = None /\ Len(Top.got) < Top.want

\* The builders of declarations: mkFuncDecl, and defineFun and defineRecFun,
\* which go on to define it.
Declares(kind) == kind \in {"decl", "rec"}

\* Z3Array's sortOf and the declaration builders hold what they collect;
\* Z3Seq's sortOf and the constant builders make their call at once.
Holds(kind) == kind = "array" \/ Declares(kind)
MakesSort(kind) == kind \in {"array", "seq"}
Wants(kind) == CASE kind = "array" -> {2}
                 [] kind = "decl" -> 1..(MaxArgs + 1)
                 [] kind = "rec" -> 2..(MaxArgs + 1)
                 [] OTHER -> {1}

\* How often a frame holds address a.
HeldIn(f, a) == IF Holds(f.kind) THEN Cardinality({i \in 1..Len(f.got) : f.got[i].at = a})
                ELSE 0

\* How often the calls that are collecting sorts hold address a.
InHand(a) ==
    Cardinality({p \in (1..Depth) \X (1..(MaxArgs + 2)) :
                   LET f == frames[p[1]]
                   IN  Holds(f.kind) /\ p[2] <= Len(f.got) /\ f.got[p[2]].at = a})

\* How often address a is being defined.
BeingDefined(a) == Cardinality({i \in 1..Len(defining) : defining[i].at = a})

\* A call that needs sorts: a declaration or a constant for the program, an
\* array or sequence sort for the call that waits for one.
Begin(kind, want) ==
    /\ IF MakesSort(kind) THEN Wanting ELSE InProgram
    /\ Depth < MaxDepth /\ want \in Wants(kind)
    /\ frames' = Append(frames, [kind |-> kind, want |-> want, got |-> <<>>])
    /\ UNCHANGED <<z3Vars, registry, terms, ret, lost, defining>>

\* sortOf of a family that has no parameters: one API call.
MakeLeaf(f, a) ==
    /\ Wanting
    /\ Returns(a, Leaf(f), {}, refs)
    /\ ret' = [at |-> a, is |-> Leaf(f)]
    /\ UNCHANGED <<registry, terms, frames, lost, defining>>

\* sortOf of Z3UninterpretedVal[u]: no API call.
LookupAsDocumented(u) ==
    /\ Wanting /\ registry[u] # NoAddr
    /\ ret' = [at |-> registry[u], is |-> Leaf(u)]
    /\ UNCHANGED <<z3Vars, registry, terms, frames, lost, defining>>

\* The same, by a program that names u only while Z3 still has the sort: it keeps
\* a term of the sort, or declares it and goes on to use it.
Lookup(u) ==
    /\ LookupAsDocumented(u)
    /\ is[registry[u]] = Leaf(u)

\* Seeded fault for Take: the sort is not held.
TakeUnheld ==
    /\ Depth > 0 /\ ret # None
    /\ frames' = [frames EXCEPT ![Depth].got = Append(@, ret)]
    /\ ret' = None
    /\ UNCHANGED <<z3Vars, registry, terms, lost, defining>>

\* heldSortOfType, or the plain sortOfType of a call that needs one sort.
Take ==
    /\ Depth > 0 /\ ret # None
    /\ refs' = IF Holds(Top.kind) THEN [refs EXCEPT ![ret.at] = @ + 1] ELSE refs
    /\ frames' = [frames EXCEPT ![Depth].got = Append(@, ret)]
    /\ ret' = None
    /\ UNCHANGED <<is, below, last, registry, terms, lost, defining>>

Node == [op |-> Top.kind, args |-> [i \in 1..Len(Top.got) |-> Top.got[i].is]]
Released == [a \in Addrs |-> refs[a] - HeldIn(Top, a)]
PopFrame == frames' = SubSeq(frames, 1, Depth - 1)
Complete == Depth > 0 /\ ret = None /\ Len(Top.got) = Top.want

\* Seeded fault for MakeSort: the last of the held sorts is not released.
MakeSortKeepingLast(a) ==
    /\ Complete /\ MakesSort(Top.kind)
    /\ Returns(a, Node, {g.at : g \in Got},
               IF Holds(Top.kind) THEN [refs EXCEPT ![Top.got[1].at] = @ - 1] ELSE refs)
    /\ ret' = [at |-> a, is |-> Node]
    /\ PopFrame
    /\ UNCHANGED <<registry, terms, lost, defining>>

\* Z3_mk_array_sort or Z3_mk_seq_sort, then releaseSort of what was held.
MakeSort(a) ==
    /\ Complete /\ MakesSort(Top.kind)
    /\ Returns(a, Node, {g.at : g \in Got}, Released)
    /\ ret' = [at |-> a, is |-> Node]
    /\ PopFrame
    /\ UNCHANGED <<registry, terms, lost, defining>>

\* Z3_mk_func_decl or Z3_mk_const; releaseSorts; inc_ref of the result.
MakeTerm(a) ==
    /\ Complete /\ Top.kind \in {"decl", "const"} /\ terms[a] < MaxTerms
    /\ Returns(a, Node, {g.at : g \in Got}, [Released EXCEPT ![a] = @ + 1])
    /\ terms' = [terms EXCEPT ![a] = @ + 1]
    /\ PopFrame
    /\ UNCHANGED <<registry, ret, lost, defining>>

\* Seeded fault for MakeRec: the declaration is counted after the body only.
MakeRecUncounted(a, self) ==
    /\ Complete /\ Top.kind = "rec" /\ Len(defining) < MaxDefining
    /\ Returns(a, Node, {g.at : g \in Got}, Released)
    /\ defining' = Append(defining, [at |-> a, is |-> Node, self |-> self])
    /\ PopFrame
    /\ UNCHANGED <<registry, terms, ret, lost>>

\* Z3_mk_rec_func_decl; releaseSorts; incRefFD, for self (defineRecFun) or for the
\* result (defineFun); and then the body, which is the program's.
MakeRec(a, self) ==
    /\ Complete /\ Top.kind = "rec" /\ Len(defining) < MaxDefining
    /\ Returns(a, Node, {g.at : g \in Got}, [Released EXCEPT ![a] = @ + 1])
    /\ defining' = Append(defining, [at |-> a, is |-> Node, self |-> self])
    /\ PopFrame
    /\ UNCHANGED <<registry, terms, ret, lost>>

Defined == defining[Len(defining)]
PopDefined == defining' = SubSeq(defining, 1, Len(defining) - 1)

\* Seeded fault for AddRecDef: self goes, and the result has not been counted.
AddRecDefUncounted ==
    /\ InProgram /\ defining # <<>> /\ terms[Defined.at] < MaxTerms
    /\ terms' = [terms EXCEPT ![Defined.at] = @ + 1]
    /\ IF Defined.self THEN Collect(below, is, [refs EXCEPT ![Defined.at] = @ - 1], last)
                       ELSE UNCHANGED z3Vars
    /\ PopDefined
    /\ UNCHANGED <<registry, frames, ret, lost>>

\* The body has returned: Z3_add_rec_def, and the declaration is the program's.
\* (defineRecFun counts it once more, and self goes.)
AddRecDef ==
    /\ InProgram /\ defining # <<>> /\ terms[Defined.at] < MaxTerms
    /\ terms' = [terms EXCEPT ![Defined.at] = @ + 1]
    /\ PopDefined
    /\ UNCHANGED <<z3Vars, registry, frames, ret, lost>>

\* The body raises: self is destroyed, and what defineFun counted stays counted.
BodyRaises ==
    /\ InProgram /\ defining # <<>>
    /\ \/ /\ Defined.self
          /\ Collect(below, is, [refs EXCEPT ![Defined.at] = @ - 1], last)
          /\ UNCHANGED lost
       \/ /\ ~Defined.self /\ SumFunction(lost) < MaxLost
          /\ lost' = [lost EXCEPT ![Defined.at] = @ + 1]
          /\ UNCHANGED z3Vars
    /\ PopDefined
    /\ UNCHANGED <<registry, terms, frames, ret>>

\* A checkErr raises, or a sortOf finds its type unregistered: the calls unwind,
\* and none of them releases what it held.
Raise ==
    /\ Depth > 0
    /\ lost' = [a \in Addrs |-> lost[a] + InHand(a)]
    /\ SumFunction(lost') <= MaxLost
    /\ frames' = <<>> /\ ret' = None
    /\ UNCHANGED <<z3Vars, registry, terms, defining>>

\* declareUninterpretedSort: the sort is made and registered, not counted.
DeclareUninterpretedSort(u, a) ==
    /\ InProgram
    /\ Returns(a, Leaf(u), {}, refs)
    /\ registry' = [registry EXCEPT ![u] = a]
    /\ UNCHANGED <<terms, frames, ret, lost, defining>>

\* Any other call that returns an AST.
OtherCall ==
    /\ InProgram
    /\ Collect(below, is, refs, NoAddr)
    /\ UNCHANGED <<registry, terms, frames, ret, lost, defining>>

\* =destroy of a value or declaration the program kept.
DropTerm(a) ==
    /\ InProgram /\ terms[a] > 0
    /\ Collect(below, is, [refs EXCEPT ![a] = @ - 1], last)
    /\ terms' = [terms EXCEPT ![a] = @ - 1]
    /\ UNCHANGED <<registry, frames, ret, lost, defining>>

-----------------------------------------------------------------------------
Step ==
    \/ \E kind \in {"array", "seq", "decl", "const", "rec"},
          n \in 1..(MaxArgs + 2) : Begin(kind, n)
    \/ \E f \in Families, a \in Addrs : MakeLeaf(f, a)
    \/ \E u \in Uninterpreted, a \in Addrs : DeclareUninterpretedSort(u, a)
    \/ \E a \in Addrs : MakeSort(a) \/ MakeTerm(a) \/ DropTerm(a)
    \/ \E a \in Addrs, self \in BOOLEAN : MakeRec(a, self)
    \/ Take \/ Raise \/ AddRecDef \/ BodyRaises \/ OtherCall

Next == Step \/ \E u \in Uninterpreted : Lookup(u)

Spec == Init /\ [][Next]_vars

\* The same program, naming any type it has declared.
DocumentedSpec ==
    Init /\ [][Step \/ \E u \in Uninterpreted : LookupAsDocumented(u)]_vars

-----------------------------------------------------------------------------
TypeOK ==
    /\ \A a \in Addrs : refs[a] \in Nat /\ lost[a] \in Nat /\ terms[a] \in 0..MaxTerms
    /\ below \in [Addrs -> SUBSET Addrs]
    /\ \A a \in Addrs : is[a] = Free <=> below[a] = {}
    /\ last \in Addrs \cup {NoAddr}
    /\ registry \in [Uninterpreted -> Addrs \cup {NoAddr}]
    /\ ret.at \in Addrs \cup {NoAddr}
    /\ Depth <= MaxDepth /\ Len(defining) <= MaxDefining

\* No dangling sort: while a call collects its sorts, each one already made is
\* still the node it was made as, whatever sorts are made after it.
InFlight == {ret} \cup UNION {{frames[i].got[j] : j \in 1..Len(frames[i].got)} : i \in 1..Depth}
SortsLive == \A g \in InFlight \ {None} : is[g.at] = g.is

\* The declaration that is given to Z3_add_rec_def, or returned as the raw of the
\* result, is the one that was made, whatever the body of the definition made,
\* dropped or failed to make in the meantime (defineFun and defineRecFun count it
\* before they call the body).
DefinedLive == \A i \in 1..Len(defining) : is[defining[i].at] = defining[i].is

\* A value or declaration that the program keeps is the node it was made as, through
\* every call that reclaims nodes, uses their addresses again, or fails.
KeptStays == [][\A a \in Addrs : terms[a] > 0 /\ terms'[a] > 0 => is'[a] = is[a]]_vars

\* Holds are released exactly once: Z3's count of a node is what the program
\* keeps, what the calls in progress hold, what is being defined, and what
\* exceptions left behind.
HoldsBalance == \A a \in Addrs : refs[a] = terms[a] + InHand(a) + BeingDefined(a) + lost[a]
=============================================================================
