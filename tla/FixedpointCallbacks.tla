------------------------ MODULE FixedpointCallbacks ------------------------
(***************************************************************************)
(* Handlers on a Z3Fixedpoint (z3/fixedpoint_callbacks), installed by the  *)
(* program at any time and registered with Z3 at the next query, and the   *)
(* guards and flags that the query entry points keep (z3/fixedpoint).      *)
(*                                                                         *)
(* Z3 has no call that takes a registration back.  It keeps the address of *)
(* a box, and no reference, until the fixedpoint goes; and it settles on   *)
(* an engine at the first call that needs one, by the parameters or by     *)
(* auto-config, of which the program sees nothing.  Only Spacer accepts    *)
(* callbacks.                                                              *)
(*                                                                         *)
(* One thread runs everything.  Inside a handler the program may use any   *)
(* fixedpoint.  On the one being queried it may try to change the handlers,*)
(* which an assert is to stop unless the build is a release, and it may    *)
(* begin another query, which nothing stops: whether Z3 runs that query or *)
(* refuses it with an error, withInQuery clears one flag for both.         *)
(***************************************************************************)
EXTENDS Naturals, Sequences, FiniteSetsExt

CONSTANTS
    Fixedpoints,  \* addresses of Z3Fixedpoints
    Boxes,        \* addresses of FixedpointCtxBoxes
    Events,       \* newLemma, predecessor, unfold
    MaxDepth,     \* bound: queries and handlers on the stack
    NoBox,
    UserState     \* a state pointer of the raw surface

ASSUME NilAssumption == NoBox \notin Boxes /\ UserState \notin Boxes \cup {NoBox}
ASSUME DepthAssumption == MaxDepth \in Nat

VARIABLES
    release,    \* the build is -d:release: there is no inQuery and no rawCbUsed
    live,       \* fixedpoints that exist
    cbBox,      \* the box each one roots
    handlers,   \* the events each box has a handler for
    exportActivated,
    rawCbUsed,
    inQuery,
    lastQueryCanceled,
    engine,     \* what Z3 has settled on: "none", "spacer", "other"
    slot,       \* the pointer of Z3_fixedpoint_init
    reduce,     \* fixedpoints with a raw reduce callback
    registered, \* the callbacks of each Z3_fixedpoint_add_callback, in order
    frames,     \* queries and handlers on the stack, the innermost last
    outcome,    \* history: how the latest query of each fixedpoint ended
    nested      \* history: the fixedpoints in whose latest outermost query
                \* another query of the same fixedpoint has ended

boxVars == <<cbBox, handlers, exportActivated>>
flagVars == <<rawCbUsed, inQuery, lastQueryCanceled>>
z3Vars == <<engine, slot, reduce, registered>>
stackVars == <<frames, outcome, nested>>
vars == <<release, live, boxVars, flagVars, z3Vars, stackVars>>

Init ==
    /\ release \in BOOLEAN
    /\ live = {}
    /\ cbBox = [fp \in Fixedpoints |-> NoBox]
    /\ handlers = [b \in Boxes |-> {}]
    /\ exportActivated = {}
    /\ rawCbUsed = {} /\ inQuery = {} /\ lastQueryCanceled = {}
    /\ engine = [fp \in Fixedpoints |-> "none"]
    /\ slot = [fp \in Fixedpoints |-> NoBox]
    /\ reduce = {}
    /\ registered = [fp \in Fixedpoints |-> <<>>]
    /\ frames = <<>>
    /\ outcome = [fp \in Fixedpoints |-> "none"]
    /\ nested = {}

Depth == Len(frames)
Top == frames[Depth]
Frames == {frames[i] : i \in 1..Depth}
OnStack(fp) == \E f \in Frames : f.kind = "query" /\ f.fp = fp

\* A query of fp waits below the innermost frame.
BelowTop(fp) == \E i \in 1..(Depth - 1) : frames[i].kind = "query" /\ frames[i].fp = fp

Push(f) == Depth < MaxDepth /\ frames' = Append(frames, f)
Pop == frames' = SubSeq(frames, 1, Depth - 1)

\* The program has control.
InUserCode == Depth > 0 => Top.kind = "handler"

Unused == {b \in Boxes : \A fp \in Fixedpoints : cbBox[fp] # b}

\* A query of fp, begun with handlers for hs, whose hook could set the
\* parameters or not; the handler of event e, called for fp.
QueryFrame(fp, hs, ok) == [kind |-> "query", fp |-> fp, on |-> hs, gate |-> ok]
HandlerFrame(fp, e) == [kind |-> "handler", fp |-> fp, on |-> {e}, gate |-> TRUE]

\* Z3's ensure_engine: the first call that needs an engine fixes it.
Engines(fp) == IF engine[fp] = "none" THEN {"spacer", "other"} ELSE {engine[fp]}

-----------------------------------------------------------------------------
(* The program's calls.                                                    *)

NewFixedpoint(fp) ==
    /\ InUserCode /\ fp \notin live
    /\ live' = live \cup {fp}
    /\ UNCHANGED <<release, boxVars, flagVars, z3Vars, stackVars>>

\* The last reference goes: Z3 deletes the fixedpoint with its registrations, and
\* then the box loses its root.
Destroy(fp) ==
    /\ InUserCode /\ fp \in live /\ ~OnStack(fp)
    /\ live' = live \ {fp}
    /\ cbBox' = [cbBox EXCEPT ![fp] = NoBox]
    /\ handlers' = [b \in Boxes |-> IF b = cbBox[fp] THEN {} ELSE handlers[b]]
    /\ exportActivated' = exportActivated \ {cbBox[fp]}
    /\ rawCbUsed' = rawCbUsed \ {fp} /\ inQuery' = inQuery \ {fp}
    /\ lastQueryCanceled' = lastQueryCanceled \ {fp}
    /\ engine' = [engine EXCEPT ![fp] = "none"] /\ slot' = [slot EXCEPT ![fp] = NoBox]
    /\ reduce' = reduce \ {fp} /\ registered' = [registered EXCEPT ![fp] = <<>>]
    /\ outcome' = [outcome EXCEPT ![fp] = "none"] /\ nested' = nested \ {fp}
    /\ UNCHANGED <<release, frames>>

\* What the asserts of setHandlers and clearHandlers let through.
MayChange(fp) == InUserCode /\ fp \in live /\ (release \/ fp \notin inQuery)
MayInstall(fp) == MayChange(fp) /\ (release \/ fp \notin rawCbUsed)

\* Seeded fault for SetHandlers: each call allocates and roots a box (before
\* ADR-FC-0008).
SetHandlersNewBox(fp, hs) ==
    /\ MayInstall(fp)
    /\ \E b \in Unused :
          /\ cbBox' = [cbBox EXCEPT ![fp] = b]
          /\ handlers' = [handlers EXCEPT ![b] = hs]
          /\ slot' = [slot EXCEPT ![fp] = b]
    /\ UNCHANGED <<release, live, exportActivated, flagVars, engine, reduce,
                   registered, stackVars>>

\* Seeded fault for SetHandlers: a new set of handlers is to be activated anew.
SetHandlersAnew(fp, hs) ==
    /\ MayInstall(fp)
    /\ IF cbBox[fp] = NoBox
       THEN \E b \in Unused :
              /\ cbBox' = [cbBox EXCEPT ![fp] = b]
              /\ handlers' = [handlers EXCEPT ![b] = hs]
              /\ slot' = [slot EXCEPT ![fp] = b]
       ELSE /\ handlers' = [handlers EXCEPT ![cbBox[fp]] = hs]
            /\ UNCHANGED <<cbBox, slot>>
    /\ exportActivated' = exportActivated \ {cbBox[fp]}
    /\ UNCHANGED <<release, live, flagVars, engine, reduce, registered, stackVars>>

\* The first call allocates the box, roots it and passes it to Z3_fixedpoint_init,
\* which may report an error; later calls change the box in place.
SetHandlers(fp, hs) ==
    /\ MayInstall(fp)
    /\ IF cbBox[fp] = NoBox
       THEN \E b \in Unused :
              /\ cbBox' = [cbBox EXCEPT ![fp] = b]
              /\ handlers' = [handlers EXCEPT ![b] = hs]
              /\ slot' \in {slot, [slot EXCEPT ![fp] = b]}
       ELSE /\ handlers' = [handlers EXCEPT ![cbBox[fp]] = hs]
            /\ UNCHANGED <<cbBox, slot>>
    /\ UNCHANGED <<release, live, exportActivated, flagVars, engine, reduce,
                   registered, stackVars>>

ClearHandlers(fp) ==
    /\ MayChange(fp) /\ cbBox[fp] # NoBox
    /\ handlers' = [handlers EXCEPT ![cbBox[fp]] = {}]
    /\ UNCHANGED <<release, live, cbBox, exportActivated, flagVars, z3Vars, stackVars>>

\* Seeded fault for RawSurfaceOk: the assert without the flag.
RawSurfaceUnmarked(fp) ==
    /\ InUserCode /\ fp \in live
    /\ release \/ cbBox[fp] = NoBox
    /\ UNCHANGED rawCbUsed

\* assertRawCbSurfaceOk.
RawSurfaceOk(fp) ==
    /\ InUserCode /\ fp \in live
    /\ release \/ cbBox[fp] = NoBox
    /\ rawCbUsed' = IF release THEN rawCbUsed ELSE rawCbUsed \cup {fp}

\* fp.init, setReduceAssignCallback, setReduceAppCallback.
RawInit(fp, withCallback) ==
    /\ RawSurfaceOk(fp)
    /\ slot' = [slot EXCEPT ![fp] = UserState]
    /\ reduce' = IF withCallback THEN reduce \cup {fp} ELSE reduce
    /\ UNCHANGED <<release, live, boxVars, inQuery, lastQueryCanceled, engine,
                   registered, stackVars>>

\* fp.addCallback, at most once here; an engine that refuses is not noticed.
RawAddCallback(fp) ==
    /\ RawSurfaceOk(fp)
    /\ \A i \in DOMAIN registered[fp] : registered[fp][i].state # UserState
    /\ \E g \in Engines(fp) :
          /\ engine' = [engine EXCEPT ![fp] = g]
          /\ registered' = IF g = "spacer"
                           THEN [registered EXCEPT ![fp] =
                                   Append(@, [state |-> UserState, events |-> Events])]
                           ELSE registered
    /\ UNCHANGED <<release, live, boxVars, inQuery, lastQueryCanceled, slot, reduce,
                   stackVars>>

-----------------------------------------------------------------------------
(* Queries: query, queryRelations, queryFromLevel.                         *)

Installed(fp) == IF cbBox[fp] = NoBox THEN {} ELSE handlers[cbBox[fp]]

\* Seeded fault for Shims: only those that have a handler now (before the H1 fix).
ShimsInstalled(fp) == Installed(fp)

\* The shims that activateExportCallbacks registers.
Shims(fp) == Events

\* activateExportCallbacks with engine g, when handlers are installed and not
\* activated: ok unless the parameters cannot be set.
Pending(fp) == Installed(fp) # {} /\ cbBox[fp] \notin exportActivated
Activate(fp, g, ok) ==
    LET pending == Pending(fp) /\ ok /\ g = "spacer"
    IN  /\ ok \/ Pending(fp)
        /\ exportActivated' = IF pending THEN exportActivated \cup {cbBox[fp]}
                              ELSE exportActivated
        /\ registered' = IF pending
                         THEN [registered EXCEPT ![fp] =
                                 Append(@, [state |-> cbBox[fp], events |-> Shims(fp)])]
                         ELSE registered

\* Seeded fault for QueryBegins: an entry point without withInQuery's flag.
QueryUnguarded(fp, g, ok) ==
    /\ InUserCode /\ fp \in live /\ g \in Engines(fp)
    /\ Activate(fp, g, ok)
    /\ engine' = [engine EXCEPT ![fp] = g]
    /\ UNCHANGED inQuery
    /\ lastQueryCanceled' = lastQueryCanceled \ {fp}
    /\ Push(QueryFrame(fp, Installed(fp), ok))
    /\ outcome' = [outcome EXCEPT ![fp] = "none"]
    /\ nested' = IF OnStack(fp) THEN nested ELSE nested \ {fp}
    /\ UNCHANGED <<release, live, cbBox, handlers, rawCbUsed, slot, reduce>>

\* Seeded fault for QueryBegins: lastQueryCanceled is not reset.
QueryNoReset(fp, g, ok) ==
    /\ InUserCode /\ fp \in live /\ g \in Engines(fp)
    /\ Activate(fp, g, ok)
    /\ engine' = [engine EXCEPT ![fp] = g]
    /\ inQuery' = IF release THEN inQuery ELSE inQuery \cup {fp}
    /\ Push(QueryFrame(fp, Installed(fp), ok))
    /\ outcome' = [outcome EXCEPT ![fp] = "none"]
    /\ nested' = IF OnStack(fp) THEN nested ELSE nested \ {fp}
    /\ UNCHANGED <<release, live, cbBox, handlers, rawCbUsed, lastQueryCanceled,
                   slot, reduce>>

\* withInQuery and runCancelableFixedpointQuery up to the call into Z3: the flag,
\* the hook, the reset.  Nothing asks whether the fixedpoint is being queried.
QueryBegins(fp, g, ok) ==
    /\ InUserCode /\ fp \in live /\ g \in Engines(fp)
    /\ Activate(fp, g, ok)
    /\ engine' = [engine EXCEPT ![fp] = g]
    /\ inQuery' = IF release THEN inQuery ELSE inQuery \cup {fp}
    /\ lastQueryCanceled' = lastQueryCanceled \ {fp}
    /\ Push(QueryFrame(fp, Installed(fp), ok))
    /\ outcome' = [outcome EXCEPT ![fp] = "none"]
    /\ nested' = IF OnStack(fp) THEN nested ELSE nested \ {fp}
    /\ UNCHANGED <<release, live, cbBox, handlers, rawCbUsed, slot, reduce>>

\* Z3 fires e: a shim whose box has a handler for it calls the handler; one whose
\* box has none returns at once.
Fire(e) ==
    /\ Depth > 0 /\ Top.kind = "query"
    /\ \E i \in DOMAIN registered[Top.fp] :
          LET r == registered[Top.fp][i]
          IN  /\ r.state \in Boxes /\ e \in r.events /\ e \in handlers[r.state]
              /\ Push(HandlerFrame(Top.fp, e))
    /\ UNCHANGED <<release, live, boxVars, flagVars, z3Vars, outcome, nested>>

\* The handler returns, or the exception wall ends it.
HandlerEnds ==
    /\ Depth > 0 /\ Top.kind = "handler"
    /\ Pop
    /\ UNCHANGED <<release, live, boxVars, flagVars, z3Vars, outcome, nested>>

\* Seeded fault for QueryEnds: the flag is cleared after the body, not in a finally.
QueryEndsNoFinally(how) ==
    /\ Depth > 0 /\ Top.kind = "query"
    /\ inQuery' = IF how = "raised" THEN inQuery ELSE inQuery \ {Top.fp}
    /\ lastQueryCanceled' = IF how = "canceled" THEN lastQueryCanceled \cup {Top.fp}
                            ELSE lastQueryCanceled
    /\ outcome' = [outcome EXCEPT ![Top.fp] = how]
    /\ Pop
    /\ nested' = IF BelowTop(Top.fp) THEN nested \cup {Top.fp} ELSE nested
    /\ UNCHANGED <<release, live, boxVars, rawCbUsed, z3Vars>>

\* The query returns a status, is cancelled, which is a status too, or raises;
\* withInQuery's finally.  An inner query that Z3 refuses is one that raises.
QueryEnds(how) ==
    /\ Depth > 0 /\ Top.kind = "query"
    /\ inQuery' = inQuery \ {Top.fp}
    /\ lastQueryCanceled' = IF how = "canceled" THEN lastQueryCanceled \cup {Top.fp}
                            ELSE lastQueryCanceled
    /\ outcome' = [outcome EXCEPT ![Top.fp] = how]
    /\ Pop
    /\ nested' = IF BelowTop(Top.fp) THEN nested \cup {Top.fp} ELSE nested
    /\ UNCHANGED <<release, live, boxVars, rawCbUsed, z3Vars>>

-----------------------------------------------------------------------------
Outcomes == {"answered", "canceled", "raised"}

Next ==
    \/ \E fp \in Fixedpoints :
          \/ NewFixedpoint(fp) \/ Destroy(fp) \/ ClearHandlers(fp)
          \/ \E hs \in SUBSET Events : SetHandlers(fp, hs)
          \/ RawAddCallback(fp)
          \/ \E cb \in BOOLEAN : RawInit(fp, cb)
          \/ \E g \in {"spacer", "other"}, ok \in BOOLEAN : QueryBegins(fp, g, ok)
    \/ \E e \in Events : Fire(e)
    \/ HandlerEnds
    \/ \E how \in Outcomes : QueryEnds(how)

Spec == Init /\ [][Next]_vars

-----------------------------------------------------------------------------
Registration == [state: Boxes \cup {UserState}, events: SUBSET Events]
Frame == [kind: {"query", "handler"}, fp: Fixedpoints, on: SUBSET Events, gate: BOOLEAN]

TypeOK ==
    /\ release \in BOOLEAN
    /\ live \subseteq Fixedpoints
    /\ cbBox \in [Fixedpoints -> Boxes \cup {NoBox}]
    /\ handlers \in [Boxes -> SUBSET Events]
    /\ exportActivated \subseteq {cbBox[fp] : fp \in Fixedpoints} \ {NoBox}
    /\ rawCbUsed \cup inQuery \cup lastQueryCanceled \cup reduce \subseteq Fixedpoints
    /\ engine \in [Fixedpoints -> {"none", "spacer", "other"}]
    /\ slot \in [Fixedpoints -> Boxes \cup {NoBox, UserState}]
    /\ registered \in [Fixedpoints -> Seq(Registration)]
    /\ frames \in Seq(Frame) /\ Depth <= MaxDepth
    /\ outcome \in [Fixedpoints -> {"none"} \cup Outcomes]
    /\ nested \subseteq Fixedpoints

\* ADR-FC-0008, in every build: the box that Z3 calls the shims with is rooted by
\* the very fixedpoint that calls, however often handlers are set and cleared,
\* from inside a handler too.
CallbacksLand ==
    \A fp \in live : \A i \in DOMAIN registered[fp] :
       registered[fp][i].state \in Boxes => registered[fp][i].state = cbBox[fp]

\* activateExportCallbacks: the latch says exactly that the engine accepted the
\* callbacks, and it does so once, so that no event runs its handler twice.
RegisteredOnce ==
    \A fp \in live : cbBox[fp] # NoBox =>
       Quantify(DOMAIN registered[fp], LAMBDA i : registered[fp][i].state = cbBox[fp])
          = IF cbBox[fp] \in exportActivated THEN 1 ELSE 0

\* Whatever the order of setHandlers, clearHandlers and earlier queries (the H1
\* fix), under Spacer each handler that is installed when a query begins has its
\* shim registered, unless the parameters could not be set.
HandlersFire ==
    \A f \in Frames :
       f.kind = "query" /\ f.gate /\ engine[f.fp] = "spacer" =>
          \A e \in f.on : \E i \in DOMAIN registered[f.fp] :
             registered[f.fp][i].state = cbBox[f.fp] /\ e \in registered[f.fp][i].events

\* ADR-FC-0009, where the asserts are compiled in: a raw reduce callback is called
\* with the state its own surface bound, never with a box.
SurfacesApart ==
    ~release => \A fp \in reduce : slot[fp] = UserState

\* ADR-FC-0005: the flag that the asserts read is never up without a query of the
\* fixedpoint on the stack, so that no query, raised or nested, leaves the handlers
\* locked; and it is up for the whole of a query, until a query that the program
\* has begun inside it on the same fixedpoint ends and clears it (withInQuery).
InQueryExact ==
    /\ \A fp \in inQuery : OnStack(fp) /\ ~release
    /\ ~release => \A fp \in Fixedpoints : OnStack(fp) /\ fp \notin nested => fp \in inQuery

\* getReasonUnknown: no query running, lastQueryCanceled tells of the latest query,
\* and not of a cancelled one before one that raised.  Only a query that was
\* cancelled inside this one, on the same fixedpoint, may be told of instead.
CanceledExact ==
    \A fp \in Fixedpoints :
       ~OnStack(fp) =>
          /\ outcome[fp] = "canceled" => fp \in lastQueryCanceled
          /\ fp \in lastQueryCanceled => outcome[fp] = "canceled" \/ fp \in nested

\* ADR-FC-0005, where the asserts are compiled in: no handler, of any fixedpoint,
\* changes the box or the handlers of one whose query is on the stack, unless a
\* query of it has ended inside that query.
NoSwapMidQuery ==
    [][~release => \A fp \in Fixedpoints :
          OnStack(fp) /\ fp \notin nested =>
             cbBox'[fp] = cbBox[fp] /\ Installed(fp)' = Installed(fp)]_vars
=============================================================================
