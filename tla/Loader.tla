------------------------------- MODULE Loader -------------------------------
(***************************************************************************)
(* ensureLoaded (z3/context): the one-time load of libz3 by any number of  *)
(* threads, with double-checked locking, and the calls into libz3 that     *)
(* follow it.                                                              *)
(*                                                                         *)
(* Memory is weak, as the C memory model leaves it: a thread is sure to    *)
(* see only the writes in its view.  It gains a view from the thread that  *)
(* released loadLock last (by acquiring it), or from the store that set    *)
(* z3Ready (release) when it loads TRUE from it (acquire).  Anything else  *)
(* it may read old or new.  loadZ3 is softlink's: it sets the library      *)
(* handle first, then resolves the symbols one after the other.            *)
(***************************************************************************)
EXTENDS Integers

CONSTANTS
    Threads,
    Required,   \* symbols a load cannot do without
    Optional,   \* symbols declared {.optional.}
    Handle,     \* softlink's handle of the library
    Ready,      \* the z3Ready flag
    NoThread,
    MaxRetries  \* bound: calls of one thread after a call that raised

Symbols == Required \cup Optional
Locations == Symbols \cup {Handle, Ready}

ASSUME LocationAssumption ==
    Handle # Ready /\ Handle \notin Symbols /\ Ready \notin Symbols
ASSUME ThreadAssumption == NoThread \notin Threads
ASSUME RetryAssumption == MaxRetries \in Nat
ASSUME RequiredAssumption == Required # {} /\ Required \cap Optional = {}

VARIABLES
    mem,        \* locations that are set: a non-nil pointer, a TRUE flag
    view,       \* the set locations each thread is sure to see set
    flagView,   \* the view released with z3Ready
    lock,       \* the owner of loadLock
    lockView,   \* the view released with loadLock
    todo,       \* symbols the running loadZ3 has still to resolve
    pc,         \* where each thread is
    retries     \* calls of each thread that followed a raise

memVars == <<mem, view, flagView, lockView>>
vars == <<memVars, lock, todo, pc, retries>>

Init ==
    /\ mem = {} /\ flagView = {} /\ lockView = {} /\ todo = {}
    /\ view = [t \in Threads |-> {}]
    /\ lock = NoThread
    /\ pc = [t \in Threads |-> "idle"]
    /\ retries = [t \in Threads |-> 0]

Goto(t, label) == pc' = [pc EXCEPT ![t] = label]

\* What thread t may read from location l: TRUE is set.
Reads(t, l) == IF l \in view[t] THEN {TRUE}
               ELSE IF l \in mem THEN {TRUE, FALSE}
               ELSE {FALSE}

\* A write by thread t of every location: those in locs are set.
Write(t, locs) == mem' = locs /\ view' = [view EXCEPT ![t] = locs]

-----------------------------------------------------------------------------
(* ensureLoaded.                                                           *)

Call(t) ==
    /\ \/ pc[t] = "idle" /\ UNCHANGED retries
       \/ /\ pc[t] = "raised" /\ retries[t] < MaxRetries
          /\ retries' = [retries EXCEPT ![t] = @ + 1]
    /\ Goto(t, "fast")
    /\ UNCHANGED <<memVars, lock, todo>>

\* Seeded fault for FastPath: the gate the comment warns of, z3Loaded().
FastPathOnHandle(t) ==
    /\ pc[t] = "fast"
    /\ \E set \in Reads(t, Handle) :
          /\ Goto(t, IF set THEN "ready" ELSE "acquire")
          /\ view' = IF set THEN [view EXCEPT ![t] = flagView] ELSE view
    /\ UNCHANGED <<mem, flagView, lockView, lock, todo, retries>>

\* if z3Ready.load(moAcquire): return
FastPath(t) ==
    /\ pc[t] = "fast"
    /\ \E set \in Reads(t, Ready) :
          /\ Goto(t, IF set THEN "ready" ELSE "acquire")
          /\ view' = IF set THEN [view EXCEPT ![t] = flagView] ELSE view
    /\ UNCHANGED <<mem, flagView, lockView, lock, todo, retries>>

\* Seeded fault for Acquire: no load exclusion.
AcquireAlways(t) ==
    /\ pc[t] = "acquire"
    /\ lock' = t
    /\ view' = [view EXCEPT ![t] = lockView]
    /\ Goto(t, "recheck")
    /\ UNCHANGED <<mem, flagView, lockView, todo, retries>>

\* withLock loadLock, entry.
Acquire(t) ==
    /\ pc[t] = "acquire" /\ lock = NoThread
    /\ lock' = t
    /\ view' = [view EXCEPT ![t] = lockView]
    /\ Goto(t, "recheck")
    /\ UNCHANGED <<mem, flagView, lockView, todo, retries>>

\* Seeded fault for Recheck: single-checked locking.
NoRecheck(t) ==
    /\ pc[t] = "recheck"
    /\ Goto(t, "open")
    /\ UNCHANGED <<memVars, lock, todo, retries>>

\* The second test of z3Ready, under the lock.
Recheck(t) ==
    /\ pc[t] = "recheck"
    /\ \E set \in Reads(t, Ready) : Goto(t, IF set THEN "return" ELSE "open")
    /\ UNCHANGED <<memVars, lock, todo, retries>>

\* loadZ3 opens the library (the handle is set), or finds none: lrLibNotFound.
Open(t) ==
    /\ pc[t] = "open"
    /\ \/ /\ Write(t, mem \cup {Handle})
          /\ todo' = Symbols
          /\ Goto(t, "resolve")
       \/ /\ Goto(t, "raise")
          /\ UNCHANGED <<mem, view, todo>>
    /\ UNCHANGED <<flagView, lockView, lock, retries>>

\* loadZ3 binds a symbol, skips a missing optional one, and gives up on a
\* missing required one, closing the library: lrSymbolNotFound.
Resolve(t, s) ==
    /\ pc[t] = "resolve" /\ s \in todo
    /\ \/ Write(t, mem \cup {s}) /\ todo' = todo \ {s} /\ UNCHANGED pc
       \/ s \in Optional /\ todo' = todo \ {s} /\ UNCHANGED <<mem, view, pc>>
       \/ /\ s \in Required
          /\ Write(t, mem \ (Symbols \cup {Handle}))
          /\ todo' = {}
          /\ Goto(t, "raise")
    /\ UNCHANGED <<flagView, lockView, lock, retries>>

\* Seeded fault for Publish: a relaxed store releases no view.
PublishRelaxed(t) ==
    /\ pc[t] = "resolve" /\ todo = {}
    /\ Write(t, mem \cup {Ready})
    /\ Goto(t, "return")
    /\ UNCHANGED <<flagView, lockView, lock, todo, retries>>

\* loadZ3 returns lrOk or lrOkPartial; z3Ready.store(true, moRelease).
Publish(t) ==
    /\ pc[t] = "resolve" /\ todo = {}
    /\ Write(t, mem \cup {Ready})
    /\ flagView' = view'[t]
    /\ Goto(t, "return")
    /\ UNCHANGED <<lockView, lock, todo, retries>>

\* Seeded fault for Release: a raise leaves withLock without its finally.
ReleaseOnReturn(t) ==
    /\ pc[t] \in {"return", "raise"}
    /\ lock' = IF pc[t] = "return" THEN NoThread ELSE lock
    /\ lockView' = view[t]
    /\ Goto(t, IF pc[t] = "return" THEN "ready" ELSE "raised")
    /\ UNCHANGED <<mem, view, flagView, todo, retries>>

\* withLock's finally, whether the body returned or raised.
Release(t) ==
    /\ pc[t] \in {"return", "raise"}
    /\ lock' = NoThread
    /\ lockView' = view[t]
    /\ Goto(t, IF pc[t] = "return" THEN "ready" ELSE "raised")
    /\ UNCHANGED <<mem, view, flagView, todo, retries>>

-----------------------------------------------------------------------------
(* A thread whose ensureLoaded returned calls into libz3: softlink's        *)
(* wrapper raises SoftlinkError on a nil entry point.                       *)

Invoke(t, s) ==
    /\ pc[t] = "ready" /\ s \in Required
    /\ \E set \in Reads(t, s) : Goto(t, IF set THEN "idle" ELSE "softlinkError")
    /\ UNCHANGED <<memVars, lock, todo, retries>>

\* finalizeZ3Memory, from the single shutdown hook its doc asks for: the other
\* threads are joined, so t sees what they wrote.  It is gated on z3Loaded(),
\* the handle, and not on z3Ready; the entry point it then calls is required.
Finalize(t) ==
    /\ \A u \in Threads : pc[u] \in {"idle", "ready", "raised", "finalized"}
    /\ \E s \in Required :
          LET nil == Handle \in mem /\ s \notin mem
          IN  pc' = [u \in Threads |->
                       IF u = t /\ nil THEN "softlinkError" ELSE "finalized"]
    /\ view' = [view EXCEPT ![t] = mem]
    /\ UNCHANGED <<mem, flagView, lockView, lock, todo, retries>>

-----------------------------------------------------------------------------
InCall(t) ==
    \/ FastPath(t) \/ Acquire(t) \/ Recheck(t) \/ Open(t) \/ Publish(t) \/ Release(t)
    \/ \E s \in Symbols : Resolve(t, s)

Next == \E t \in Threads :
    InCall(t) \/ Call(t) \/ Finalize(t) \/ \E s \in Symbols : Invoke(t, s)

Spec == Init /\ [][Next]_vars

\* A thread inside ensureLoaded keeps running; loadLock need not be fair.
FairSpec == Spec /\ \A t \in Threads : WF_vars(InCall(t))

-----------------------------------------------------------------------------
Holding == {"recheck", "open", "resolve", "return", "raise"}
Labels == Holding \cup
    {"idle", "fast", "acquire", "ready", "raised", "finalized", "softlinkError"}

TypeOK ==
    /\ mem \subseteq Locations /\ flagView \subseteq Locations /\ lockView \subseteq Locations
    /\ view \in [Threads -> SUBSET Locations]
    /\ lock \in Threads \cup {NoThread}
    /\ todo \subseteq Symbols \ mem
    /\ pc \in [Threads -> Labels]
    /\ retries \in [Threads -> 0..MaxRetries]

\* Load exclusion: whoever is inside loadZ3 owns loadLock, so loads never overlap.
OneLoader == \A t \in Threads : (pc[t] \in Holding) <=> (lock = t)

\* Safe publication: a thread whose ensureLoaded returned sees every pointer the
\* load resolved, and the load resolved all that is required.
Published ==
    \A t \in Threads : pc[t] = "ready" => view[t] = mem /\ Required \subseteq mem

\* So no call into libz3 meets a nil entry point.
NoNilEntry == \A t \in Threads : pc[t] # "softlinkError"

\* What makes the invariants inductive.  Whoever owns loadLock, and whoever will
\* acquire it next, sees all there is; nobody else sees anything of a load that is
\* not published; and a load that fails leaves nothing behind.
Phase(t) ==
    CASE pc[t] = "open" -> mem = {}
      [] pc[t] = "resolve" -> Ready \notin mem /\ Handle \in mem /\ Required \subseteq mem \cup todo
      [] pc[t] = "raise" -> mem = {}
      [] pc[t] \in {"return", "ready"} -> Ready \in mem
      [] OTHER -> TRUE
ViewInv ==
    /\ lock = NoThread => lockView = mem
    /\ lock = NoThread /\ Ready \notin mem => mem = {}
    /\ Ready \in mem => flagView = mem /\ Required \subseteq mem
    /\ \A t \in Threads :
          /\ Phase(t)
          /\ lock = t => view[t] = mem
          /\ lock # t => view[t] = {} \/ (Ready \in mem /\ view[t] = mem)
          /\ lock = t /\ pc[t] = "recheck" /\ Ready \notin mem => mem = {}
Inv == OneLoader /\ Published /\ NoNilEntry /\ ViewInv

\* Once z3Ready is set, no thread writes the handle or a symbol pointer again.
LoadedOnce == [][(Ready \in mem) => (mem' = mem)]_vars

Outcome(label) ==
    CASE label \in {"idle", "finalized"} -> "out"
      [] label \in {"fast", "acquire", "recheck", "open", "resolve"} -> "in"
      [] label \in {"raise", "raised"} -> "raised"
      [] OTHER -> "ready"
Outcomes == [t \in Threads |-> Outcome(pc[t])]
Loaded == Ready \in mem

Abstract == INSTANCE LibraryLoad WITH loaded <- Loaded, call <- Outcomes

\* ensureLoaded implements LibraryLoad.
Promise == Abstract!Spec

\* Every call of ensureLoaded ends, even when the load fails with the lock held.
EveryCallEnds ==
    \A t \in Threads : pc[t] = "fast" ~> pc[t] \in {"ready", "raised"}
=============================================================================
