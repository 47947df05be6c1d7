---------------------------- MODULE LoaderProofs ----------------------------
(***************************************************************************)
(* ensureLoaded for any number of threads and any set of symbols: load     *)
(* exclusion, safe publication, and the implementation of LibraryLoad.     *)
(***************************************************************************)
EXTENDS Loader, TLAPS

LEMMA InitInv == Init => TypeOK /\ Inv
BY ThreadAssumption, RetryAssumption
   DEF Init, TypeOK, Inv, OneLoader, Published, NoNilEntry, ViewInv, Phase, Labels, Holding

\* A step of thread t that writes no memory and takes no lock.
LEMMA FastPathInv ==
  ASSUME TypeOK, Inv, NEW t \in Threads, FastPath(t)
  PROVE  TypeOK' /\ Inv'
<1> USE DEF Inv
<1>1. PICK set \in Reads(t, Ready) :
        /\ pc' = [pc EXCEPT ![t] = IF set THEN "ready" ELSE "acquire"]
        /\ view' = IF set THEN [view EXCEPT ![t] = flagView] ELSE view
  BY DEF FastPath, Goto
<1>2. /\ pc[t] = "fast" /\ lock # t /\ (set => Ready \in mem)
      /\ UNCHANGED <<mem, flagView, lockView, lock, todo, retries>>
  BY DEF FastPath, Reads, OneLoader, Holding, ViewInv
<1>3. TypeOK'
  BY <1>1, <1>2 DEF TypeOK, Labels, Holding
<1>4. OneLoader'
  BY <1>1, <1>2 DEF OneLoader, Holding, TypeOK
<1>5. ViewInv'
  BY <1>1, <1>2 DEF ViewInv, Phase, TypeOK
<1>6. Published' /\ NoNilEntry'
  BY <1>1, <1>2 DEF Published, NoNilEntry, TypeOK, ViewInv
<1> QED
  BY <1>3, <1>4, <1>5, <1>6

LEMMA AcquireInv ==
  ASSUME TypeOK, Inv, NEW t \in Threads, Acquire(t)
  PROVE  TypeOK' /\ Inv'
<1> USE DEF Inv
<1>1. /\ pc[t] = "acquire" /\ lock = NoThread /\ lock' = t
      /\ pc' = [pc EXCEPT ![t] = "recheck"]
      /\ view' = [view EXCEPT ![t] = lockView]
      /\ UNCHANGED <<mem, flagView, lockView, todo, retries>>
  BY DEF Acquire, Goto
<1>2. TypeOK'
  BY <1>1 DEF TypeOK, Labels, Holding
<1>3. OneLoader'
  BY <1>1, ThreadAssumption DEF OneLoader, Holding, TypeOK
<1>4. ViewInv'
  BY <1>1, ThreadAssumption DEF ViewInv, Phase, TypeOK
<1>5. Published' /\ NoNilEntry'
  BY <1>1 DEF Published, NoNilEntry, TypeOK
<1> QED
  BY <1>2, <1>3, <1>4, <1>5

LEMMA RecheckInv ==
  ASSUME TypeOK, Inv, NEW t \in Threads, Recheck(t)
  PROVE  TypeOK' /\ Inv'
<1> USE DEF Inv
<1>1. /\ pc[t] = "recheck" /\ lock = t
      /\ pc' = [pc EXCEPT ![t] = IF Ready \in mem THEN "return" ELSE "open"]
      /\ UNCHANGED <<mem, view, flagView, lockView, lock, todo, retries>>
  BY DEF Recheck, Goto, Reads, OneLoader, Holding, ViewInv, memVars
<1>2. TypeOK'
  BY <1>1 DEF TypeOK, Labels, Holding
<1>3. OneLoader'
  BY <1>1 DEF OneLoader, Holding, TypeOK
<1>4. ViewInv'
  BY <1>1 DEF ViewInv, Phase, TypeOK
<1>5. Published' /\ NoNilEntry'
  BY <1>1 DEF Published, NoNilEntry, TypeOK
<1> QED
  BY <1>2, <1>3, <1>4, <1>5

LEMMA OpenInv ==
  ASSUME TypeOK, Inv, NEW t \in Threads, Open(t)
  PROVE  TypeOK' /\ Inv'
<1> USE DEF Inv
<1>1. /\ pc[t] = "open" /\ lock = t /\ mem = {} /\ view[t] = {}
      /\ UNCHANGED <<flagView, lockView, lock, retries>>
  BY DEF Open, OneLoader, Holding, ViewInv, Phase
<1>2. CASE /\ mem' = {Handle} /\ view' = [view EXCEPT ![t] = {Handle}]
           /\ todo' = Symbols /\ pc' = [pc EXCEPT ![t] = "resolve"]
  <2>1. TypeOK'
    BY <1>1, <1>2, LocationAssumption DEF TypeOK, Labels, Holding, Locations
  <2>2. OneLoader'
    BY <1>1, <1>2 DEF OneLoader, Holding, TypeOK
  <2>3. ViewInv'
    BY <1>1, <1>2, ThreadAssumption, LocationAssumption
       DEF ViewInv, Phase, TypeOK, OneLoader, Holding, Symbols
  <2>4. Published' /\ NoNilEntry'
    BY <1>1, <1>2 DEF Published, NoNilEntry, TypeOK, ViewInv, Phase
  <2> QED
    BY <2>1, <2>2, <2>3, <2>4
<1>3. CASE pc' = [pc EXCEPT ![t] = "raise"] /\ UNCHANGED <<mem, view, todo>>
  <2>1. TypeOK'
    BY <1>1, <1>3 DEF TypeOK, Labels, Holding
  <2>2. OneLoader' /\ ViewInv' /\ Published' /\ NoNilEntry'
    BY <1>1, <1>3 DEF OneLoader, Holding, TypeOK, ViewInv, Phase, Published, NoNilEntry
  <2> QED
    BY <2>1, <2>2
<1> QED
  BY <1>1, <1>2, <1>3 DEF Open, Write, Goto

LEMMA ResolveInv ==
  ASSUME TypeOK, Inv, NEW t \in Threads, NEW s \in Symbols, Resolve(t, s)
  PROVE  TypeOK' /\ Inv'
<1> USE DEF Inv
<1>1. /\ pc[t] = "resolve" /\ s \in todo /\ lock = t /\ Ready \notin mem /\ Handle \in mem
      /\ Required \subseteq mem \cup todo
      /\ \A u \in Threads : u # t => view[u] = {} /\ pc[u] \notin Holding
      /\ \A u \in Threads : pc[u] # "ready"
      /\ UNCHANGED <<flagView, lockView, lock, retries>>
  BY DEF Resolve, OneLoader, Holding, ViewInv, Phase
<1>2. s # Ready /\ Handle # Ready /\ s \in Locations
  BY LocationAssumption DEF Locations
<1>3. CASE Write(t, mem \cup {s}) /\ todo' = todo \ {s} /\ UNCHANGED pc
  <2>1. TypeOK'
    BY <1>1, <1>2, <1>3 DEF TypeOK, Write
  <2>2. OneLoader' /\ Published' /\ NoNilEntry'
    BY <1>1, <1>3 DEF OneLoader, Published, NoNilEntry
  <2>3. ViewInv'
    BY <1>1, <1>2, <1>3, ThreadAssumption DEF ViewInv, Phase, Holding, Write, TypeOK
  <2> QED
    BY <2>1, <2>2, <2>3
<1>4. CASE s \in Optional /\ todo' = todo \ {s} /\ UNCHANGED <<mem, view, pc>>
  <2>1. Required \subseteq mem \cup todo'
    BY <1>1, <1>4, RequiredAssumption
  <2>2. TypeOK' /\ OneLoader' /\ Published' /\ NoNilEntry'
    BY <1>1, <1>4 DEF TypeOK, OneLoader, Published, NoNilEntry
  <2>3. ViewInv'
    BY <2>1, <1>1, <1>4 DEF ViewInv, Phase, Holding
  <2> QED
    BY <2>2, <2>3
<1>5. CASE /\ s \in Required /\ Write(t, mem \ (Symbols \cup {Handle}))
           /\ todo' = {} /\ pc' = [pc EXCEPT ![t] = "raise"]
  <2>1. mem' = {} /\ view' = [view EXCEPT ![t] = {}]
    BY <1>1, <1>5 DEF Write, TypeOK, Locations
  <2>2. TypeOK'
    BY <1>1, <1>5, <2>1 DEF TypeOK, Labels, Holding
  <2>3. OneLoader' /\ Published' /\ NoNilEntry'
    BY <1>1, <1>5 DEF OneLoader, Published, NoNilEntry, Holding, TypeOK
  <2>4. ViewInv'
    BY <1>1, <1>5, <2>1, ThreadAssumption DEF ViewInv, Phase, Holding, TypeOK
  <2> QED
    BY <2>2, <2>3, <2>4
<1> QED
  BY <1>3, <1>4, <1>5 DEF Resolve, Goto

LEMMA PublishInv ==
  ASSUME TypeOK, Inv, NEW t \in Threads, Publish(t)
  PROVE  TypeOK' /\ Inv'
<1> USE DEF Inv
<1>1. /\ pc[t] = "resolve" /\ todo = {} /\ lock = t /\ Required \subseteq mem
      /\ \A u \in Threads : u # t => view[u] = {} /\ pc[u] \notin Holding
      /\ mem' = mem \cup {Ready} /\ view' = [view EXCEPT ![t] = mem']
      /\ flagView' = mem'
      /\ pc' = [pc EXCEPT ![t] = "return"]
      /\ UNCHANGED <<lockView, lock, todo, retries>>
  BY DEF Publish, Write, Goto, OneLoader, Holding, ViewInv, Phase, TypeOK
<1>2. TypeOK'
  BY <1>1, LocationAssumption DEF TypeOK, Labels, Holding, Locations
<1>3. OneLoader'
  BY <1>1 DEF OneLoader, Holding, TypeOK
<1>4. Published' /\ NoNilEntry'
  BY <1>1 DEF Published, NoNilEntry, TypeOK, ViewInv, Phase
<1>5. ViewInv'
  BY <1>1, ThreadAssumption DEF ViewInv, Phase, Holding, TypeOK
<1> QED
  BY <1>2, <1>3, <1>4, <1>5

LEMMA ReleaseInv ==
  ASSUME TypeOK, Inv, NEW t \in Threads, Release(t)
  PROVE  TypeOK' /\ Inv'
<1> USE DEF Inv
<1>1. /\ pc[t] \in {"return", "raise"} /\ lock = t /\ lock' = NoThread
      /\ lockView' = mem /\ view[t] = mem
      /\ pc[t] = "return" => Ready \in mem /\ Required \subseteq mem
      /\ pc[t] = "raise" => mem = {}
      /\ pc' = [pc EXCEPT ![t] = IF pc[t] = "return" THEN "ready" ELSE "raised"]
      /\ UNCHANGED <<mem, view, flagView, todo, retries>>
  BY DEF Release, Goto, OneLoader, Holding, ViewInv, Phase
<1>2. TypeOK'
  BY <1>1 DEF TypeOK, Labels, Holding
<1>3. OneLoader'
  BY <1>1, ThreadAssumption DEF OneLoader, Holding, TypeOK
<1>4. Published' /\ NoNilEntry'
  BY <1>1 DEF Published, NoNilEntry, TypeOK
<1>5. ViewInv'
  BY <1>1, ThreadAssumption DEF ViewInv, Phase, TypeOK
<1> QED
  BY <1>2, <1>3, <1>4, <1>5

\* A call into libz3 finds its entry point bound, so it only ends the visit.
LEMMA InvokeStep ==
  ASSUME TypeOK, Inv, NEW t \in Threads, NEW s \in Symbols, Invoke(t, s)
  PROVE  /\ pc[t] = "ready" /\ pc' = [pc EXCEPT ![t] = "idle"]
         /\ UNCHANGED <<mem, view, flagView, lockView, lock, todo, retries>>
BY DEF Invoke, Goto, Reads, memVars, Inv, Published

LEMMA InvokeInv ==
  ASSUME TypeOK, Inv, NEW t \in Threads, NEW s \in Symbols, Invoke(t, s)
  PROVE  TypeOK' /\ Inv'
<1> USE DEF Inv
<1>1. /\ pc[t] = "ready" /\ pc' = [pc EXCEPT ![t] = "idle"]
      /\ UNCHANGED <<mem, view, flagView, lockView, lock, todo, retries>>
  BY InvokeStep
<1>2. TypeOK'
  BY <1>1 DEF TypeOK, Labels
<1>3. OneLoader' /\ Published' /\ NoNilEntry' /\ ViewInv'
  BY <1>1 DEF OneLoader, Holding, Published, NoNilEntry, ViewInv, Phase, TypeOK
<1> QED
  BY <1>2, <1>3

LEMMA CallInv ==
  ASSUME TypeOK, Inv, NEW t \in Threads, Call(t)
  PROVE  TypeOK' /\ Inv'
<1> USE DEF Inv
<1>1. /\ pc[t] \in {"idle", "raised"} /\ pc' = [pc EXCEPT ![t] = "fast"]
      /\ UNCHANGED <<mem, view, flagView, lockView, lock, todo>>
      /\ retries' \in [Threads -> 0..MaxRetries]
  BY RetryAssumption DEF Call, Goto, memVars, TypeOK
<1>2. TypeOK'
  BY <1>1 DEF TypeOK, Labels
<1>3. OneLoader' /\ Published' /\ NoNilEntry' /\ ViewInv'
  BY <1>1 DEF OneLoader, Holding, Published, NoNilEntry, ViewInv, Phase, TypeOK
<1> QED
  BY <1>2, <1>3

\* Nobody is loading, so the handle is set only together with what it opened.
LEMMA FinalizeStep ==
  ASSUME TypeOK, Inv, NEW t \in Threads, Finalize(t)
  PROVE  /\ lock = NoThread /\ \A u \in Threads : pc[u] \notin Holding
         /\ pc' = [u \in Threads |-> "finalized"]
         /\ view' = [view EXCEPT ![t] = mem]
         /\ UNCHANGED <<mem, flagView, lockView, lock, todo, retries>>
<1> USE DEF Inv
<1>1. /\ \A u \in Threads : pc[u] \notin Holding
      /\ UNCHANGED <<mem, flagView, lockView, lock, todo, retries>>
      /\ view' = [view EXCEPT ![t] = mem]
  BY DEF Finalize, Holding
<1>2. lock = NoThread
  BY <1>1 DEF OneLoader, TypeOK
<1>3. Handle \in mem => Required \subseteq mem
  BY <1>2 DEF ViewInv
<1>4. pc' = [u \in Threads |-> "finalized"]
  BY <1>3 DEF Finalize
<1> QED
  BY <1>1, <1>2, <1>4

LEMMA FinalizeInv ==
  ASSUME TypeOK, Inv, NEW t \in Threads, Finalize(t)
  PROVE  TypeOK' /\ Inv'
<1> USE DEF Inv
<1>1. /\ lock = NoThread /\ \A u \in Threads : pc[u] \notin Holding
      /\ pc' = [u \in Threads |-> "finalized"]
      /\ view' = [view EXCEPT ![t] = mem]
      /\ UNCHANGED <<mem, flagView, lockView, lock, todo, retries>>
  BY FinalizeStep
<1>2. TypeOK'
  BY <1>1 DEF TypeOK, Labels
<1>3. OneLoader' /\ Published' /\ NoNilEntry'
  BY <1>1, ThreadAssumption DEF OneLoader, Holding, Published, NoNilEntry
<1>4. ViewInv'
  BY <1>1, ThreadAssumption DEF ViewInv, Phase, TypeOK
<1> QED
  BY <1>2, <1>3, <1>4

LEMMA StepInv == TypeOK /\ Inv /\ [Next]_vars => TypeOK' /\ Inv'
<1> SUFFICES ASSUME TypeOK, Inv, [Next]_vars PROVE TypeOK' /\ Inv'
  OBVIOUS
<1>1. CASE UNCHANGED vars
  BY <1>1 DEF vars, memVars, TypeOK, Inv, OneLoader, Published, NoNilEntry, ViewInv, Phase
<1>2. CASE Next
  <2>1. PICK t \in Threads : InCall(t) \/ Call(t) \/ Finalize(t) \/ \E s \in Symbols : Invoke(t, s)
    BY <1>2 DEF Next
  <2>2. CASE InCall(t)
    BY <2>2, FastPathInv, AcquireInv, RecheckInv, OpenInv, ResolveInv, PublishInv, ReleaseInv
       DEF InCall
  <2>3. CASE Call(t) \/ Finalize(t) \/ \E s \in Symbols : Invoke(t, s)
    BY <2>3, CallInv, FinalizeInv, InvokeInv
  <2> QED
    BY <2>1, <2>2, <2>3
<1> QED
  BY <1>1, <1>2

-----------------------------------------------------------------------------
(* The theorems.                                                           *)

THEOREM Safety == Spec => [](TypeOK /\ Inv)
BY InitInv, StepInv, PTL DEF Spec

\* No location is set that no load or flag sets, and what is still to be resolved is
\* not set yet.
THEOREM LoaderTypes == Spec => []TypeOK
BY Safety, PTL

\* Two threads never run loadZ3 at the same time.
THEOREM LoadExclusion == Spec => []OneLoader
<1>1. TypeOK /\ Inv => OneLoader
  BY DEF Inv
<1> QED
  BY <1>1, Safety, PTL

\* A thread that returned from ensureLoaded sees every pointer the load bound,
\* by either path and under the weak memory the atomics leave.
THEOREM SafePublication == Spec => []Published
<1>1. TypeOK /\ Inv => Published
  BY DEF Inv
<1> QED
  BY <1>1, Safety, PTL

\* No call into libz3 raises SoftlinkError for a nil entry point.
THEOREM EntryPointsBound == Spec => []NoNilEntry
<1>1. TypeOK /\ Inv => NoNilEntry
  BY DEF Inv
<1> QED
  BY <1>1, Safety, PTL

\* A published load is final: no thread ever loads again.
THEOREM LoadIsFinal == Spec => LoadedOnce
<1>1. TypeOK /\ Inv /\ [Next]_vars => [(Ready \in mem) => (mem' = mem)]_vars
  <2> SUFFICES ASSUME TypeOK, Inv, Next, Ready \in mem PROVE mem' = mem
    OBVIOUS
  <2>1. PICK t \in Threads : InCall(t) \/ Call(t) \/ Finalize(t) \/ \E s \in Symbols : Invoke(t, s)
    BY DEF Next
  <2>2. pc[t] \notin {"open", "resolve"}
    BY DEF Inv, ViewInv, Phase
  <2> QED
    BY <2>1, <2>2 DEF InCall, FastPath, Acquire, Recheck, Open, Resolve, Publish, Release,
                      Call, Finalize, Invoke, memVars
<1> QED
  BY <1>1, Safety, PTL DEF Spec, LoadedOnce

\* A thread's step moves its outcome alone.
LEMMA Moved ==
  ASSUME TypeOK, NEW t \in Threads, NEW label, pc' = [pc EXCEPT ![t] = label]
  PROVE  /\ Outcomes[t] = Outcome(pc[t])
         /\ Outcomes' = [Outcomes EXCEPT ![t] = Outcome(label)]
<1>1. pc \in [Threads -> Labels]
  BY DEF TypeOK
<1> DEFINE new == pc'
<1>2. new = [pc EXCEPT ![t] = label]
  OBVIOUS
<1> HIDE DEF new
<1>3. [u \in Threads |-> Outcome(new[u])] = [Outcomes EXCEPT ![t] = Outcome(label)]
  BY <1>1, <1>2 DEF Outcomes
<1> QED
  BY <1>3 DEF Outcomes, new

LEMMA Still ==
  ASSUME TypeOK, NEW t \in Threads, NEW label, pc' = [pc EXCEPT ![t] = label],
         Outcome(label) = Outcome(pc[t])
  PROVE  Outcomes' = Outcomes
BY Moved DEF Outcomes

\* ensureLoaded implements LibraryLoad: one load, no return before it and no
\* raise after it.
THEOREM EnsureLoadedImplements == Spec => Promise
<1>1. Init => Abstract!Init
  BY DEF Init, Abstract!Init, Outcomes, Outcome, Loaded
<1>2. TypeOK /\ Inv /\ [Next]_vars => [Abstract!Next]_(Abstract!vars)
  <2> SUFFICES ASSUME TypeOK, Inv, [Next]_vars PROVE [Abstract!Next]_(Abstract!vars)
    OBVIOUS
  <2> USE DEF Inv
  <2>1. ASSUME NEW t \in Threads, Call(t) PROVE Abstract!Next
    <3>1. /\ pc[t] \in {"idle", "raised"} /\ pc' = [pc EXCEPT ![t] = "fast"] /\ mem' = mem
      BY <2>1 DEF Call, Goto, memVars
    <3>2. Outcomes[t] \in {"out", "raised"} /\ Outcomes' = [Outcomes EXCEPT ![t] = "in"]
      BY <3>1, Moved DEF Outcome
    <3> QED
      BY <3>1, <3>2 DEF Abstract!Next, Abstract!Enter, Loaded
  <2>2. ASSUME NEW t \in Threads, pc[t] \in {"fast", "recheck"}, Ready \in mem, mem' = mem,
               NEW label \in {"ready", "return"}, pc' = [pc EXCEPT ![t] = label]
        PROVE  Abstract!Next
    <3>1. Outcomes[t] = "in" /\ Outcomes' = [Outcomes EXCEPT ![t] = "ready"]
      BY <2>2, Moved DEF Outcome
    <3> QED
      BY <2>2, <3>1 DEF Abstract!Next, Abstract!Return, Loaded
  <2>3. ASSUME NEW t \in Threads, pc[t] \in {"open", "resolve"}, Ready \notin mem,
               Ready \notin mem', pc' = [pc EXCEPT ![t] = "raise"]
        PROVE  Abstract!Next
    <3>1. Outcomes[t] = "in" /\ Outcomes' = [Outcomes EXCEPT ![t] = "raised"]
      BY <2>3, Moved DEF Outcome
    <3>2. ~Loaded /\ Loaded' = Loaded
      BY <2>3 DEF Loaded
    <3> QED
      BY <3>1, <3>2 DEF Abstract!Next, Abstract!Raise
  <2>4. ASSUME NEW t \in Threads, NEW label, pc' = [pc EXCEPT ![t] = label],
               Outcome(label) = Outcome(pc[t]), Loaded' = Loaded
        PROVE  UNCHANGED Abstract!vars
    BY <2>4, Still DEF Abstract!vars
  <2>5. ASSUME NEW t \in Threads, FastPath(t) PROVE [Abstract!Next]_(Abstract!vars)
    <3>1. PICK set \in Reads(t, Ready) :
            pc' = [pc EXCEPT ![t] = IF set THEN "ready" ELSE "acquire"]
      BY <2>5 DEF FastPath, Goto
    <3>2. pc[t] = "fast" /\ mem' = mem /\ (set => Ready \in mem)
      BY <2>5 DEF FastPath, Reads, ViewInv
    <3>3. CASE set
      BY <2>2, <3>1, <3>2, <3>3
    <3>4. CASE ~set
      <4>1. pc' = [pc EXCEPT ![t] = "acquire"] /\ Outcome("acquire") = Outcome(pc[t])
        BY <3>1, <3>2, <3>4 DEF Outcome
      <4>2. Loaded' = Loaded
        BY <3>2 DEF Loaded
      <4> QED
        BY <2>4, <4>1, <4>2
    <3> QED
      BY <3>3, <3>4
  <2>6. ASSUME NEW t \in Threads, Acquire(t) PROVE UNCHANGED Abstract!vars
    <3>1. /\ pc' = [pc EXCEPT ![t] = "recheck"] /\ Outcome("recheck") = Outcome(pc[t])
          /\ mem' = mem
      BY <2>6 DEF Acquire, Goto, Outcome
    <3> QED
      BY <2>4, <3>1 DEF Loaded
  <2>7. ASSUME NEW t \in Threads, Recheck(t) PROVE [Abstract!Next]_(Abstract!vars)
    <3>1. PICK set \in Reads(t, Ready) :
            pc' = [pc EXCEPT ![t] = IF set THEN "return" ELSE "open"]
      BY <2>7 DEF Recheck, Goto
    <3>2. pc[t] = "recheck" /\ mem' = mem /\ (set => Ready \in mem)
      BY <2>7 DEF Recheck, Reads, ViewInv, memVars
    <3>3. CASE set
      BY <2>2, <3>1, <3>2, <3>3
    <3>4. CASE ~set
      <4>1. pc' = [pc EXCEPT ![t] = "open"] /\ Outcome("open") = Outcome(pc[t])
        BY <3>1, <3>2, <3>4 DEF Outcome
      <4>2. Loaded' = Loaded
        BY <3>2 DEF Loaded
      <4> QED
        BY <2>4, <4>1, <4>2
    <3> QED
      BY <3>3, <3>4
  <2>8. ASSUME NEW t \in Threads, Open(t) PROVE [Abstract!Next]_(Abstract!vars)
    <3>1. pc[t] = "open" /\ Ready \notin mem /\ Ready \notin mem'
      BY <2>8, LocationAssumption DEF Open, Write, ViewInv, Phase
    <3>2. CASE pc' = [pc EXCEPT ![t] = "resolve"]
      <4>1. Outcome("resolve") = Outcome(pc[t]) /\ Loaded' = Loaded
        BY <3>1 DEF Outcome, Loaded
      <4> QED
        BY <2>4, <3>2, <4>1
    <3>3. CASE pc' = [pc EXCEPT ![t] = "raise"]
      BY <2>3, <3>1, <3>3
    <3> QED
      BY <2>8, <3>2, <3>3 DEF Open, Goto
  <2>9. ASSUME NEW t \in Threads, NEW s \in Symbols, Resolve(t, s)
        PROVE  [Abstract!Next]_(Abstract!vars)
    <3>1. pc[t] = "resolve" /\ Ready \notin mem /\ Ready \notin mem'
      BY <2>9, LocationAssumption DEF Resolve, Write, ViewInv, Phase
    <3>2. CASE UNCHANGED pc
      BY <3>1, <3>2 DEF Abstract!vars, Outcomes, Loaded
    <3>3. CASE pc' = [pc EXCEPT ![t] = "raise"]
      BY <2>3, <3>1, <3>3
    <3> QED
      BY <2>9, <3>2, <3>3 DEF Resolve, Goto
  <2>10. ASSUME NEW t \in Threads, Publish(t) PROVE Abstract!Next
    <3>1. /\ pc[t] = "resolve" /\ Ready \notin mem /\ Ready \in mem'
          /\ pc' = [pc EXCEPT ![t] = "return"]
      BY <2>10 DEF Publish, Goto, Write, ViewInv, Phase
    <3>2. Outcome("return") = "ready" /\ Outcome(pc[t]) = "in"
      BY <3>1 DEF Outcome
    <3>3. Outcomes[t] = "in" /\ Outcomes' = [Outcomes EXCEPT ![t] = "ready"]
      BY ZenonT(40), <3>1, <3>2, Moved
    <3> QED
      BY <3>1, <3>3 DEF Abstract!Next, Abstract!Load, Loaded
  <2>11. ASSUME NEW t \in Threads, Release(t) PROVE UNCHANGED Abstract!vars
    <3>1. PICK label \in {"ready", "raised"} :
            pc' = [pc EXCEPT ![t] = label] /\ Outcome(label) = Outcome(pc[t])
      BY <2>11 DEF Release, Goto, Outcome
    <3>2. mem' = mem
      BY <2>11 DEF Release
    <3> QED
      BY <2>4, <3>1, <3>2 DEF Loaded
  <2>12. ASSUME NEW t \in Threads, NEW s \in Symbols, Invoke(t, s) PROVE Abstract!Next
    <3>1. pc[t] = "ready" /\ pc' = [pc EXCEPT ![t] = "idle"] /\ mem' = mem
      BY <2>12, InvokeStep
    <3>2. Outcomes[t] = "ready" /\ Outcomes' = [Outcomes EXCEPT ![t] = "out"]
      BY <3>1, Moved DEF Outcome
    <3> QED
      BY <3>1, <3>2 DEF Abstract!Next, Abstract!Leave, Loaded
  <2>13. ASSUME NEW t \in Threads, Finalize(t) PROVE Abstract!Next
    <3>1. /\ \A u \in Threads : pc[u] \in {"idle", "ready", "raised", "finalized"}
          /\ pc' = [u \in Threads |-> "finalized"] /\ mem' = mem
      BY <2>13, FinalizeStep DEF Finalize
    <3>2. (\A u \in Threads : Outcomes[u] # "in") /\ Outcomes' = [u \in Threads |-> "out"]
      BY <3>1 DEF Outcomes, Outcome
    <3> QED
      BY <3>1, <3>2 DEF Abstract!Next, Abstract!Shutdown, Loaded
  <2>14. CASE UNCHANGED vars
    BY <2>14 DEF vars, memVars, Abstract!vars, Outcomes, Loaded
  <2> QED
    BY <2>1, <2>5, <2>6, <2>7, <2>8, <2>9, <2>10, <2>11, <2>12, <2>13, <2>14 DEF Next, InCall
<1> QED
  BY <1>1, <1>2, Safety, PTL DEF Spec, Promise, Abstract!Spec
=============================================================================
