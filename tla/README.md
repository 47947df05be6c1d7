# A TLA+ verification of nim-z3

nim-z3 wraps the C API of the Z3 solver for Nim. Solving is Z3's business; the
wrapper's own logic is *ownership and protocol*: which reference counts keep what
alive and in which order they are given back, how the library is loaded once by
several threads, what address Z3 keeps of a Nim object and for how long, what a
call leaves behind when one of the C calls in it fails, and what `with` blocks
restore. That is what the modules here model. Almost nothing of it is visible
to a unit test: a dangling sort or a callback into a freed box usually works.

`PROJECT.json` lists components, runs, the source lines of each definition
("map"), seeded faults ("mutants"), findings, hazards and theorems.

## 1. Inventory

All paths are under `src/src/z3/` unless they say otherwise.

| component | state it keeps | operations | what is hard |
|---|---|---|---|
| contexts: `context` | a Z3 context, its config, two registries; `currentZ3Ctx` (thread-local) | `newContext`, `newScratchContext`, `withContext`, `setCurrentContext`, `wrapContextBorrowed`, `=destroy` | the last reference may go inside any hook; a borrowed context dies by Z3's hand |
| handles: `lifecycle`, `ast` | (raw, ctx) of each value; one shared cell per ref handle | `=destroy`, `=copy`, `=dup`, moves, `wrap` | two counts, ARC's and Z3's, given back in the one safe order |
| loading: `context`, `ffi` | `z3Ready`, `loadLock`, softlink's handle and pointers | `ensureLoaded`, `finalizeZ3Memory` | double-checked locking on a weak memory; failed loads |
| propagators: `propagator` | a box per propagator and one per solver clone; `currentBox` | `newPropagator`, six shims, fresh, `clearSubBoxes` | Z3 keeps raw addresses; checks nest inside handlers; handlers raise |
| fixedpoint callbacks: `fixedpoint`, `fixedpoint_callbacks`, `spacer` | one sticky box; `inQuery`, `rawCbUsed`, `lastQueryCanceled`, `exportActivated` | `setHandlers`, `clearHandlers`, raw `init`/`addCallback`, three query entry points | no deregistration in Z3; engine settled late; debug-only guards |
| sorts: `sortdispatch`, `sortOf` in `arrays`, `sets`, `sequence`, `funcdecl` | sorts held during one call; declarations whose body is being built | `sortOf`, `heldSortOfType`, `releaseSort(s)`, `defineFun`, `defineRecFun` | Z3 keeps only its last result alive; the body of a definition is the program's code |
| uninterpreted sorts: `uninterpretedval` | `ctx.uninterpretedRegistry` | `declareUninterpretedSort`, lookup | the registry counts nothing |
| solver, optimizer: `solver`, `optimize` | Z3's assertion stack; objectives and soft groups | `add`, `push`, `pop`, `reset`, `withFrame`, `check`, handles | exceptions through nested blocks; pops take objectives with them |
| datatypes: `datatypes` | `ctx.datatypeRegistry`; counted func_decls | `declareDatatype`, `declareDatatypes` (arity 2 to 8), `declareDatatypesN`, lookups | each of about ten C calls may fail, half-way through several types |
| errors: `error` | none: Z3's error code is read after each call | `checkErr`, `checkErrVoid`, `raiseZ3Error` | where a call raises decides what leaks |
| clause callback: `onclause` | thread-local table of boxes | `registerOnClause`, one shim | boxes keyed by a raw solver address that is used again; no exception wall |
| containers: `astvector`, `astmap` | Z3's | get, set, push, resize, find | borrowed vectors |
| models, tactics, goals, probes, simplifiers, params, stats | Z3's, behind ref handles | many, one C call each | the lifecycle, which is the same for all |
| term builders: `arith`, `bitvec`, `boolean`, `fp`, `strings`, `chars`, `regex`, `quantifier`, ... | none | `checkErr` and `wrap` around one call | conversions of Nim integers |
| translation: `translate` (and the `translate` of `astvector`, `tactic`, `model`, `solver`) | none: two error codes of Z3 | `translate`, `compatibleWith` | the error goes to one context and is looked for on the other |
| parsing, printing, introspection: `io`, `pretty`, `proof`, `introspect`, `semantics` | none | read-only queries | little |
| process-wide: `globalparams`, `logging` | state inside libz3 | set, get, reset; open and close the log | any thread, no lock |
| Z3's headers: `src/_audit_headers/` (not under `src/src/z3/`) | none | none: they are compared with the FFI declarations | nothing of them runs |

How they interact. A handle or value of any component holds its context, through
the hooks of `lifecycle`; every builder calls `requireCurrentContext` or is given
a context, calls libz3 (which `ensureLoaded` has loaded), looks at the error code
and wraps. `check` and `query` call back through `{.cdecl.}` shims, on the same
thread and in the middle of Z3, into closures that may use the wrapper again.

For each component, what makes it correct:

* contexts and handles: counts are exact, nothing dangles, nothing leaks, a
  context is deleted when and only when it is empty, what Z3 owns is left to Z3;
* loading: once, by one thread, and nobody calls through a pointer it does not see;
* callbacks: Z3's addresses stay good; a handler runs when it is installed, once;
  the guards say what they are for, as far as they do (section 3);
* sorts: alive from their making to their use; holds balance on every path;
* scopes: a stack, whatever raises; a block that closes what it opens leaves no
  trace; handles name what they named;
* datatypes: counted exactly, reclaimed in the finally, registered together;
* translation: an error belongs to the call that made it, and is not missed;
* conversions: a Nim integer becomes the literal its doc names and reads back.

The "hazards" of `PROJECT.json` list where each of these bites, by line, with the
properties that cover it or the reason that none does.

## 2. Modules

| module | models | runs |
|---|---|---|
| `Lifecycle` | hooks of values and handles, contexts, `withContext` | Lifecycle |
| `FuncInterps` (extends `Lifecycle`) | the four handles with an incomplete `=destroy` | ContextsFreed |
| `LifecycleProofs` | theorems about `Lifecycle` and about `FuncInterps` | |
| `LibraryLoad` | what `ensureLoaded` promises (abstract) | |
| `Loader` | `ensureLoaded` in detail, refining `LibraryLoad` | Loader |
| `LoaderProofs` | theorems about `Loader`, the refinement among them | |
| `Propagator` | boxes of propagators and clause callbacks, clones, nested checks, `currentBox` | Propagator |
| `PropagatorProofs` | theorems about `Propagator` | |
| `SortHold` | sorts between calls, definitions around a body; the uninterpreted registry | SortHold, SortRegistry |
| `SortHoldProofs` | theorems about `SortHold` | |
| `AssertionStack` | a stack of scopes with blocks (abstract) | |
| `Scopes` | solver and optimizer scopes, refining `AssertionStack` | Scopes |
| `ScopesProofs` | theorems about `Scopes`, the refinement among them | |
| `Datatypes` | datatype, enumeration and tuple declarations, call by call | Datatypes, ListsReclaim |
| `DatatypesProofs` | theorems about `Datatypes` | |
| `FixedpointCallbacks` | handlers, activation, query guards | FixedpointCallbacks |
| `FixedpointCallbacksProofs` | theorems about `FixedpointCallbacks` | |
| `Translation` | `translate` of seven kinds of object, `compatibleWith`, error codes | StaleCode |
| `Conversions` | integers to bit-vector literals and back, in machine arithmetic (operators) | |
| `BitVectors` (extends `Conversions`) | a program that makes literals and reads them back | WideLiteral |
| `BoundaryProofs` | theorems about `Translation`, and about `Conversions` for every width | |

`MC*` modules give symmetry sets and the odd structured constant; bounds are in
the `.cfg` files. Definitions marked "Seeded fault for X" are not part of any
specification: each is the form X would take with a plausible bug, and stands
before X so that a property can be tested against it.

### Lifecycle

`holds` maps every location of type `Z3Context` (the ctx field of a value or of a
handle cell, a user variable, `currentZ3Ctx`, the `prev` of each `withContext`) to
the context it refers to, and `strong` is ARC's count of each. `raw`, `owner` and
`zref` are the AST of each value, the context each AST is in and Z3's count.
Cells are the heap objects of ref handles, with `shares` references.
A hook takes several steps, since what it does first matters: `pc` names the rest.
`DestroyValue` is `termDestroy` up to the dec_ref and `ReleaseContext` the
`` `=destroy`(v.ctx) `` that may delete the context; `CopyValue`, `CopyContext`
and `CopyIncRef` are `termCopy`'s three parts. One thread owns a context
(`docs/THREADING.md`), so that no other operation comes between a hook's steps.
Deleting a context takes with it what Z3 keeps in it (`Destroyed`); a context of
`wrapContextBorrowed` goes when Z3 chooses (`Z3FreesBorrowed`).

The model has `newScratchContext` as the code has it, on top of `newContext`;
`docs/THREADING.md:210` shows a save and restore of the current context instead.

### Loader

`mem` is what has been set: the handle, the flag, each resolved pointer. The
memory is weak: a thread is sure to see only its `view`, which it extends by
acquiring `loadLock` or by an acquire load that reads the flag set; all else it
may read old or new. `FastPath`, `Acquire`, `Recheck`, `Open`, `Resolve`,
`Publish` and `Release` are the lines of `ensureLoaded`, with `Open` and `Resolve`
softlink's `loadZ3` (external: its effect as the source relies on it). `Invoke` is
a call through a pointer. `LibraryLoad` has one atomic `Load`; the refinement
takes `loaded` to be "the flag is set" and a call's state from its `pc`.

### Propagator

A box is alive while a handle, `currentBox`, a frame's local, the table
`onClauseBoxes` or a live parent's `subBoxes` refers to it (`Alive`; `keepers` is
that last relation, closed); Z3's own pointers (`user`, `clauseUser`) do not count.
The stack `frames` holds checks, handlers, clause callbacks and the fresh shim, up
to `MaxDepth`. The shims of propagators save and restore `currentBox`; the clause
shim does not touch it; a `fresh` that raises still makes a box. A clause box is
never taken from its table, so that a solver that goes, whose address another
takes, leaves the older box rooted beside the newer one. `ClearSubBoxes` is what the
code does, wherever its doc allows it: outside the propagator's checks, with clones
that the program keeps or without. `cutOff` is history: the solvers whose box it
freed under them, and the clones made of those since. The properties except these
and nothing else.

### SortHold

Z3's memory: a node lives while it is counted, while it is the last result, or
while a living node is built from it; its address is then used again. `frames` are
the calls that are collecting sorts, `ret` is the raw sort that the innermost
`sortOf` returned. `defining` holds the functions whose body proc runs: between
`MakeRec` and `AddRecDef` (or `BodyRaises`) the program may do anything the model
has, define another function included. `Spec` looks an uninterpreted sort up only
while Z3 still has it, which is what careful programs do; `DocumentedSpec`
whenever it is registered. `lost` counts what an exception leaves held: it is known
to the source (a raising call releases nothing) and `HoldsBalance` shows there is
no other imbalance. `KeptStays` is the program's side of it: while it keeps a value
or declaration, no step reclaims the node or gives its address away.

### Scopes

`frames` is Z3's stack, each frame with what was asserted in it and the objectives
there were before it; `blocks` the `withFrame` blocks on the program's stack;
`raising` an exception on its way out, through the `finally`s, to where the
program catches it. `kind` chooses solver or optimizer. A body may push, pop and
reset as it likes and raise at any point; `LeaveBlock` pops one scope, as the
`finally` does, and `LeaveBlockFails` is that pop failing, whose exception takes the
place of the body's. `blocks` is history: how high the stack was when each block was
entered, or 0 once the body has popped the block's own scope or one below it. The abstract
`AssertionStack` restores the whole stack at the end of a block whose own scope is
the innermost, and takes one scope away at the end of any other.

### Datatypes

One declaration at a time, with a `step` that walks through it: `build`
(descriptors, type by type), `list`, `make`, `query`, `finally`, `return`. Each
may fail: before the `try` that leaves what was built (`Escape`), after it the
`finally` runs. The forms differ in whether lists are made and when sorts are
registered. `MkSort` is `mkEnumerationSort` and `mkTupleSort`: one call, with
func_decls that are counted and never given back (`pinned`). `count` is what the
wrapper counts on a constructor's func_decls.

### FixedpointCallbacks

`cbBox`, `exportActivated`, `rawCbUsed`, `inQuery` and `lastQueryCanceled` are the
code's fields; `slot`, `reduce`, `registered` and `engine` are what Z3 keeps.
`QueryBegins` is `withInQuery` with the activation hook up to the C call, `Fire`
and `HandlerEnds` are the shims, `QueryEnds` the three ways out. `release` chooses
the build: in a release build there are no asserts and no `inQuery`. A handler
may query another fixedpoint or the one being queried, since nothing in the code
asks: if Z3 refuses, that is an inner query that raises. `nested` is history: the
fixedpoints of which such an inner query has ended since the outermost one began.

### Translation

One `failed` bit for each context is its error code: every C call sets the code of
the context it is made on. A `call` walks through a `translate`: the casts to an
AST and back, the translation on the source, `checkErr` on the context that
the object's `translate` asks (`Checked`), the wrapping of a handle that may be
nil. Other calls of the program, on either context, fail or not in between. For
`compatibleWith` the probe's reference (`held`) and its `defer` are there too.

### Conversions, BitVectors

The conversions as operators on integers, with each machine word's wrap explicit:
`uint64(v)`, the unsigned subtraction of 2^w, the cast to a signed word. They are a
module without state, which the proofs extend; the machine of `BitVectors` makes a literal of any integer of a word and reads it back.

## 3. Runs

Every run ends with no bound on depth; symmetry is used where a property does not
tell the elements apart, never with liveness.

| run | instance | shows |
|---|---|---|
| Lifecycle | 2 contexts, 2 ASTs, 2 values, 1 cell, 1 variable, 1 `withContext` | `StrongExact`, `RefsExact`, `HandlesValid`, `ContextsFreed`; `DeletedClean`, `BorrowedLeftToZ3` |
| Loader | 3 threads, 3 symbols (1 optional), 1 retry | `OneLoader`, `Published`, `NoNilEntry`, `LoadedOnce`, `Promise`, `EveryCallEnds` |
| Propagator | 4 boxes, 3 solvers, 2 events, stack of 5 | `CallbacksLand`, `CurrentBoxIsRunning`, `SubBoxesKept` |
| SortHold | 4 addresses, types of depth 2, signatures of 1 domain sort, 1 definition, 1 hold lost | `SortsLive`, `DefinedLive`, `HoldsBalance`; `KeptStays` |
| Scopes | 2 constraints, 1 term, 1 group, 3 scopes, 3 blocks, 2 objectives | `HandlesValid`, `Promise` |
| Datatypes | 3 types (two mutually recursive), 2 declarations, up to 2 types each | `CountsExact`, `TryReclaims`, `RegisteredTogether` |
| FixedpointCallbacks | 2 fixedpoints, 2 boxes, 2 events, stack of 3, both builds | `CallbacksLand`, `RegisteredOnce`, `HandlersFire`, `SurfacesApart`, `InQueryExact`, `CanceledExact`, `NoSwapMidQuery` |

Each also checks its module's `TypeOK`. Why the bounds are enough to be
interesting: two contexts and two values make every copy between contexts; two
ASTs make an address that is freed and used again; three threads make one that
loads, one that waits and one on the fast path; three solvers make a clone of a
clone; a stack of five makes a check in a handler in a check with a callback
of either kind on top, and four boxes a propagator, two clones and a clause
callback; four addresses make an array sort over two sorts that are both new,
beside the function that is being defined; three scopes make a block in a
block with a push between, or a push left open in each; two declarations make a second registration of a name;
two fixedpoints and a stack of three make a handler of one in which the other, or
the same again, is queried, and a box for each. `CHECK_DEADLOCK FALSE` where the bounds on counters or on the stack
may stop everything; `Lifecycle`, `Loader` and `Scopes` are checked for deadlock.

Fairness is assumed in one place, `Loader`'s `FairSpec`: weak fairness of each
thread's steps inside `ensureLoaded`. A thread inside it is scheduled by the
operating system and waits for nothing but `loadLock`, which in the model is
released by a step of its owner that is itself fair. A thread may starve on the
lock in general; here whoever acquires it either publishes, after which all others
take the fast path or leave at the second test, or fails, and failures are
bounded by `MaxRetries`. No thread is ever obliged to call.

The largest are SortHold and Scopes (about four million states and two minutes
each) and FixedpointCallbacks (1.5 million, over a minute); the others take less.

### Disagreements found

Five have a run of their own, whose property is the doc's word and fails:

* **SortRegistry** (`uninterpretedval.nim:140`). The registry keeps a sort that
  nothing counts. After any call that replaces Z3's last result the sort may be
  gone, and the documented next step, `mkUninterpretedVar`, uses a freed address.
* **ContextsFreed** (`funcdecl_types.nim:63`, `funcdecl.nim:507`, `rcf.nim:76`,
  `quantifier.nim:68`). Four `=destroy` hooks, those of `Z3FuncDecl`,
  `Z3FuncInterp`, `Z3RcfNum` and `Z3Pattern`, give the raw object back and not the
  context: after one function declaration the context is never freed.
  `lifecycle.nim:214` warns of just this.
* **ListsReclaim** (`datatypes.nim:377`). Deleting a constructor list does not
  delete its constructors, against the comment above it; z3_api.h says so.
* **StaleCode** (`translate.nim:43`). A translation is a call on the source, and
  `checkErr` reads the target's code: a translation that worked raises what an
  earlier call left on the target. The converse, a failure that goes unnoticed,
  makes a term or a sort with a nil handle; every other object's wrapper tests for
  nil (`NilIsNoticed`). `translate` of models and solvers asks the source and is
  right (`SourceIsRight`).
* **WideLiteral** (`bitvec.nim:116`). A negative integer goes through a 64-bit
  word; in a vector of more than 64 bits the bits above it are zero, where the doc
  promises the value modulo 2^W. The run has words of 4 bits;
  `WideLiteralWrong` proves it of every negative integer and every such width.

Three more are steps of the passing runs. There the property excepts, by a history
variable, what the code gets wrong, and thereby shows that no more than that goes wrong:

* **Clones cut off** (`propagator.nim:425`, `cutOff`). `clearSubBoxes` says "Safe to
  call only OUTSIDE an active `check()`". Make a propagator, clone its solver with
  `translate` (`solver.nim:363`), which asks the propagator for a sub-box; keep the
  clone, call `clearSubBoxes` outside every check, check the clone: the shims are
  called with the address of a freed box. `CallbacksLand` and `SubBoxesKept`
  show that this is the one way to lose a box, and that clause callbacks are safe in
  any case.
* **Blocks left open** (`solver.nim:411`, `optimize.nim:235`). "Push a scope before
  `body`, pop it after (even on exception)" (`solver.nim:400`), "the frame is popped
  on every exit path" (`optimize.nim:231`). Enter a block, assert something, push,
  raise before the matching pop: the `finally` pops the scope that the body pushed,
  and the block's own stays, with what was asserted in it. A body that pops too much
  makes the `finally` take a scope of the caller's, or raise over the body's exception.
  `Promise` says that a block which closed what it opened leaves no trace however it
  ends, and that any other costs one scope at most.
* **Queries of a fixedpoint inside one of its handlers** (`fixedpoint.nim:212`,
  `nested`). `inQuery` is "true while a `query`/`queryRelations`/`queryFromLevel`
  call is on the stack" (`fixedpoint.nim:100`), for the assert that "catches
  same-thread re-entrant mutation attempts" (`docs/THREADING.md:151`). An inner query,
  which a test calls unsupported (`tests/tfixedpoint_typed_callbacks.nim:627`) and
  nothing stops, clears it in its `finally`, also when Z3 refuses it at once; the outer query
  goes on, and `setHandlers` in a handler passes its assert. One that was cancelled
  also leaves `lastQueryCanceled` set for the outer one. `InQueryExact`,
  `NoSwapMidQuery` and `CanceledExact` hold up to there, and the flag is never left
  up.

### Known limits

Rules that the source leaves to the caller, and that the models take as such: a
`Z3Propagator` is kept during the checks of its solvers (ADR-N0004), and its
`clearSubBoxes` is not called in them; an objective's handle is given up with
the scope it was made in; a context is used by one thread.

## 4. Proofs

The theorems hold for every value of the constants that meets the named assumptions
of the modules: distinct kinds of elements, positive or natural bounds, and for
`Lifecycle` finite sets. Every invariant below was an invariant of a TLC run before
it was proved. "Inductive" means: implied by `Init` and preserved by each action
(one lemma for each action, in the `*Proofs` modules), from which `Safety` follows.

**Lifecycle.** `TypeOK /\ Inv` is inductive (`Safety`). `Inv` is `StrongExact`,
`RefsExact` and `HandlesValid` with `NoContextLeak` (a live context of the
wrapper's own has a count above zero) and `HookInv`, which says where a hook
stands: the location being released has no raw handle any more, a copy's target is
empty, the `withContext` locals above `depth` are nil, a borrowed context was
created. Without it the steps in the middle of a hook cannot be told from
arbitrary states. `StrongExact` is needed for `HandlesValid`, since a context is
deleted when its count reaches zero and only exactness says that nobody refers to
it then; `HandlesValid` in turn for `RefsExact`, since the deletion of a context
zeroes the counts of its ASTs. The counting is in a few lemmas: `CountUpdate` (what
changing one location does to a cardinality), `HoldOne` and `HoldTwo` (one or two
locations of contexts), `CarryOne` (a value's AST). Each action then has a lemma
of its own. From `Safety`: `TypeCorrect`, `ContextCountsExact`, `AstCountsExact`,
`NothingDangles`, and, with `NoContextLeak` and the exact counts, `NothingLeaks`
(`ContextsFreed`).

The two action properties, `DeletionIsClean` and `BorrowedIsZ3s`, need one more
invariant (`CellsAccounted`: a free cell has no object, an owned one is shared) and
`StepKinds`: a step either leaves every Z3 context as it is, or is one of those
that may delete some, and then no location that carries a raw handle or a shared
object changes the context it refers to. A context that goes with an AST or an
object still counted would leave a value or handle that refers to it, which
`HandlesValid` after the step excludes.

**FuncInterps.** What the four incomplete `=destroy` hooks can and cannot do. Every
lemma of an action is stated for counts that are exact but for an unknown `extra`
of each context (`ExactBut`, `InvBut`): none in `Spec`, and no step of `Lifecycle`
changes it. `DropUnreleased` adds one (`DropUnreleasedInv`), so that `InterpSafety`
has some `extra` in every state, never a smaller one after a step. From it:
nothing dangles and the counts of ASTs stay exact (`NothingElseGoesWrong`), a
context is never counted too low (`NeverUndercounted`), what the wrapper deletes
is empty (`DeletionStaysClean`), and a reference that was forgotten is so for ever,
its context never deleted (`LeaksAreForGood`): the bug that the run ContextsFreed
shows leaks, and does nothing else. `CountsCover` and `LeakStays` were checked by TLC on
two contexts, with a bound on the counts, before they were proved; no run lists them.

**Loader.** `Inv` is the three invariants with `ViewInv`: whoever owns the lock,
and whoever acquires it next, sees all there is; nobody else sees anything of a
load that is not published; a load that failed left nothing. From it:
`LoadExclusion`, `SafePublication`, `EntryPointsBound`, the action property
`LoadIsFinal`, and `EnsureLoadedImplements`, by a case for each action which of
the abstract steps it is.

**Propagator.** That a callback's box is alive depends on whom it was cloned from,
which `CallbacksLand` does not say. `Inv` adds `Owned` (the box of a solver leads
back to the box of the `newPropagator` it stems from), `Pinned` (the `Z3Propagator`
of whatever is on the stack is kept, and the box a shim was called with), `Families`
and `OneFresh` (a clone stems from the propagator of the check that it is made
for, and is made once), `ClausesKept` (the table roots every clause pointer). For
`currentBox`, that the top is right is not inductive, since a handler that ends
uncovers an older one: `Chain` says that every `prev` is the box of the innermost
handler below it, and `Running` is the same of `currentBox` and the whole stack.
`Owned` and what `Pinned` says of boxes are about the solvers that are not in `cutOff`;
`ClearSubBoxes` keeps them because it puts there every live solver whose box it frees.

**FixedpointCallbacks.** `Rooted` and `BoxesApart` tie each registration to the one
sticky box of its own fixedpoint; `Latched` says that a box is registered once for
all events if it is activated and else not at all, from which `RegisteredOnce`
and `HandlersFire` follow with `QueryFrames` (a query that began under Spacer with
handlers has them activated); `Uncanceled` (no query running of which none ended
inside has `lastQueryCanceled` set) gives `CanceledExact`, since a query may
wait below another of its fixedpoint; `RawMarked` carries
`SurfacesApart` through a debug build; `DeadBare` is for fixedpoints made anew.
`HandlersStayPut` is an action property, from `InQueryExact`.

**Datatypes.** The properties are about calls that have ended; `Inv` says where a
call stands: `Calls` (which form is in which step, and what belongs to whom),
`Fresh` (the counts taken so far are those of the types queried so far),
`Reclaim` (what a finished datatype still has of descriptors and lists belongs to
the call that is deleting it), `Registered` (no type of `declareDatatypes` is found
before it returns, and later its siblings are, or something newer is).

**Scopes.** `Nested` (blocks that have their scope were entered inside one another,
each at a height that the stack still has) and `Registered` (an
objective handle's index is below what any later scope found when it was opened) give
`HandlesNameTheirs`; a handle whose scope is gone was given up. For
`FramesImplementStack` the mapping cuts the stack at each block: `Opened` gives, for
each block, the stack as it was at its entry, which is a prefix of the stack as
long as the block has its scope (`OpenedPrefix`). So an assertion, which changes the
innermost frame, changes no prefix (`OpenedSame`), what closes frames cuts the
abstract blocks as it cuts the concrete ones (`OpenedAbove`, `CutStep`), and a
`finally` that finds the block's scope innermost restores just that prefix. A failed
`finally` is the abstract end of a block that closes nothing.

**SortHold.** What Z3 reclaims is decided by `below`, the nodes that a node is built
from, and a sort stays what it is only if nothing a live node needs ever goes. So
`Inv` describes Z3's memory first (`Heap`): no two live nodes are alike
(hash-consing), the arguments of a live node are live, and `below` of a live node is
itself, its arguments and what is below them. `CollectHeap` shows that
reclaiming preserves this and touches nothing that is kept, `ReturnsHeap` the same of a
call that makes a node or finds the one there is; that `below` is what it should be
is a fact about each node and its arguments (`Linked`), which needs no recursion
over the depth of types. `Calls` says how `sortOf` nests: the outermost frame is the
program's, every frame below the innermost waits for one more sort, and a raw
sort that is returned has a frame that wants it. From it `SortsLive` is kept: a sort
that somebody waits beside is held (`Holds`), a single one is the last result, and
`Counted` turns the hold into a count above zero. `HoldsBalance` is counting: `InHand` is
the cardinality of a set of positions, of which pushing, popping and taking add or
remove the last frame's (`PositionsLast`, `HandLast`, `CallOver`); `Quiet` are the
steps that leave all counts alone. `StepKeeps` has one lemma for each action and
gives `Safety`; from it `TypeCorrect`, `SortsStayLive`, `DefinedStaysLive` and
`HoldsAreBalanced`. The action property (`KeptValuesStay`) adds `KeptLive` (what the
program keeps is a live node) and `Keeps` (a live node that is still counted after a
step is the node it was). `NameAssumption` says that a type's name is not the one
that marks a free address.

**Translation.** `IInv` has the four properties and what each step of a call knows
of the two error codes: after a translation that worked the source's code is clear,
the handle is nil if and only if it failed, and the probe is held exactly between
`MkTrue` and the `defer`. These properties are theorems only; no run lists them.

**Conversions.** Operators, no machine: `NarrowLiteral` and `RoundTrip` for every width
whose modulus divides the word, `TwosComplement` for every width up to the word
(the wrapped subtraction included), `WideLiteralWrong` for every wider one. They
rest on `ModAdd` and `ModShift`, that a multiple of the modulus may be added.

Every invariant and action property of the passing runs is a theorem, and so are both
refinements; only model-checked is `EveryCallEnds`, liveness under fairness. Of the
five disagreements, which TLC shows by a trace, `WideLiteral` has a proof as well, and
`ContextsFreed` has one of how far it goes. Out
of the prover's reach: liveness under fairness, ENABLED, and what a recursive
definition computes for every input. `Raise` and `BodyRaises` bound what exceptions
leave with a sum over addresses (`SumFunction`, of the community modules); the proofs
take it as an unknown number, which is enough since it only appears in guards.

## 5. What is not modelled

* Term builders, introspection, printing and parsing have no state of their own:
  each is Lifecycle's `Build` or `WrapHandle` around one C call. What the terms
  mean, and the layout of what is printed, is Z3's. The translation of regular
  expressions from text (`regex`) is a recursive-descent parser over characters:
  a model of it would be the parser again.
* Models, tactics, goals, probes, simplifiers, AST vectors and maps: their handles
  are cells of `Lifecycle` and their `translate` is in `Translation`. The rest is
  one C call each on an object Z3 keeps.
* `newScratchContext` is modelled as the code has it; `docs/THREADING.md:210`
  describes a save and restore of the current context instead.
* `interrupt` from a second thread changes an ARC count without atomics, and a
  count changed so may be anything: no interleaving of steps describes it.
* Global parameters and the interaction log are process-wide state of libz3 that
  the wrapper neither guards nor promises anything about.
* Defects (failed asserts, index errors) that leave a handler, and any exception
  that leaves a clause callback, which has no exception wall (`onclause.nim:69`),
  unwind through C++ frames; what follows is undefined.
* Z3's solving is the nondeterministic choice of an answer.
* `src/_audit_headers/` holds copies of Z3's C and C++ headers, which the bindings
  were compared with. They are another program's declarations (and, in `z3++.h`,
  another language's wrapper), no line of which is compiled or called here. A definition
  that stands for a call of Z3 is marked external; no definition is mapped to the
  headers, although they are by far the longest C files of the repository.

## 6. How the project is laid out

A component's module comes first; an abstract specification before the module that
implements it (`LibraryLoad`, `AssertionStack`); proofs in a module of their own
that extends the component's. A change in a handler of the source is a change in the
action of its name: check its run, then the `*Proofs` lemma of that action.
