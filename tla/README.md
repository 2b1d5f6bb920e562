# R-rust: specifications of the interpreter's session, roots and collector

R-rust is a port of GNU R to Rust. An interpreter instance (`crates/rmath`) is
embedded through `crates/r-embed` and offered to hosts: an Android application
through UniFFI (`crates/r-uniffi`), a web page through WebAssembly
(`crates/r-wasm`), a terminal (`crates/r-host-cli`).

The specifications here cover the places where the port has a protocol of its
own rather than R's semantics to follow: the threads and queues between a host
and the single interpreter thread, the bookkeeping that keeps R objects alive
while Rust and translated C code hold them and the bytes it costs, the forcing
of promises, and the collector with its finalizers. Everything below is written
from the code; comments in the code are quoted only where a run compares the two.

## 1. Inventory

| Component | State | Operations | Hard part | What makes it correct |
|---|---|---|---|---|
| Operation table (`r-uniffi/src/uniffi/operation.rs`) | entry per operation (state, token, retained), queue of completed ids, tombstones twice (queue and set) | register, mark_running, complete, forget, take_result, cancel_all, cancel_operation, status | called by every host thread and the worker, in any order; two limits (100 results, 4096 tombstones) | fields agree; an outcome is final, handed out once, kept while it is among the newest |
| UniFFI session (`session.rs`, `worker.rs`, `cancellation.rs`) | bounded command queue, handle behind a mutex, next id, reply channels, the worker's position | constructor handshake, enqueue, synchronous request with deadline, cancel, shutdown, drop; the worker's loop for 12 kinds of command | timeouts racing late answers, cancellation racing completion, a full queue, wedged calls, bounded joins | no request is stranded, callers and shutdown return, cancelled work unwinds |
| Callback dispatcher (`worker.rs`) | unbounded channel, one thread, the installed callback | set_callback, dispatch, shutdown | re-entrant, slow or panicking host code | order per operation; the terminal event comes last, once, after the outcome |
| Root slot table (`rmath/src/sexp/root_storage.rs`, `protect/stacks.rs`) | slots, free list, generation counter | claim, release, replace, retain_managed, restore, truncate, clear, update by snapshot | recycled slots and stale handles; cleaning up under memory pressure | a handle reaches its own lease or nothing; cleaning up needs no memory |
| Root sequences (`root_sequence.rs`) | ordered entries with a lease each | push, pop, truncate, remove by lease or value, update by snapshot | callbacks between the two halves of an update | order kept; only what was read is rewritten |
| Protection scopes (`session/guards.rs`, `protect/guards.rs`) | depth and checkpoint per open scope | enter, leave (return or error), guards, protect, unprotect | guards outliving scopes, recycled slots | a scope takes its own roots and no others |
| Memory ledger, arena (`sexp/memory`) | bytes allocated, bytes reserved, limit | reserve, resize, commit, release from other threads | releases on other threads while the interpreter's thread compares with the limit; two buffers at once while one grows | the counters say what exists; the limit holds |
| Retained values (`session/retained.rs`, `r-embed/src/session.rs`) | namespace, slots with generations | define, set, update, remove, read | evaluation between check and use | a handle never reaches another value |
| Promises (`envir/promise_state.rs`) | gp state per promise | admission, publish, unwind | re-entry, restart warnings whose handlers run R code, errors | evaluated once at a time; a failed force can be restarted |
| Generational collector, finalizers (`sexp/gengc`, `mainutils/memory_main.rs`) | generations, fields, remembered set, weak references, queue and batch of finalizers | minor, full and torture collection, write barrier, safe points, callbacks, finalizers | stores between collections; keys that come back to life; finalizers that collect, register and fail | nothing refers to what was freed; no survivor loses a field; each finalizer runs once, for what cannot be reached |
| Evaluator, contexts, conditions (`eval`, `sexp/context.rs`) | context and handler stacks | evaluation, unwinding, restarts | non-local exits | stacks unwind to where they were |
| Parser, bytecode, library, numerics, graphics, packages | per call | - | R's semantics | compared with GNU R by the repository's own tests |
| Hosts (`r-wasm`, `r-host-cli`, `apps`, `website`) | sessions and views | wrappers of the above | - | - |

How they interact: API callers share the operation table (mutex), the worker's
handle (mutex), the command queue and per-request reply channels with the worker
thread; the worker appends events to the dispatcher's channel and the dispatcher
thread calls the host, which may call the session again. Inside the worker
thread everything is sequential, but it re-enters: an evaluation opens a
protection scope, claims roots in the slot table and the protection stack, and
may run callbacks (collector notifications, finalizers, host functions) that do
the same before it returns or fails.

The hazards found in this code, each at its line, are in `PROJECT.json` together
with the properties that watch them; those without a property say why.

## 2. Modules

    OperationIds
      |- OperationTable ------ OperationTable_proofs
      |- CallbackDispatcher
      '- UniffiSession (both) - MCUniffiSession
           '- UniffiSession_proofs (and OperationTable_proofs)
    RootLeases (abstract) <--refines-- RootStorage -- RootStorage_proofs (and FiniteSums)
    RootSequence (abstract push)
      |- RootBudget (extends MemoryLedger, too) <-refines RootSequence-
      |    '- RootBudget_proofs (of both; and FiniteSums)
      '- ProtectScopes (extends RootStorage, instantiates RootSequence) - ProtectScopes_proofs
           '- Evaluation (extends PromiseForcing, too) - Evaluation_proofs
    PromiseForcing ------------------------------------'
    Collector - MCCollector
      '- Collector_proofs

**OperationTable** (`operation.rs`). One action per method, since each runs under
the table's mutex. The map from id to entry is split into `status`, `retained`
and `token`; the token is the `CancellationToken` shared with the worker, so it
stays when the entry goes. Payloads are left out. The two `while` loops that
enforce the limits are shown in the comments to run at most once and are
written as a single step. `registered`, `consumed` and `completed` are history.
`TableNext` is the table's contract with its callers: an id is registered once
and completed or forgotten only while active.

**CallbackDispatcher** and **UniffiSession** (`session.rs`, `worker.rs`,
`cancellation.rs`). A step is what one thread does between two points at which
another thread can see it: a section under the table's mutex, a channel
operation, a read of the token, an interpreter call. The correspondence:

| Code | Actions |
|---|---|
| `initialize`, start of the worker | `InitSucceeds`, `InitFails`, `ConstructorReturns`, `ConstructorFails` (failure, or deadline passed and `detach`), `ReleaseDispatcher` |
| `enqueue` | `Enqueue` (lock, allocate, register), `Send` or `SendFails` and `Rollback`; the handle's mutex is held throughout |
| `request_with_timeout` | the above, then `ReceiveReply`, or `TimeOut` and `CancelTimedOut` |
| `cancel`, `cancel_operation`, `take_result`, `set_callback` | `Cancel`, `CancelOne`, `Take`, `InstallCallback` |
| `shutdown_worker`, `Drop` | `ShutdownBegins` (cancel_all), `TakeHandle` or `NoHandle`, `JoinTimesOut`, `HandleDropped`, `DispatcherJoined` |
| worker loop | `ReceiveCommand`, `QueueClosed`, `SignalExit` (`exited.send`), `WorkerExits` (end of the thread: receiver and session dropped) |
| `execute_operation` | `BeginOperation`, `Started`, `CheckToken`, one return action per kind of interpreter call, `RecheckToken`, `Finished`, `PrintLine`/`PrintNothing`, `CompleteOperation`, `Announce`, `Reply` |
| dispatcher thread | `DropEvent`, `Deliver`, `CallbackReturns`, `CallbackPanics`, `DispatcherExits` |

The 12 kinds of command fall into five classes with different control: `eval`,
`page` (evaluations without callbacks), `render` (token read only before and
after), `load` (R code that ignores the token), `query` (the rest). A
synchronous `eval` or `render` has callbacks and a reply; an asynchronous one is
retained. `initialize` with a failed init joins a thread that has already ended
and is one step with the failure. `join_bounded` waits a limited time for the worker's
signal only: after it the thread is joined to its end without a limit (`HandleDropped`
needs `exited` then), and a worker that signals after the wait has been detached. A
panic inside an interpreter call is an error of that call (`run_guarded`).

**RootStorage** (`root_storage.rs`). Slots, free list as a bag (a claim pops any
entry of it: the code's order of popping, which `swap_remove` permutes, is one
of the behaviours), generation counter, capacity. `MaxSlots` is what the memory
ledger would admit; a claim that is refused changes nothing and is not a step.
`Restore` releases several slots in the code's loop and is one step; the comment
there says why the result is the same. `ReplaceIfCurrent` is `RootTable`'s
(`protect/stacks.rs`), with any expected value, since the snapshot it comes from
may be arbitrarily old.

**RootLeases** is what the slot table promises: leases named by their
generation, no slots to recycle, no free list, no buffers. `RootStorage`
implements it with the leases computed from the occupied slots.

**FiniteSums** has the laws of sums over finite sets that the counters need; it
models nothing.

**RootSequence** (`root_sequence.rs`): the protection stack and the preserved
objects. `ReadSnapshot` and `Update` are the two halves of
`update_protect_stack_refs_in` and `update_preserve_stack_refs_in`.

**ProtectScopes** composes the two: `ProtectScope::new` and its `Drop`, guards
and the stack of `protect`/`unprotect`. `home` is history: how many scopes were
open when a lease was made. `Unprotect` never pops below the innermost scope,
which is the callers' discipline that `stacks.rs` asks for. `UNPROTECT_PTR`, which
only tests call, is `RemoveLastRoot` of `RootSequence` and no step here.

**MemoryLedger** (`memory/ledger.rs`, the reservations of `memory/arena.rs`): the
two counters of a heap's bytes and the tickets that other threads drop. A byte
is the room for one root. Every change of the atomic counter is the code's loop:
read, compute, compare-and-swap, which is weak and may fail without a reason.

**RootBudget** is `RootSequence::reserve` and `try_push` step by step on that
ledger: ask for twice the capacity, then for what is needed; allocate (the
allocator may fail, or give more than was asked for); resize the reservation;
turn it into a charge; drop the reservation; drop the old buffer with its charge;
push. Between any two of these other threads drop tickets. The tickets come
from `PreparedDiagnostic::into_send`, the one place that makes them. It
implements `RootSequence`, where a push is one step.

**PromiseForcing** (`envir/promise_state.rs`, `force_promise_result` of
`envir.rs`): the `gp` states 0, 1 and 2, the `Evaluation` guard that is armed
before the expression is evaluated and not before the restart warning, and the
stack of forces. `aborted` is history: the promises whose warning did not return.

**Evaluation** is the native stack with both kinds of calls that undo something
when they are left. `CloseScope` and `Ended` need the innermost call to be of
their kind; an error that unwinds several is several such steps.

**Collector** (`gengc/`, `mainutils/memory_main.rs`). A collection is one step: it
runs on the only thread that touches the heap and calls nothing until it has
swept. `Reach` is its worklist over `child_mask`, which leaves out the key of a
weak reference. `Sweep` is what `do_minor_gc_in`, `do_full_mark_sweep_in` and
`do_torture_mark_sweep_in` share, with the generations they free, the roots they
start from and whether they promote. Between collections the program
(`Mutate`) allocates into locals, stores with the barrier, stores into a forced
promise without it (`PublishValue`), roots and unroots, reads the key of a weak
reference and registers finalizers; only `Accessible` nodes are at hand.
`AtSafePoint` is `held = {}`: safe points come between statements, when the
running code keeps no node in a local. Of a weak reference only the key is
modelled apart: its value and finalizer are strong fields. `missed` is history:
the values that were published without the barrier that a store needs there.

| Code | Actions |
|---|---|
| `arena` allocation, `R_MakeWeakRef` | `Allocate` (the node is in a local), `Forget` |
| accessors, `write_barrier_in` | `SetField`, `ClearField` |
| `Evaluation::publish` | `PublishValue` |
| protection, preservation, handles, bindings | `Root`, `Unroot` |
| `register_r_finalizer`, `register_c_finalizer` | `Register` |
| `maybe_collect_at_eval_safe_point`, `gc()`, `maybe_torture_gc_in` | `MinorCollection`, `FullCollection`, `TortureCollection` |
| `R_RunPendingFinalizers`, `R_RunExitFinalizers` | `RunPendingFinalizers`, `RunExitFinalizers`, `NextFinalizer`, `BatchDone` |

Operators whose names start with `Bug` are slips a programmer could make in the
definition that follows them. No specification uses them; they serve to check
that every property can fail.

## 3. What is checked

| Run | Instance | Shows |
|---|---|---|
| `operation_table` | 4 ids, window 2, 1 tombstone | `TableConsistent`, `TokenMatchesStatus`, `WindowKept`, `ConsumedOnce`, `OutcomeFinal` under every order of calls |
| `session_async` | 2 operations (eval, render), queue of 1 | `ActiveIsHeld`, `TerminalAfterOutcome`, `DeliveryOrder` |
| `session_sync` | 2 calling threads, 2 requests (page, query), queue of 1 | `NoRequestAbandoned`, `TimedOutIsCancelled`; the session implements `TableSpec` (`UsesTable`) |
| `session_liveness` | 2 requests (eval, load or render, then a page), the host as in `HostBound` | `RequestReturns`, `ShutdownReturns`, `CancelledUnwinds`, `FailedInitLeavesNoThread` |
| `root_storage` | 4 slots, 4 leases, 2 values | `FreeIsVacancies`, `GenerationsDistinct`, `ReleaseNeedsNoRoom`, refinement `ImplementsLeases` |
| `root_sequence` | `RootBudget`: 3 entries, 4 leases, 2 values, limit 5, 2 tickets of up to 2 bytes | `LeasesAscend`, `OnlySnapshotRewritten`, `LedgerBalanced`, `BudgetHeld`, refinement `ImplementsSequence` |
| `protect_scopes` | `Evaluation`: 2 nested scopes, 3 slots, 3 leases, 2 stack entries, 1 promise | `NoRootOutlivesScope`, `ScopesNested`, `OuterRootsSurvive`, `ForcedOnce`, `Settled` |
| `collector` | 3 nodes with a field each, a weak reference at a time, 2 finalizers | `NoDangling`, `OldToYoungRemembered`, `SurvivorsIntact`, `FinalizersOnce`, `FinalizedUnreachable` |

`ActiveIsHeld` and `NoRequestAbandoned` ask the same of an operation and of whoever
awaits its reply: a sender, the queue or the worker has it. `NoRequestAbandoned`
adds that a reply channel that may still be answered is open only while somebody
is to answer it, and that none is closed unanswered. `TerminalAfterOutcome` compares
what the last event says with what the table recorded: a result with success, an
error with failure or cancellation.

Each run also checks the module's type invariant, where bounds (queue capacity,
generations, depth) are the part that can fail.

Runs that find a disagreement between a comment and the code:

| Run | Comment | What the code does |
|---|---|---|
| `session_render_race` | worker.rs:544: a cancellation during a render "still wins at the operation seam" | a cancel between the second token read and `complete` is lost |
| `session_drain` | worker.rs:722: pending operations' tokens "the caller cancelled first" | an operation enqueued between `cancel_all` and closing the queue is drained uncancelled |
| `session_shutdown_wait` | worker.rs:27: join "with this bounded wait; if the worker has not exited in time it is detached" | the handle's own `Drop` waits a second time |
| `session_wedged` | session.rs:334: cancellation "so the single worker thread does not stay wedged" | `load_package` never looks at its token |

More differences are visible in the models without a run of their own.

`is_cancellation` accepts every error message that contains the cancellation
text, where its comment says "exactly" (cancellation.rs:33-37), so
`CancellableReturns` lets an evaluation end as cancelled with its token unset.

`take_tombstone` and the tombstone cap forget finished operations
(`TakeTombstone`, `Tombstone`), after which `cancel_operation` calls them unknown,
where its comment promises "a no-op success" (session.rs:208).

`Evaluation::publish` stores the value of a promise with `replace_node`
(promise_state.rs:112-115) and so without the write barrier, where gengc.rs:52
says that the barrier "records old-parent/young-child edges". Without the
disjunct `<<p, c>> \in missed` TLC finds `OldToYoungRemembered` false in seven
states, and without the exception in `SurvivorsIntact` it finds a minor collection
that takes a value out of its promise: the promise is old and not reached, its
value young; the collection frees the value and puts `R_NilValue` for it. The
program gets to see this if the promise is the key of a weak reference and it
reads the key again, or if a finalizer is later given the promise. A promise that
the collection reaches from a root is traced through, so its value survives. Both
properties exclude exactly these values, and the proofs show that nothing else is
ever missed.

A `gctorture()` collection keeps a young node that it does not reach, yet frees
the old nodes that only this one holds and puts `R_NilValue` for them
(mark.rs:455-463). `SurvivorsIntact` is therefore about the two collections at
safe points. And a GC callback "may collect" (callback.rs:22-26) while it is
called from a torture collection in the middle of a construction, where
mark.rs:406-418 says that young nodes have to be spared; callbacks are left out.

### Bounds and why they suffice

Ids are handed out once and never reused, so two or three operations already
give every pair of positions (one with the worker, one in the queue, one being
sent). A queue of one is full as soon as one command waits. Retention 1 or 2 and
one tombstone make eviction, and eviction of a tombstone, ordinary steps. Slots
and generations: four leases over four slots reach a slot's second and third
owner, a tail of several vacancies, and an exhausted counter; the reservation
rule (at least 4, else doubling, else exactly what is needed) takes its
alternatives because the budget cuts doubling off. Output is at most one line per
evaluation: further lines repeat the same step.

A limit of 5 bytes lets a buffer of 2 grow to 3 beside it but not to 4, so that
the doubled request is refused and the smaller one granted, or both refused when
a ticket is out; `MaxDepth` = 3 is then the deepest a sequence can get, and
`ImplementsSequence` says that it does not get deeper. One byte of rounding makes
the allocator's answer differ from the request. Two tickets let one be read by
another thread while the other is released. One promise suffices for
`Evaluation`: forcing another in between is a frame that neither reads nor writes
this one, and `Evaluation_proofs` treats any number. Three nodes make a
parent, its child, and a finalizer's function or a weak reference beside them;
two finalizers make a batch with one running and one waiting, and the one
registered while the other runs; a node refers to at most one other and not to
itself, and one node at a time is under construction. 2 finalizers include one
with an R function and one marked `onexit`. 700 thousand states; the proof
treats every number of nodes, fields and finalizers.

Every bound is a constant of the `.cfg`: `Ids`, `QueueCapacity`, `Retention`,
`TombstoneCap`, `Callers`, `MaxSlots`, `MaxGeneration`, `MaxDepth`, `MaxLease`,
`MaxScopes`, `Limit`, `Tickets`, `FirstCapacity`, `MaxRounding`, `MaxTicket`,
`Promises`, `Nodes`, `MaxFields`, `MaxHeld`, `MaxFinalizers`; one more bound is
written out, that `Allocate` makes a weak reference only while there is no
other. Runs where the host may simply stop calling, or where a bounded counter
runs out, switch deadlock checking off. `session_sync` treats its two callers as
interchangeable, and `collector` its nodes; no liveness run uses symmetry.

### Fairness

`Spec` of `UniffiSession` assumes: the worker, dispatcher, shutdown and waiting
callers keep running (threads are scheduled); bounded waits end
(`recv_timeout`); an evaluation whose token is set returns (the evaluator polls
it). It assumes nothing of the host (no API call has to happen, a callback may
never return or may panic), of `init`, of an evaluation that nobody cancelled, or
of the commands without a hook for cancellation: a render, which runs any R code
(worker.rs:528, 717-719), a package load, a query. `CancelledUnwinds` is therefore
about evaluations and pages, and `RequestReturns` and `ShutdownReturns` hold
although the worker may stay in a render for good.

Between its exit signal and its end the worker thread only drops its session and
its receiver. The thread that joins it waits for that without a limit, so
`ShutdownReturns` rests there on the fairness of the worker; the close and the drop
of a session run no R code and no finalizers (session/rsession.rs:1472-1516).

`session_wedged` uses exactly this specification. `session_liveness` uses it with a
bound on the host, `HostBound`: the callback is installed before the first request
or never, and the second request is a page. The first request is then each of the
kinds that a token ends and that it does not, with another request behind it. The
bound is on calls that fairness never requires, so it takes no behaviour away from
the threads of the session.

## 4. What is proved

TLAPS checks these for all values of the constants.

| Theorem | Statement |
|---|---|
| `OperationTable_proofs!TableSafe` | `TableSpec => [](TableTypeOK /\ TableConsistent /\ TokenMatchesStatus)`; `TableTyped` and `TokensMatch` state the parts |
| `OperationTable_proofs!HandedOutOnce` | `TableSpec => ConsumedOnce` |
| `OperationTable_proofs!OutcomesAreFinal` | `TableSpec => OutcomeFinal` |
| `OperationTable_proofs!RetentionWindow` | `TableSpec => []WindowKept` |
| `UniffiSession_proofs!SessionTyped`, `NothingStranded`, `RequestsServed`, `TimeoutsCancel`, `OutcomeFirst`, `DeliveredInOrder` | `SafetySpec => []` of `SessionTypeOK`, `ActiveIsHeld`, `NoRequestAbandoned`, `TimedOutIsCancelled`, `TerminalAfterOutcome`, `DeliveryOrder` |
| `UniffiSession_proofs!SessionUsesTable` | `SafetySpec => UsesTable` |
| `UniffiSession_proofs!TableInSession` | `SafetySpec => ConsumedOnce /\ OutcomeFinal /\ []WindowKept`: the table's theorems inside a session |
| `UniffiSession_proofs!MutexInUse` | `SafetySpec => []LockInUse`: the mutex of the worker's handle is held only by a sender or in the bounded join |
| `RootStorage_proofs!StorageSafe` | `StorageSpec => [](StorageTypeOK /\ FreeIsVacancies /\ GenerationsDistinct)`; `StorageTyped` and `FreeListExact` state the parts |
| `RootStorage_proofs!RoomForEveryRelease` | `StorageSpec => []ReleaseNeedsNoRoom`: the free list has room for every slot that may still be released |
| `RootStorage_proofs!OneTailToPop` | whichever occupied slots are vacated, there is exactly one vacant tail to pop |
| `RootStorage_proofs!StorageImplementsLeases` | `StorageSpec => ImplementsLeases` |
| `RootBudget_proofs!RootsStayInOrder`, `UpdatesStayInSnapshot` | `SequenceSpec => []LeasesAscend`, `OnlySnapshotRewritten` |
| `RootBudget_proofs!CountersBalance`, `LimitIsHeld` | `BudgetSpec => []LedgerBalanced`, `[]BudgetHeld` |
| `RootBudget_proofs!NothingUnderflows` | no release takes more than the counter has, in whatever order threads take theirs |
| `RootBudget_proofs!BudgetTyped` | `BudgetSpec => []BudgetTypeOK` |
| `RootBudget_proofs!BudgetImplementsSequence`, `PaidRootsStayInOrder` | `BudgetSpec => ImplementsSequence`, and so `LeasesAscend` and `OnlySnapshotRewritten` |
| `ProtectScopes_proofs!NoRootLeaks`, `PositionsNested`, `OnlyOwnRootsGo` | `ScopesSpec => []NoRootOutlivesScope`, `[]ScopesNested`, `OuterRootsSurvive` |
| `ProtectScopes_proofs!ScopesUseTable`, `ScopesUseStack` | `ScopesSpec => StorageSpec`, `ScopesSpec => Stack!SequenceSpec`: scopes and guards use the slot table and the protection stack by their calls only |
| `Evaluation_proofs!NeverForcedTwice`, `AlwaysSettled` | `PromisesSpec => []ForcedOnce`, `[]Settled` |
| `Evaluation_proofs!EvaluationIsBoth` | `EvaluationSpec => ScopesSpec /\ PromisesSpec`, and so the five properties above of the whole native stack |
| `Evaluation_proofs!EvaluationKeepsTable` | `FreeIsVacancies`, `GenerationsDistinct`, `ReleaseNeedsNoRoom` and `ImplementsLeases` on the whole native stack |
| `Evaluation_proofs!EvaluationTyped` | `EvaluationSpec => []EvaluationTypeOK`: the frames are the open scopes and the promises being forced |
| `Collector_proofs!TypeCorrect`, `NothingDangles`, `BarrierComplete`, `EachFinalizerOnce` | `Spec => []` of `CollectorTypeOK`, `NoDangling`, `OldToYoungRemembered`, `FinalizersOnce` |
| `Collector_proofs!CollectionsSpareFields`, `OnlyUnreachableFinalized` | `Spec => SurvivorsIntact`, `FinalizedUnreachable` |

Assumptions: the named `ASSUME`s (ids are naturals and differ from `NoOp`; limits
are naturals; the mark `"free"` of an unlocked mutex is not a caller; `NoValue` is
not a value; `Nil` and `NotWeak` are not nodes; there are finitely many tickets).
What is proved of the depth of a paid sequence (`BudgetTyped`,
`BudgetImplementsSequence`, `PaidRootsStayInOrder`) has the hypothesis `DepthFits`
besides: there is a limit, and it is at most `MaxDepth`. `MaxDepth` is the bound of the
abstract sequence; a sequence whose
every entry costs a byte cannot exceed the limit, so a `MaxDepth` from the limit
on bounds nothing. (The run takes the sharper bound that holds for its instance.)

*Operation table.* `TableInv` joins typing, `TableConsistent` and
`TokenMatchesStatus`, and is inductive with one addition, `EntriesRegistered`: an
id that has an entry was registered. The queues are the work: lemmas say what
pushing, dropping the head and removing one element do to a sequence without
repeats (`AppendNoRepeats`, `TailNoRepeats`, `WithoutNoRepeats`), and
`TombstoneKept` that a tombstone keeps the two copies equal. `RetentionWindow`
needs more (`WindowInv`): an eviction takes the head of `completed_fifo`, so one
must know how far back in the order of completion an entry of the queue can lie.
`QueueFollowsCompletion` says that an entry with k entries behind it has at least
k later completions; the head of an overfull queue therefore lies outside the
newest `Retention`.

*Session.* `SessionInv` says where everything is. `Life`: how far the constructor,
the shutdown and the worker have come; a sender holds the mutex of the handle,
and while the handle is there the queue is open and has no `Shutdown` in it.
`Places`: an active operation is in exactly one of the queue, the worker's hands
and a sender's. `Replies`: a reply is sent once its operation is over. `InOrder`
compares each event, queued or delivered, with how far its operation has come
(`Reached`), so an event that is dispatched now outranks all earlier ones. Each
conjunct leans on the others: a dequeued id is active because `Places` keeps it
out of every other hand, and the worker's `complete` is then a step the table
allows. Every step is therefore a `TableNext` step or leaves the table alone
(`TableStep`), which is `UsesTable` and also carries `TableInv`, proved of the
table by itself, over to the session; `TableInSession` reads the table's theorems off.

Two invariants stand on `SessionInv` and are not needed by it. `Tidings`: a worker
about to announce an outcome, and every terminal event announced before, says what
the table recorded, or the table has forgotten the operation; it needs `DeliveryOrder`
(an id is announced once) and that a recorded outcome never changes. `Awaited`: an
open reply channel belongs to an operation that is at a sender, in the queue or at
the worker, even if it has left the table. With `MutexInUse` it is the safety half
of "a request returns": whoever waits, waits for a thread that is to act. The other
half is the fairness of that thread, and stays with TLC.

*Root slots.* The inductive invariant is `StorageTypeOK`, `FreeIsVacancies` and
`GenerationsDistinct` together with `len <= capacity`.
`VacateOccupied`, `VacateFree` and `VacateLeases` describe what releasing a set
of slots and popping the vacant tail leaves; with them each call is either the
abstract call on the lease that was named, or, for a stale handle
(`StaleHasNoLease`), leaves the leases as they were, which is the abstract call
on a lease that does not exist.

*Sums.* `LedgerBalanced` and `ReleaseNeedsNoRoom` are about a sum over a finite set,
which the community modules define by recursion. `FiniteSums` proves that the
recursion is well-defined and what sums do (`SumChanged`: a change at one point
changes the sum by as much; `SumCounts`: a sum of zeros and ones counts the ones).
The induction is made on a set of subsets: if some subset were not in it, there
would be a minimal one (`SubsetInduction`, from the library's well-foundedness of
the strict subset relation). The free list then has as many entries as there are
vacant slots, which with the occupied ones are `len`, and `len` is at most `capacity`.

*Counters.* `LedgerInv` is `LedgerBalanced` with the types of the ledger and the work
under way, and with `held = 0` outside a reservation. A step of a ticket changes the
sum by what it changes of that ticket (`TicketBytesChanged`), so each thread's own
part is in the counter when it subtracts (`NothingUnderflows`), though the counter it
read is compared again only by the swap. It holds with and without a limit.
`LimitIsHeld` rests on it: counting a reservation that became a charge once, every
step but an admission counts no more than before, and an admission compares with the
limit exactly what its swap makes true. The swap succeeds only if the counter still
has the value that was read, and the allocated bytes are the thread's own.

*Root sequences.* Since leases ascend, none occurs twice; so the entry that has
the lease of an entry read before is that entry, and an update cannot hit
another.

*Paid root sequences.* `BudgetInv` adds to these two what a push in progress knows:
its lease is still to be had, and the bytes asked for and held have room for one
entry more (`RoomAsked`). What is allocated is the buffer in use and the one that is
to replace it, and fits the limit, so neither is larger than `MaxDepth`. A push maps
to the abstract one at `Install` (or `PushInPlace`), every other step to a stutter.

*Scopes.* A scope knows the generation counter at its start, a root its own
generation; `HomesMatch` says that comparing the two tells whether the root was
made inside the scope, for every root that no guard owns. Leaving a scope then
releases exactly these. Every step is a step of the slot table and a step of the
protection stack, or leaves it alone: the table's and the sequence's theorems hold
in scopes, and through `EvaluationIsBoth` on the native stack.

*Promises.* `ForcedOnce` and `Settled` hold each other up; the addition is that an
aborted warning leaves its promise in state 1 for good (`AbortedStaySeen`).
`EvaluationTyped` counts: a step that enters or leaves a call changes the stack of
its kind by one and the frames of no other kind.

*Collector.* The invariants are inductive together with two facts: a node that
only a local holds is young (`HeldYoung`), and a registration that is queued or
being run has a key (`KeysAreNodes`). `ReachLeast` characterises tracing: the
least set that contains the roots and is closed under fields. The argument for
a collection is `MarkedClosed`: what is marked, ready graphs included, is closed,
disjoint from what is freed, and contains every root and the key and function of
every registration; the three collections differ in what makes them free no
held node (`Justified`). `CollectionsSpareFields` uses the remembered set the
other way round: an old node that a minor collection did not reach is not
remembered, so it holds no young node but one it was missed for.

Only model-checked: the liveness of the session (`RequestReturns`,
`ShutdownReturns`, `CancelledUnwinds`, `FailedInitLeavesNoThread`), which is out of
the prover's reach. `RequestsServed`, `MutexInUse` and `TokensMatch` are its safety
part. Every invariant and action property of the passing runs, and every refinement,
has a theorem.

## 5. Not modelled

What an evaluation computes, R's semantics, numerics, graphics, parsing and
packages: sequential code whose reference is GNU R itself, compared by the
repository's tests. Value conversions of `r-uniffi` (pure). The owner checks of
`RootValue` (which instance an object belongs to) and the bytes behind a claim in
the slot table. The Kotlin and TypeScript front ends. Poisoned mutexes, which
`lock` recovers from.

*Retained values* (`session/retained.rs`): every operation borrows the session
exclusively, and `write_retained`, which evaluates code between a check and a
replacement, checks again. What is left is one actor and a map.

*Contexts and handler stacks* (`sexp/context.rs`): which context a jump ends in is
part of R's semantics, as is the `on.exit` code that runs on the way; `Evaluation`
has the part that is the port's own, what native frames undo.

*Arena pages and payload leases* (`memory/arena.rs`, `slab.rs`, `page_store.rs`):
their bytes follow one owner each and are charged and released with it on the
interpreter's thread; the counters they share with everybody are `MemoryLedger`.

*Promises made with their value* (`R_mkEVPROMISE`, with `gp` 1 and a value) are never
admitted to forcing; native code that sets a promise's value itself does so on
promises it has just made.

*GC callbacks, the teardown of a session by its own finalizer, and the counters
that decide which collection a safe point makes*: the model lets any collection
come at any safe point. *ALTREP* classes are registered once and never change,
and its guard against re-entry is the one of promises. *Output capture* nests like
scopes.

## 6. What could come next

GC callbacks, once it is decided whether they may collect during a torture
collection; several instances in one process with owner checks; the liveness of
the session with a host that calls back into it from a callback.
