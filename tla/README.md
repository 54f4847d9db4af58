# senders_receivers in TLA+

Specifications of the Rust crate `senders_receivers` (0.0.8), with TLC models and
TLAPS proofs.  Paths like `scope.rs:76` are relative to `src/src/`.

A program built with the crate is a chain of *senders*, connected to a
*receiver* and started.  Each receiver is promised exactly one of three signals,
value, error or done.  Most of the adaptors are stateless functions on signals,
and one module has them all.  What is hard is the code between them that shares
state among threads, erases lifetimes, or has somebody wait for somebody else:
each part of it has a module of its own.

## 1. The system

| component | state | operations | interacts with |
|---|---|---|---|
| scope (`scope.rs`, `scope/`) | a count of pointers, a panic flag, a one-shot notify function | `scope`, `scope_send`, `detached_scope`, `wrap`, `wrap_send`, clone and drop of the pointer, `run` | every scheduler that boxes a receiver; `sync_wait` blocks in it |
| nested scope (`scope/receiver.rs`, `refs.rs`) | a reference count, an assigned signal, the receiver | `new_scope`, `set_*`, `forward`, drop | `let_value`, and the outer scope |
| stop source (`stop_token/`) | a flag, a mutex around callback slots | `request_stop`, `token`, `callback`, `detach`, drop, `From<StopToken>` | `ensure_started`, `when_all`, `stop_if_requested` |
| split (`split.rs`) | the operation state, the completion, the callbacks, each behind a mutex or `RefCell` | clone, `start`, `set_*` of the completion receiver | schedulers, scope |
| ensure_started (`ensure_started.rs`) | a state Pending / Signal / Attached behind a mutex or `RefCell`, a stop source | `ensure_started`, `connect`, `start`, `set_*` | start_detached, stop source, schedulers |
| start_detached | whether its receiver was completed | `start_detached`, `set_*`, drop | the pools' `execute` |
| worker (`embarrasingly_parallel/`, `sync/`) | two queues, a sender count, a wakeup, an event loop | `execute`, `run`, `run_one`, clone and drop of pools | ThreadPool, any chain |
| thread pool (`embarrasingly_parallel/pool.rs`) | a vector of workers behind a mutex | `set_thread_count`, `execute`, `execute_all`, `join`, `schedule` | worker |
| sync_wait | a channel of one place | `sync_wait`, `sync_wait_send` | scope |
| when_all, transfer_when_all | a countdown, the parts that came, a stop source | `connect`, `start`, `set_*` of each part | stop source, schedulers |
| let_value, let_done, let_error | none of their own | a second chain, made in a signal | nested scope, scope |
| then, upon_*, transfer, just*, stop_if_requested, functor, tuple | none | signal to signal | |
| io | none | forwards to `std::io` | |

What is hard in each, and what makes it correct:

* **scope.**  Receivers are boxed with their lifetime erased by `transmute`.
  Correct is: the function that owns what they borrow does not return before
  them; it does return; it is woken once; panics are not swallowed.
* **stop source.**  `register`, `deregister` and any number of `request_stop`
  race.  Correct is: every accepted callback runs once when the stop comes, none
  runs after its handle was dropped, and nobody waits forever on the mutex that
  is held around the callbacks.
* **split.**  Any number of clones race to start one chain and to be told of its
  one signal.  Correct is: one start, one signal for each, the same one, and no
  callback left behind; receivers run under a lock, so they must not need it.
* **ensure_started.**  The chain and its client come in either order, a stop may
  come before, during or after `connect`.  Correct is: they meet once.
* **worker.**  Wakeups are coalesced and consumed; the sender count says when to
  stop.  Correct is: no task is forgotten, `run` returns when and only when no
  task is left and none can come, order is kept.
* **thread pool.**  `join` and `set_thread_count` decide who lets go of which
  worker, and when.  Correct is: a worker does not end under those who post to
  it, what was accepted is run, and the threads end with their last user.
* **chains.**  A signal crosses threads while the frames it leaves behind stay on
  their stacks.  Correct is: a value is received on its scheduler, what comes out
  is what the stages say, and who waits is woken, also when a receiver is dropped.
* **nested scope, let_value.**  The second chain borrows the value of the first,
  on several threads; its signal is stored, and the receiver runs when the last
  pointer goes, wherever that is.  Correct is: no code and no reference outlives
  its scopes; signals and panics get out through all of them; they end.
* **when_all.**  Parts complete in any order on any thread, error before done
  before value; a failing part stops the others, in a call that holds the mutex of
  their stop source, and the others may complete inside that call.  Correct is: all
  are waited for, the outcome is the right one, and a failure gets to all of them.

`PROJECT.json` has the full list of hazards, each at its line, with the
properties that would catch it.

## 2. The modules

| module | what it is |
|---|---|
| `Scope` | the scope functions and their wrapped receivers |
| `NestedScope` | `let_value`, to any depth, and the nested scopes it lives in |
| `StopSource`, `MCStopSource` | stop sources in chains |
| `Rendezvous` | abstract: a signal and a receiver that come in either order meet once |
| `Split`, `MCSplit` | the shared chain; each client is a Rendezvous |
| `EnsureStarted`, `EarlyChain` | the early started chain and its late client, a Rendezvous; and the same under names that can stand beside those of `Chain` and `Split` |
| `MCRendezvous` | `Split` with the clients of `MCSplit`, or `EnsureStarted`, for one run: the initial state says which, and only that one moves and is fair |
| `Join` | abstract: what a join of senders promises |
| `WhenAll` | `when_all` and `transfer_when_all`, a Join |
| `TaskQueue` | abstract: what a worker promises those who post to it |
| `Worker` | the event loop and the queues of one worker, a TaskQueue |
| `ThreadPool` | the vector of workers behind its mutex; each worker is a TaskQueue |
| `Chain`, `MCChain` | every chain of the stateless senders, over all schedulers, up to sync_wait or start_detached |
| `ScopeProofs`, `NestedScopeProofs`, `StopSourceProofs`, `SplitProofs`, `WorkerProofs`, `ThreadPoolProofs`, `WhenAllProofs` | theorems about the module each is named after |
| `ChainProofs` | theorems about `Chain`, and about `EarlyChain` |

In all of them a step is one access to shared memory: one critical section, one
atomic, one poll.  User code (receivers, callbacks, functions of tasks) is a call
with a beginning and an end, in which it may do what the crate lets it do.
Memory is sequentially consistent; `Scope` says why that is enough there, and
the other modules put everything that matters behind mutexes (the flag of a stop
source, which is relaxed, is read by `register` under the mutex that a sweep
also takes).

Every module has a `TypeOK`.  It is an invariant of each of them; the runs list it
where it bounds a count (`Scope`), and otherwise only what could be wrong in the code.

Definitions whose comment begins with "Wrong variant" are not part of any
specification.  Each is a plausible slip in one definition, and `PROJECT.json`
("mutants") names the property that it breaks.

### Scope

`num_running_threads`, `a_thread_panicked` and `notify` are the fields of
`ScopeDataSend`; `token` is the park token of the thread in `scope_send`, whose
place is `main`.  A wrapped receiver is in `closure`: *ready* until a signal,
then *running*, perhaps *unwinding*, *returned* when only its captured pointer is
left, and *gone*; or *dropping*, when it is discarded without a signal.  The
single-threaded `scope` is the special case in which no closure is called by
`Pool`.  `Keepers` are receivers with a clone of the scope in a field, as those
of transfer, let_done, upon_error and split.

* `CountIsPointers`: the counter is the number of pointers, at every step.
* `ReceiversWithinScope`: Main does not leave while a receiver is ready or runs.
* `NotifiedOnce`: the `expect` in the last decrement holds.
* `PanicReported`: a value is returned only when nobody has panicked.
* `ScopeReturns`: no wakeup is lost.

A discarded closure drops its pointer before its receiver (`Discard`, then
`DropReceiver`), so the drop of a receiver may come after the scope's end.  The
properties promise the scope to code that runs, not to drops.

### NestedScope

Level 0 is a scope function; level k is a `let_value` in the chain of level k - 1.
`stack` holds the calls of each thread: the body, the frames of `set_value`, the
closures that chains have wrapped, and the runs of `ScopeData`'s drop.  `ptrs`,
`flag` and `signal` are the count, the panic flag and the stored signal of each
scope.  `rcv` says where the inner receiver is: with its *chain*, *stored* in the
next scope as a part of that one's receiver, or *gone*.  `refs` counts the
references to the value, which share one pointer to the scope and stay on the
thread of `home`, not being `Send`.  `delivered` is what became of the receiver
around each scope.

What code owns nobody writes down: `NothingLeftBehind` says that a call ends only
when what it alone can own has been dropped.  The drops themselves are separate
steps, in any order.  The code of a chain may be left in any state: it may panic
anywhere, wrap closures that are called or discarded, signal or not.

* `NothingDangles`: code runs, and closures wait, only inside living scopes; a
  reference does not outlive its value.
* `PanicReported`: a panic at any depth gets out to the outermost scope in time.
* `SignalPassedOn`: each receiver gets the signal stored for it, or is dropped if
  there was none, or a panic.  The exception is real: after a panic the fields
  `outer_state` and `rcv` go in this order, so the outermost receiver may be
  dropped when the scope function is already free to return.
* `ScopesEnd`: the pointers of scopes and receivers to one another are no cycle.

What traits.rs:17 says of receivers ("while running on the [Scheduler]") does not
hold here: the receiver of a `let_value` runs where the last pointer is dropped,
perhaps with the scheduler of a pool on the thread that called `set_value`.

### StopSource

`stack` holds the calls each thread is in, so that a stop may run down a chain of
sources, holding the mutex of each.  Slots are never removed.  Callbacks are user
functions, or links to another source (`From<StopToken>`, and what
`ensure_started` registers).  No callback uses its own source again here.  One that
does deadlocks on the mutex; the `Wrap` of `when_all` may bring it there, so that
case is in WhenAll.

* `CalledOnce`, `NotAfterDrop`, `SlotsStayPut`: over all interleavings of
  sweeps, drops and registrations.
* `StopReachesAll`: an accepted callback is never lost between flag and sweep.
* `StopReturns`: `request_stop` returns, down a chain too.

### Split

The frames of `stack` are the calls start, chain, callbacks and receiver.  `local`
tells a `Split` from a `SplitSend`, and either may be an initial state: the same
steps on one thread, where a second borrow panics and a panic poisons nothing.  A
value for a late client goes through the chain's scheduler: at once, under the
lock, or posted.  A scheduler that would send an error or done in place of the value
(`WrapValue::set_error`, `set_done`) is left out: none of the crate does.

* `ChainStartedOnce`, `SameSignalOnce`, `NoLostCallback`.
* `ClientMeetsSignal`: the observed client implements `Rendezvous`, under
  fairness: it gets the signal once both are there, unless a panic has dropped
  its receiver.  The observed client is the one that may panic, and that in a
  `Split` is started from another's receiver.
* `NoSelfDeadlock` holds when the receivers of a `SplitSend` start no other clone;
  when they do (`SendReenters`) it is violated: `ReceiverWrapperSend::invoke` keeps
  the state locked while the receiver runs.  The comment at split.rs:792 shows that
  this was to be avoided, and for the start of the chain it is.
  In the single-threaded split the same re-entrance panics in `borrow_mut`; the
  chain's signal is never lost to it, as `NoLostCallback` says too.

### EnsureStarted

`signal` is the state with its `Option`; `chain` and `client` are the two sides,
`stopper` and `linked` the stop.  The panics and expects of the state machine are
unreachable (`ExpectationsHold`), a stop gets through whenever the client was
connected (`StopReachesChain`), and the two sides implement `Rendezvous`
(`MeetsSignal`).  `EarlyChain` is an instance of it, in which they are checked and proved:
`state` is the `signal`, `started` the `chain` and `taken` what the client `got`.
Its states and those of `Split` are checked in one run, `rendezvous`, side by side and
not as a product: they share nothing.  When the chain calls the client's receiver and
it panics, the unwinding drops an uncompleted `DiscardingReceiver`, whose drop panics:
the process is `aborted`, and the liveness properties except it.

### Worker

`xtc` and `stc` are the two queues, `cnt_sender` the senders of the first,
`woken` the event left for the poll.  Both ways of use are initial states: a
thread of its own, or an owner who calls `run` and `run_one` and has a pool too.
A poll may return with an event that nobody sent (`SpuriousEvent`): events are
hints, and `run` and `run_one` look at the channel to know.

* `SendersCounted`: pools, queued tasks and the running task own the senders.
* `ReturnsDrained`: what worker.rs:103 says of `run`.
* `SentOrderKept`: first come, first run, through both queues.
* `AssertHolds`: the assertion of `run` holds.
* `ServesQueue`: the worker implements `TaskQueue`, under fairness: every task is
  run, `run` returns when nobody can post any more, so no wakeup is lost, neither
  for a task nor for the end.  A worker that is `Stalled` counts as one that nobody
  serves: it is in `run` after a `run_one` that has consumed the last event, see
  `WaitEnds`.
* `WaitEnds` does not hold: `run_one` consumes the only event that says
  Disconnected, and the next `run_one(true)` waits for ever.

`AssertHolds` excepts `run_one(false)`: with nothing to do it fails its assertion,
where worker.rs:132 says that it returns `false`.

### TaskQueue and ThreadPool

`TaskQueue` is the contract between the two: `handles`, the tasks that are
`pending` or `running`, and the `mode`.  `Worker` implements it, and `ThreadPool` has
one for each of its workers, so that neither has to be checked with the other.

`threads` and `pending_joins` are the fields of `ThreadPoolState`; a worker is its
number, and `Handles` counts the uses that keep it alive.  The mutex is `poisoned`,
or held for several steps by the `job` of set_thread_count or join; the other calls
are one step each.  `owners` have a clone of the pool, and a task may be one: it
then calls the pool from a worker's thread.  `cross` counts the handles that other
threads have of a worker.  A panic with the mutex locked poisons it, or aborts the
process if the chain was a detached one.

* `WorkersAreQueues`: each step is one of a TaskQueue, for every worker, or changes
  nothing of it.  So posts come from those who may make them, also while
  set_thread_count and join take workers away.
* `PoisonExplained`: only an empty pool or a task's panic poison the mutex; a send
  to a worker that is in the pool does not find it gone.
* `TasksRun`: accepted tasks run, also in workers that have left the pool; except
  those of a worker where a task panics, or where a task calls a pool that is
  being joined, and so waits for the join that waits for it.
* `ThreadsEnd`: when the last owner and the last handle are gone, so are the threads,
  though queued tasks may own the pool.
* `ShrunkIsJoined`: join comes back when it waits for threads that left the pool, and
  nobody else keeps them.
* `JoinReturns` does not hold: while join waits for a thread of the pool, the
  pattern `while let Some((_, h))` keeps the `CrossThreadPool` next to it, and so the
  thread.  The first loop of join never gets past its first thread.

### Chain

`chain` is a source and its stages, `rest` what the signal has still to go through,
`at` the thread that has it, or the queue it is in.  `frames` are the threads with a
receiver of the chain on their stack: Main cannot leave its scope before them, and
a worker cannot take the next closure.  A value comes with `on`, the threads of its
scheduler; which schedulers a stage may have follows from the types (`Types`).  A
function returns, fails or panics, as its stage says.  `Chains` are those of the
program: any that the types allow (`ChainAssumption`).  `MCChain` takes all of them
that are a source and two stages, at each of the three ends.

* `ValueOnItsScheduler`: what traits.rs:17 says of receivers.
* `OutcomeIsTheChains`: what comes out is the last of the signals that the stages make
  one after the other, each by `Effect`, the algebra of the stages; whatever threads the
  chain went through, panics included.  A stop is heeded from some stage on.
* `WaitEnds`: sync_wait comes back, also after a panic on another thread and when a
  queue is dropped; not when it waits for a task of its own thread, nor for one that
  was leaked with a worker (see Worker).

### WhenAll

`split` holds the nested pairs, `at`, `level` and `carry` say how far each part has
come and what it brings, `next` and `inline` are the operation state that starts
the parts one by one.  `transfer` tells `transfer_when_all` from `when_all`.  A part
may run in its start, elsewhere, or die.

The parts share a stop source: its flag is `stopped`, and `holder` has locked the
callbacks, which run one by one until the holder unlocks them.  A lazy part registers
one, and ends when it was told to (or when it was refused, the stop having come
before): on its own, or inside the callback, in the call of the part, or of the
receiver's token, that sweeps.  `InCallback` are the signals that it may send there.
A value is passed on.  With done or an error its `Wrap` requests the stop again, and
waits for the mutex that its own thread holds (when_all.rs:576, stoppable.rs:128).
Callbacks do not panic, and are detached: a part that drops its handle inside its own
callback waits for that mutex, too.

* `JoinsAll`: the pairs implement `Join`, under fairness: everybody is waited for,
  error before done before value, values in the order of the parts.
* `AssertsHold`: the panics and expects in the pairs are unreachable, so the locks
  that a part holds while it goes on are never waited for.
* `FailureEndsAll`: a failure or a stop reaches every part, started or not, if parts
  send no more than a value from their stop callbacks, and so the join ends.  It does
  not hold with `InCallback = {"done"}`: the part that sends done from its callback
  hangs, and everybody has sent but no result ever comes, which is against the fairness of
  `JoinsAll` as well.  No sender of the crate completes in a callback; those that users
  write may: the documentation of `stop_token` offers callbacks for just that, and
  when_all.rs:18 promises that the others can terminate early.
* `LateErrorLoses`: the part that ends the join does not overwrite an error.

"The first received error is forwarded" (when_all.rs:18) does not hold for three
parts: a pair keeps its error until both its sides are through, and a later error of
the next part gets to the outer pair first.

## 3. The runs

| run | bounds | distinct states | result |
|---|---|---|---|
| `scope` | 3 wrapped receivers, one keeps a clone; Main, a pool, the receivers themselves as callers | 26 386 | holds |
| `nested_scope` | 2 threads, 2 levels, 2 closures, 2 references to a value | 781 179 | holds |
| `stop_source` | 3 threads, 2 sources, 4 callbacks (one a link), 2 requests | 334 030 | holds |
| `rendezvous` | split: 3 threads, or 1 for a Split, 3 clients, one may panic, the chain may die; or ensure_started: one chain, one client, one stop, as in the code | 34 802 | holds |
| `split_reentry` | 2 threads, 3 clients | | NoSelfDeadlock violated |
| `worker` | 3 tasks, 2 other threads, tasks may panic | 76 252 | holds |
| `worker_wait` | 2 tasks, 1 other thread | | WaitEnds violated |
| `when_all` | 4 parts, 2 of them lazy, which may send a value from their callback; parts may die | 595 262 | holds |
| `when_all_reentry` | 2 parts, one lazy, which may send done from its callback | | FailureEndsAll violated |
| `thread_pool` | 2 workers, 2 users, 2 tasks, 2 calls besides posts, 1 other handle of each worker | 200 212 | holds |
| `pool_join` | 1 worker, 1 user, 1 task | | JoinReturns violated |
| `chain` | all chains of a source and 2 stages; Main, 1 pool thread, 2 workers | 733 537 | holds |

Why these bounds: every race in the code is between two parties and a third that
comes late (two starters and a completion, two sweeps and a drop, a sender and
the last drop beside the worker), so three of each actor show them all; two
sources are a chain; four parts of a join make an innermost, a middle and a
last pair; with three tasks a queue has a first, a middle and a last.  Two levels
of nested scopes have one whose receiver is inside another and one whose receiver
is outside; each level's `let_value` runs once, and done is an error there, which
every receiver of the crate passes on alike.  In ThreadPool two calls are a resize or a post to all and a join that races with it,
of two users or of a user and a task; with two workers one has left the pool while
the other is in it.  In Chain a source and two stages are every pair of neighbours,
and a first stage that hands over what the source made; two workers are a queue that
dies beside one that lives.  `MaxWorkers`, `MaxCalls` and `MaxHandles` of ThreadPool,
`MaxRefs` and `MaxClosures` of NestedScope, `MaxRequests` of StopSource and the sets of closures, callbacks, clients and tasks
(each used once) bound the runs.  Deadlock is not checked, since all of these
systems come to rest; the liveness properties say when they may.

Fairness is that of threads: one that is inside the crate's code goes on, and a
mutex is not withheld from one that alone waits for it (in WhenAll each part locks
the callbacks twice at most, to register and to stop).  Where a property needs
it, receivers and callbacks return, chains send a signal, and schedulers run what
they accepted (the contracts of `traits.rs` and `scheduler.rs`).  Nothing is
assumed of when, or whether, users start, stop, drop or post, nor of spurious
wakeups; of the code in the chains of NestedScope nothing is assumed at all.
ThreadPool and Chain have one fairness condition each, for all the threads together:
each of their steps brings a call or a signal forward and the bounds make them
finitely many, so none can starve another.  A task in ThreadPool returns and drops
what it owns; a user need neither call nor drop anything.

## 4. What is proved

TLAPS checks what follows for every value of the constants: any number of threads,
receivers, clients, callbacks, tasks, workers or parts, any depth of nesting, chains of
any length, any interleaving.  Each theorem rests on the named `ASSUME` of its module
alone, which says what the constants are; the one that assumes more is marked.  Fairness
is used nowhere.

Every safety invariant of the runs is a theorem, and so is the safety part of each
refinement.  None of these properties is inductive by itself, so each module of proofs
begins with an invariant that is; TLC has checked it too, before it was proved.  The
steps of the proofs are one lemma per action.

| module | theorem | states, for `Spec` |
|---|---|---|
| `ScopeProofs` | `TypeCorrect` | `[]TypeOK` |
| | `CountCorrect` | `[](TypeOK /\ CountIsPointers)` |
| | `ScopeOutlivesReceivers` | `[]ReceiversWithinScope` |
| | `NotifyIsTakenOnce` | `[]NotifiedOnce` |
| | `PanicIsReported` | `[]PanicReported` |
| `NestedScopeProofs` | `NothingEverDangles` | `[]NothingDangles` |
| | `PanicGetsOut` | `[]PanicReported` |
| | `SignalIsPassedOn` | `[]SignalPassedOn` |
| `StopSourceProofs` | `FunctionsAreCalledOnce` | `[]CalledOnce` |
| | `NoCallAfterDrop` | `[]NotAfterDrop` |
| | `StopReachesEveryCallback` | `[]StopReachesAll` |
| | `SlotsNeverMove` | `[]SlotsStayPut` |
| `SplitProofs` | `ChainIsStartedOnce` | `[]ChainStartedOnce` |
| | `SignalIsTheSameOnce` | `[]SameSignalOnce` |
| | `NoCallbackIsLost` | `[]NoLostCallback` |
| | `NoThreadLocksItselfOut` | `[]NoSelfDeadlock`, if `SendReenters = FALSE` |
| | `ClientMeetsSignalSafely` | `Rendezvous` is implemented, but for its fairness |
| `WorkerProofs` | `CountIsRight` | `[]SendersCounted` |
| | `RunReturnsDrained` | `[]ReturnsDrained` |
| | `TasksKeepTheirOrder` | `[]SentOrderKept` |
| | `RunFindsATask` | `[]AssertHolds` |
| | `ServesQueueSafely` | `TaskQueue` is implemented, but for its fairness |
| `ThreadPoolProofs` | `PoisonIsExplained` | `[]PoisonExplained` |
| | `WorkersServeQueues` | `WorkersAreQueues` |
| `WhenAllProofs` | `AssertsAlwaysHold` | `[]AssertsHold` |
| | `LateErrorsLose` | `[]LateErrorLoses` |
| | `JoinsSafely` | `Join` is implemented, but for its fairness |
| `ChainProofs` | `ValuesOnTheirScheduler` | `[]ValueOnItsScheduler` |
| | `OutcomeIsAlwaysTheChains` | `[]OutcomeIsTheChains` |
| | `ExpectationsAlwaysHold` | `[]ExpectationsHold`, for `EnsuredSpec` of `EarlyChain` |
| | `MeetsSignalSafely` | `Rendezvous` is implemented by `EnsureStarted`, but for its fairness |

The arguments, and what each inductive invariant adds:

* **Scope** (`ScopeInv`).  Main leaves on reading zero, and zero means that no pointer
  is left, hence no closure that is ready or running: so the count must be right.
  `PanicReported` needs that a panicked receiver holds its pointer until the flag is
  set; `NotifiedOnce`, that zero is never left: a clone needs somebody who executes,
  and who executes owns a pointer.  The arithmetic is in lemmas on how the sets of
  holders change with one closure (`HoldersMove`, `CountByMove`, `CountByMain`).
* **NestedScope** (`NestInv`).  The count of a scope is that of the frames, closures,
  references and receivers that hold it, and one more for the data of the next scope,
  which has a pointer to it (`CountInv`); so a scope lives in living scopes (`LivingInv`),
  and nothing dangles.  A scope at zero has one frame that drops its data, once
  (`DropOnce`, `SettledInv`), and that frame calls the receiver with what was stored
  (`DeliveredInv`).  A panic is always marked in the outermost scope, or in a scope
  whose drop will mark the one outside it, or in a frame that will catch it
  (`PanicInv`).  The counting is in the lemmas on frames: what a call, a return and a
  turn of the top of a stack change (`HoldersMoved`, `HoldersCount`, `TurnCounts`).
* **StopSource** (`StopInv`).  A sweep has the mutex of its source, and no two sweep the
  same one (`SweepInv`); a function runs from a sweep of its source or was refused
  (`RunsInv`), so that who has the mutex to deregister knows that it does not run; and
  once the flag is set, some call in progress will come to each slot that is left
  (`ReachInv`): between the store of the flag and the sweep, too.
* **Split** (`SplitInv`).  Each client has one ticket at most, in the list of callbacks,
  in a posted task or in a frame, and none after its signal (`TicketInv`, `CarryInv`);
  the list is empty from the completion on (`ChainInv`).  `NoReentryInv` says in which
  frames the state is locked.  `NoSelfDeadlock` is only promised if receivers of a
  `SplitSend` start no other clone: the run `split_reentry` shows that it is needed.
* **EnsureStarted** (`EnsureInv`).  Where the two sides are says what is in the state.
* **Worker** (`WorkerInv`).  `SendersCounted` is at the core: the last sender gone means
  that nobody can post, so `run` may return.  For the order, `LineInv` puts the tasks
  that have run, `stc` and `xtc` in one line that keeps the order of `sent`; a batch moved
  from one queue to the other does not change it.
* **ThreadPool** (`PoolInv`).  A worker is once in the vector or with a join (`OneHandle`),
  and one that has ended has no handle (`NoUseIsLate`): hence a send to a member of the
  pool finds its worker, and each worker is used as a `TaskQueue`.
* **WhenAll** (`JoinInv`).  Of the parts on one side of a pair one at most gets to it
  (`Sole`), and it carries an outcome of them all (`CarryInv`); a pair is blank, or keeps
  one signal, or is through (`SplitsInv`).  It is for any number of parts that the
  outcome is one that `Join` permits.  Nothing is assumed of `InCallback`: a join that
  hangs in a callback has no outcome, but no wrong one either.
* **Chain** (`ChainInv`).  There is a sequence of signals, one per stage, of which the
  first p are those that `Follows` speaks of, where p stages are done (`Progress`).  What
  is left is the chain from p on, perhaps with a function in front that was scheduled and
  will make the last of them (`Underway`); so no induction over the chain is needed: each
  step adds a signal (`OneMore`), and a panic all the others (`PanicLasts`).  A value comes
  with threads that fit the type of its stage (`Fits`), which is what a lazy scheduler
  relies on.  A stop that comes now is heeded from stage p + 1 on, so it changes none of
  the signals so far (`RequestStopKeeps`).  `MainInv` and `StayInv` say that a receiver
  is never called after Main has returned, and that in `sync_wait` nothing leaves its
  thread: an outcome is therefore written once.

Only model-checked: liveness, which these provers cannot reach, as they know no ENABLED:
`ScopeReturns`, `ScopesEnd`, `StopReturns`, `StopReachesChain`, `FailureEndsAll`,
`TasksRun`, `ThreadsEnd`, `ShrunkIsJoined`, `WaitEnds` of Chain, and the fairness of the
abstract specifications in `ClientMeetsSignal`, `MeetsSignal`, `ServesQueue` and
`JoinsAll`.

## 5. Not modelled, and why

* what `io::Write` writes and how its references share a buffer: the behaviour is
  that of the operating system, and the references are those of NestedScope;
* the tuple and trait machinery (type-level), formatting of errors;
* overflow of the scope's counter at 2^63, panicking stop callbacks, callbacks that
  use their own stop source in another way than through `when_all`, schedulers that
  send an error or done, failure of the operating system's poll;
* in Chain, what an adaptor with shared state in the middle of a chain does: split,
  ensure_started, when_all and let_value have modules of their own, each of which
  leaves the chain around it open;
* in ThreadPool, the order of tasks (see Worker), and Worker::start when it fails
  half-way through a thread's creation.
