# setup_read_cleanup: a verification project

The crate provides *phased cells*: containers whose data is built in a **Setup** phase, shared
without locks in a **Read** phase and taken down in a **Cleanup** phase. This directory holds TLA+
models of the cells, the TLC runs that check them and the TLAPS proofs about them. Paths are
relative to the repository, `src/src/` being its Rust sources.

Contents: [the system](#the-system) · [the modules](#the-modules) · [the runs](#the-runs) ·
[the proofs](#the-proofs) · [what the checks found](#what-the-checks-found) ·
[not modelled](#not-modelled) · [plan](#plan)

## The system

| Component | State | Operations | Hard part | What makes it correct |
|---|---|---|---|---|
| Phases and errors (`phase.rs`, `errors.rs`, `lib.rs`) | six `u8` codes: three stable, three transitional | `u8_to_phase`, error kinds | none alone; every cell uses them | a transitional phase has one owner, and the public phase never goes back |
| `PhasedCell` (`phased_cell.rs`) | atomic `phase`, `data_cell` | `read`, `read_relaxed`, `transition_to_read`, `transition_to_cleanup`, `get_mut_unlocked`, `phase` | memory ordering: the phase is the only synchronisation | closures never overlap; who changes or reads the data happens after earlier changes |
| `PhasedCellSync`, `StdMutexGuard` (`phased_cell_sync.rs`) | `phase`, `data_mutex: Mutex<Option<T>>`, `data_cell: Option<T>` | the transitions, `lock`, `try_lock`, `read`, `read_relaxed` | the phase is tested before the mutex is locked; poisoning; failing and panicking closures | exclusive change, data always in the one Option its phase looks at, poisoned data never readable, results true when returned |
| `GracefulPhasedCellSync` (`graceful/phased_cell_sync.rs`) | the same, with `graceful_counter`, `graceful_mutex`, `graceful_condvar` | the same, with `finish_reading`; `read` waits for Read, a cleanup waits for the readers | lost wake-ups, time-outs, the counter, two mutexes | no forgotten sleeper, a wait ends well only when drained, all else as in `PhasedCellSync` |
| `GracefulPhasedCell` (`graceful/phased_cell.rs`) | `PhasedCell` with the counter and the condition variable | as above, with `get_mut_unlocked` | as above, with no data lock | as above |
| `PhasedCellAsync`, `TokioMutexGuard` (`phased_cell_async.rs`) | `PhasedCellSync` with tokio's mutex | `transition_to_*_async`, `force_to_*`, `lock_async`, `try_lock` | cancellation at an await; `try_lock` failures inside a transition | a transition that ends leaves a stable phase with its data in reach |
| `GracefulPhasedCellAsync` (`graceful/phased_cell_async.rs`) | the same, with a counter and `tokio::sync::Notify` | as above, with waits | a notification between a test and `notified()` | no lost wake-up |

The cells do not call each other: each is a component of its own with the same outline. What
interacts are the *threads* that share one cell: through the atomic `phase` (one `compare_exchange`
or `fetch_update` opens a transition, another closes it), through `data_mutex`, through the swap of
two `Option`s that hands the data from the mutex side to the lock-free side and back, through the
counter and the condition variable, and through the user's closures, which run inside a
transition and may succeed, fail or panic.

## The modules

| Module | Models | Notes |
|---|---|---|
| `Phase` | `phase.rs`, the error kinds, refusals shared by all cells | pure operators |
| `Lifecycle` | no code: the abstract promise of every cell | variables `phase` and `owner`; in `AbandonableSpec` the owner of a transition may also vanish. It states what a caller of any cell may rely on (`FollowsTheGraph`, `NeverGoesBack`, `NeverTakenOver`, `AbandonedForEver`) |
| `PhasedCellSync` | `phased_cell_sync.rs` | the core |
| `PhasedCell` | `phased_cell.rs` | adds release/acquire visibility |
| `PhasedCellAsync` | `phased_cell_async.rs` | reuses the actions of `PhasedCellSync` (`Cell!A`) where the code is the same line by line; its poison flag stays `FALSE` |
| `GracefulPhasedCellSync` | `graceful/phased_cell_sync.rs` | `PhasedCellSync`'s actions with the counter, the condition variable and its mutex |
| `GracefulPhasedCell` | `graceful/phased_cell.rs` | `PhasedCell`'s transitions and memory ordering (`Cell!A`), `GracefulPhasedCellSync`'s waits (`W!A`), and how the two fit together |
| `GracefulPhasedCellAsync` | `graceful/phased_cell_async.rs` | `PhasedCellAsync`'s steps (`Base!A`) with the counter and `tokio::sync::Notify` |
| `UnitTestScripts`, `UnitTests` | the unit tests at the end of the six source files | the tests as scripts of threads, and the six cells' models run under them |
| `LifecycleProofs`, `PhasedCellSyncProofs`, `PhasedCellProofs`, `PhasedCellAsyncProofs`, `GracefulPhasedCellSyncProofs`, `GracefulPhasedCellSyncRefinement`, `GracefulPhasedCellProofs`, `GracefulPhasedCellAsyncProofs` | | the theorems, [below](#the-proofs) |
| `MCGracefulPhasedCellSync`, `MCGracefulPhasedCell`, `MCGracefulPhasedCellAsync`, `MCPhasedCellAsync` | | symmetry, the restriction of the liveness run, the bound of the asynchronous graceful run; the other modules are checked as they are, with the constants of their `.cfg` |

How they are stacked:

    Lifecycle <-- PhasedCellSync  <-- GracefulPhasedCellSync
    Lifecycle <-- PhasedCell      <-- GracefulPhasedCell
    Lifecycle <-- PhasedCellAsync <-- GracefulPhasedCellAsync
    (abandonable)

Every arrow is a refinement that a run checks. The mapping of the first column: `owner` is the
thread between opening and closing its transition. Of the second (`pcBar`, `callBar`, `oldBar`,
`resBar` in each graceful module): a waiting reader has not called yet, a waiting cleanup is about to
take its next ordinary step, counting and notifying do not show, and a reader whose time is up is
one that was refused, or never called. So nothing of what the plain cells promise is lost in the graceful
ones, the memory ordering of a reader that has waited included.

### Conventions

* Every thread runs one method at a time; `pc[t]` is where it is, `call[t]` the method, `old[t]`
  the phase the method loaded, `res[t]` what it returns. Any method may be called at any time.
* A step is one access to shared state. The acquisition of `data_mutex` is merged with the tests
  made under it before anything else is shared, as nobody can tell the difference.
* A closure is one step with three outcomes: `Ok`, an error, a panic. It works on its data
  only: it does not call the cell it runs in.
* The data is `"Some"` or `"None"` in each Option: what the properties need is where it is.
* `StdMutexGuard` poisons the mutex when its holder panics; closures do not, as the code catches
  their panics first. `graceful_mutex` is never poisoned: nothing can panic while it is held.
* The models interleave atomic accesses. For the single variable `phase` this loses nothing: a
  load that returns an older value is that load done earlier. What ordering adds, visibility of
  the *data*, is the subject of `PhasedCell`: `synced` is the set of threads that happen after the
  last write to the data, and `published` says whether who acquires `phase` joins it.
* `Returned(t)` in `GracefulPhasedCellSync` is what the caller of a cleanup gets: `result_w?`
  comes before the closure's result, as in the code.
* In `PhasedCellAsync` the places `"lock"` and `"run"` of an `async` method are its two awaits, where
  `Cancel` may drop its future. `forced[t]` marks the transitions of `force_to_read` and
  `force_to_cleanup`, which have the same steps with `try_lock` in place of `lock` and no await. The
  constant `Allowed` says which accidents an instance has (a cancelled transition, a closure that panics
  before it returns its future, a forced transition that finds the mutex locked); the history variable
  `accidents` says which have happened. The order in which tokio's mutex serves its waiters is left
  open. It knows no poison, so a panicking guard holder just drops its guard.
* In the lock-free cells `get_mut_unlocked` is used as its Safety section demands: nobody else is
  inside the cell meanwhile, which takes some synchronisation outside it. Only accesses to `phase` pass
  the data on in `GracefulPhasedCell`; its `graceful_mutex` and counter do order more, and leaving that
  out can only make fewer threads `synced`.
* `tokio::sync::Notify` is what its use here needs: `notify_waiters` makes every existing `Notified`
  future ready and keeps nothing for those to come. `"wait"` is the place between the failed test and the
  creation of the future; a task whose future is ready and not polled yet is at `"woken"`, where it can still be
  dropped (`CancelWait`). Two more accidents belong to it: `"missed"`, a notification sent while a task is
  at `"wait"`, and `"surplus"`, a `finish_reading` without a `read`.
* A time-out may come at any moment of a wait: there is no clock. In the synchronous cells it is noticed
  in the loop, after the test of what is waited for; the asynchronous ones do not test again.
* A definition whose comment starts with "Mutant of" is no part of the model. It is a plausible bug,
  kept next to the definition it mutates, with which the named property was seen to fail.

### Fairness

`PhasedCellSync!FairSpec`: weak fairness of `Progress(t)`, the steps a thread takes once it is
inside a method, and the drop of a guard. Closures return and the scheduler runs every thread.
Nothing is assumed about when methods are called nor how long a reader keeps its `&T`. The weak
form is enough: whoever opened a transition stands alone before the mutex after finitely many
lockers, since a transitional phase lets no new ones in. That much is proved, as `TransitionsWindDown` and
`TransitionsCanMove` ([below](#the-proofs)).

`GracefulPhasedCellSync!Fairness` adds two things. Strong fairness of the steps that take
`graceful_mutex`: weak fairness alone lets a notifier starve, since its mutex is free only now and
then while other threads repeatedly fail to reach Read and wake their readers. And weak fairness of
`finish_reading` after a `read`, the contract on which a graceful cleanup rests. Time-outs are
switched off in the liveness run (`TimeoutsFire = FALSE`): whatever ends there, ends by
notifications alone.

## The runs

TLC explores each instance completely. Unless said otherwise there are three threads: the smallest
number with two parties to a transition (its owner, and a locker or reader that saw the earlier
phase) and a third that interferes with both. Threads are interchangeable and reduced by symmetry in
the graceful runs and in `PhasedCellAsync`, except where liveness is checked.

| Run | Shows | States | Expect |
|---|---|---|---|
| `PhasedCellSync` | `ExclusiveMut`, `ReadPhaseIsImmutable`, `ReadersMeetOnlyCleanup`, `DataHome`, `ImpossibleCase`, `PoisonNeverRead`, `TruthfulResults`; `Inv`, the inductive invariant of the proofs; `ImplementsLifecycle`; `TransitionsEnd` under `FairSpec` | 249,641 | pass |
| `PhasedCell` | `ExclusiveMut`, `MutatorSeesAll`, `ReadersSeeSetup`, `Inv`; `ImplementsLifecycle` with no lock | 56,050 | pass |
| `PhasedCellAsync` | with every accident: `ExclusiveMut`, `TruthfulResults`, `MutexReleased`, `Inv`; `DataHome` and `WedgedOnlyByAccident`, what an accident can and cannot ruin; `TransitionsWindDown`; `ImplementsAbandonableLifecycle` | 178,779 | pass |
| `PhasedCellAsync_forced` | two tasks: `RefusedDuringTransition` fails after a forced transition | | violation |
| `GracefulPhasedCellSync` | `NoLostWakeup`, `NoCircularWait`, `ErrorsLagBehind`, `WaitOkOnlyWhenDrained`, `Inv`, `ImplementsPhasedCellSync`, with time-outs and spurious wake-ups | 456,706 | pass |
| `GracefulPhasedCellSync_liveness` | one thread may call `finish_reading` at will: `TransitionsEnd`, `ReadersAnswered` without time-outs, `CounterBounded` | 57,663 | pass |
| `GracefulPhasedCellSync_alone`, `_panic` | two threads: `CleanupRunsAlone`, `PanicIsResumed` fail | | violation |
| `GracefulPhasedCell` | one thread may call `finish_reading` at will: `NoLostWakeup`, `Inv`; `ImplementsPhasedCell`, its memory ordering included | 89,873 | pass |
| `GracefulPhasedCellAsync` | one accident of any kind: `ForgottenOnlyByAccident`, `WaitOkOnlyWhenDrained`, `Inv`, `ImplementsPhasedCellAsync` | 326,486 | pass |
| `GracefulPhasedCellAsync_wakeup` | two tasks: `NoLostWakeup` fails | | violation |
| `UnitTests` | the scripts of the unit tests hold on the models (`AssertionsHold`), and every script ends; where a script is not its test is listed [below](#the-unit-tests-as-traces) | 3,564 | pass |

Most variables are bounded by the number of threads: the counter counts threads that are reading, so
it never exceeds their number. The restrictions that remain are constants. `Allowed` switches accidents
on or off: all are on in the passing runs, one in each violated one. `MaxAccidents` lets one accident of
a kind happen in a behaviour of `GracefulPhasedCellAsync`, where nobody calls `try_lock` either
(`BoundedNext`): three tasks, a time-out and a surplus call would be out of reach otherwise, and contention
for `data_mutex` is checked in `PhasedCellAsync`. `TimeoutsFire` switches the early end of
condition-variable waits on or off. `Misusers` are the threads that may call `finish_reading` without a
`read`: one in `GracefulPhasedCell` and in the liveness run, none in `GracefulPhasedCellSync`, whose
`WaitOkOnlyWhenDrained` rests on the contract. And the liveness run leaves out `lock`, `try_lock` and `read_relaxed` (`UnlockedNext`), which
never wait on `graceful_mutex`; their competition for `data_mutex` is checked in `PhasedCellSync`.

The type invariant `TypeOK` of each module is the first conjunct of its `Inv` and needs no line of its own
in a run.

`NoCircularWait` says more than that TLC finds no deadlock, which would be a state where *nobody* can
move: every chain of threads waiting for each other goes down in `WaitLevel`, so that no part of the
threads can block each other either. A sleeper waits for threads that may need a mutex, who needs `data_mutex`
waits for one that may need `graceful_mutex` (`transition_to_read` notifies with the poisoned guard still
alive, `graceful/phased_cell_sync.rs:298-303`), and who holds `graceful_mutex` needs nothing. `ErrorsLagBehind`
is about the two loads of the phase in `lock` and `try_lock`, of which the second decides and the first is
named: what an error names may be out of date, but never lies ahead of the cell, and who is told that the data
is gone (`InternalDataUnavailable`) is told so of Setup, after its end. A `lock` that went for `data_mutex`
whatever its second load shows would be told so of Read; that is the property's mutant.

`ReadersAnswered` is conditional on `phase` not being in a transition to Read again and again: a
reader woken by a failed transition may find the next one in progress and go back to sleep, for
ever if the cell keeps failing. The code's 300 ms limit ends such a wait, and nothing else does.

### The unit tests as traces

`UnitTestScripts` has a script for each unit test of the six cells: what each of its threads calls, how
its closures end, which thread waits for which, and what is asserted. `UnitTests` lets the cells' own
next-state relations run, each step being one event of one script or none (`CellStep`). It answers a
question that the other runs cannot: whether the models do what the code is *tested* to do. A result,
a phase or a wait that differed from the code's would fail `AssertionsHold` or end in a deadlock.
And it goes further than the tests: a test's `sleep` is enough for the other threads to come to rest
(`SleepsEnough`), but every interleaving that its sleeps and joins leave open is run.

Four differences from the code's tests are deliberate: the run says nothing of the tests in these points.

* Two readers stand for ten and two lockers for three.
* Tests in which a second transition is refused during a first one start two threads 100 ms apart, or
  not apart at all, and never check which came first; the scripts make the intended one the first.
* `transition_to_cleanup_gracefully_but_timeout` of `GracefulPhasedCell` goes on to call
  `get_mut_unlocked` while readers still hold their `&T`, which is against the Safety section of that
  method. The script stops before that.
* `fail_to_transition_to_read_during_transition_to_cleanup` of the same cell asserts a kind that the code does not
  return (`graceful/phased_cell.rs:1005`, [below](#what-the-checks-found)) in a thread whose end nobody looks at.
  The script asserts what the code returns, `DuringTransitionToCleanup`.

## The proofs

Each cell has an inductive invariant `Inv`, proved for every value of the constants (`Invariance`), and from
it the safety properties that the component's run checks. None of those is
inductive by itself: `DataHome`, say, speaks of stable phases, and to see that a transition ends in one
with the data in place one must know where the data is at each point *inside* the transition. Every
`Inv` is also an invariant of the run. One lemma per action shows it preserved; `InitInv`, `NextInv` and
`Invariance` put them together
(`InitStep`, `NextStep` and `Invariance` in `GracefulPhasedCellProofs` and `GracefulPhasedCellAsyncProofs`).

| Module | Assumes | Proves of the component | Inherits |
|---|---|---|---|
| `LifecycleProofs` | nothing; for the last two, that `Nobody` is no thread | `PhaseFollowsTheGraph`, `PhaseNeverGoesBack`, `OwnersAreKept`, `AbandonedStaysOpen`, `OpenIsOwned` | |
| `PhasedCellSyncProofs` | `ThreadsAssumption`: `Nobody` is no thread | `TypeCorrect`, `ExclusiveAccess`, `ReadIsImmutable`, `ReadersMeetCleanups`, `DataStaysHome`, `ImpossibleCaseIs`, `PoisonStaysOut`, `ResultsAreTruthful`, `OpenTransitionsWindDown`, `OpenTransitionsCanMove`, `NoNewReaders`, `RefinesLifecycle` | `KeepsToTheLifecycle` |
| `PhasedCellProofs` | nothing | `TypeCorrect`, `ExclusiveAccess`, `MutatorsSeeAll`, `ReadersAreSynced`, `ResultsAreTruthful`, `NoNewReaders`, `RefinesLifecycle` | `KeepsToTheLifecycle` |
| `PhasedCellAsyncProofs` | `AsyncAssumption`: `Nobody` is no task, `Allowed` names accidents | `TypeCorrect`, `ExclusiveAccess`, `ReadIsImmutable`, `ReadersMeetCleanups`, `DataStaysHome`, `MutexIsReleased`, `WedgesAreAccidents`, `ResultsAreTruthful`, `OpenTransitionsWindDown`, `NoNewReaders`, `RefinesAbandonableLifecycle` | `KeepsToTheLifecycle`, `WedgesAreForEver` |
| `GracefulPhasedCellSyncProofs` | `GracefulAssumption`: finitely many threads, `Nobody` not among them | `TypeCorrect`, `CounterIsBounded`, `NoWakeupIsLost`, and `CleanupAwaitsReaders` if `Misusers = {}` | |
| `GracefulPhasedCellSyncRefinement` | the same | `RefinesPhasedCellSync`, `NobodyWaitsInACircle`, `ErrorsNameThePast` | `GracefulExclusiveAccess`, `GracefulReadIsImmutable`, `GracefulReadersMeetCleanups`, `GracefulDataStaysHome`, `GracefulPoisonStaysOut`, `GracefulResultsAreTruthful`, `GracefulTransitionsWindDown`, `GracefulTransitionsCanMove`, `GracefulNoNewReaders`, `GracefulKeepsToTheLifecycle` |
| `GracefulPhasedCellProofs` | the same | `NoWakeupIsLost`, `RefinesPhasedCell`, `CounterIsBounded`, `NobodyWaitsInACircle`, and `CleanupAwaitsReaders` if `Misusers = {}` | `GracefulExclusiveAccess`, `GracefulMutatorsSeeAll`, `GracefulReadersAreSynced`, `GracefulResultsAreTruthful`, `GracefulNoNewReaders`, `GracefulKeepsToTheLifecycle` |
| `GracefulPhasedCellAsyncProofs` | `GracefulAsyncAssumption`: finitely many tasks, `Nobody` not among them, `Allowed` names accidents | `ForgettingNeedsAnAccident`, `DrainedBeforeCleanup`, `RefinesPhasedCellAsync`, `NobodyWaitsInACircle` | `GracefulExclusiveAccess`, `GracefulReadIsImmutable`, `GracefulReadersMeetCleanups`, `GracefulDataStaysHome`, `GracefulResultsAreTruthful`, `GracefulTransitionsWindDown`, `GracefulNoNewReaders`, `WedgesAreAccidents`, `WedgesAreForEver`, `GracefulKeepsToTheLifecycle` |

*Inherits* names what follows from a refinement alone: `KeepsToTheLifecycle`, in the six cells, is the
conjunction of `FollowsTheGraph`, `NeverGoesBack` and `NeverTakenOver` of `Lifecycle`. The properties of this
table that no run lists were checked by TLC on the instances of the runs before they were proved.

The arguments:

* **`PhasedCellSync`**, in seven parts: types; which places belong to which method; the mutex is held
  exactly between locking and releasing; a transitional phase has exactly one owner, which knows where
  it came from; where the data is at each place (`DataInv`); a poisoned mutex excludes Read and all
  progress toward it (`PoisonInv`: from a poisoned mutex `transition_to_read` only reverts, and the
  mutex cannot become poisoned in Read, where there are no guards); how results come about (`ResultInv`).
  For the refinement, `OwnerIs`, `OwnerKept` and `OwnerGone` say what the mapped `owner` does; opening and
  closing a transition are abstract steps, and all else stutters. `ReadersMeetCleanups` needs one fact more
  (`ReaderInv`: who looks at the data came in Read, and the phase has not gone back since), which follows from
  `KeepsToTheLifecycle`: only a property of steps shows that a phase that has been Read is not Setup again.
* **`PhasedCell`** has no mutex. `PhaseInv` gives the transition one owner, `AloneInv` says what the
  Safety section of `get_mut_unlocked` buys. `SyncInv` is the heart: outside a transition, either every
  thread happens after the last write, or whoever acquires `phase` does; and the owner of a
  transition always does. So who opens a transition or enters Read has seen everything.
* **`PhasedCellAsync`** is `PhasedCellSync` without poison and with owners that may vanish. `OwnerInv` says
  that there is at most one; `WedgedOnlyByAccident` is part of the invariant and says what must have
  happened if there is none; `DataInv` allows for the data that a contended forced cleanup strands.
* **`GracefulPhasedCellSync`**: a wake-up is lost if what a sleeper waits for comes about and is announced
  between its test and its sleep. `GateInv` (test and sleep hold `graceful_mutex`, so no announcement
  falls between), `OwnerInv` (a waiting cleanup has set the phase that the last reader looks at before it
  notifies), `CountInv` (the counter is the number of counted readers, or less with misuse) and `WakeInv`
  (from the failed test on, whoever brings it about still has to notify) exclude it together. Most
  steps concern none of this: `QuietInv` deals with all of them at once. The threads must be finitely many
  because `CountInv` counts them.
  For `NobodyWaitsInACircle` the parts fit together again: `GateInv` and `BarInv` say where a thread can be
  that holds a mutex, and those places have a lower `WaitLevel`; `WakeInv` gives every sleeper somebody to
  wait for. `ErrorsNameThePast` strengthens its claim to what each thread remembers (`LagInv`), with
  the phase's never going back for the step; and to who may stand at `data_mutex` (`GoneInv`): a locker there
  saw nothing but Setup or is in Cleanup. A free mutex is empty only in Read and in a cleanup from Read
  (`GoneInRead`), so who finds it empty was let in by Setup.
* **That it implements `PhasedCellSync`** needs three facts more (`BarInv`): a thread from `"run"` to
  `"unlock"` holds `data_mutex` (else its steps would not be ones of `PhasedCellSync`), each place belongs
  to its methods, and a caller has no result before its method gives it one (else `resBar` would show
  one). `OthersShow` says that a step of `t` shows at no other thread: waking a sleeper does not. Then
  each action `A` has a lemma `AMaps`: what is seen of it is `P!A`, or nothing (`NoStep`).
* **`GracefulPhasedCell`** has no data mutex, and its cleanup waits from Setup too, though the last
  reader only notifies in the phase of a cleanup from Read. `SetupInv` shows that this does no harm:
  before Read no reader is counted and no cleanup sleeps. `AloneInv` says what the Safety section of
  `get_mut_unlocked` buys, and that a surplus `finish_reading` does not spoil it. `OwnerInv`, `GateInv`
  and `WakeInv` are those of the sync cell, without counting: that the counter may be less than the
  number of readers matters to nobody's wake-up. One lemma per action, `AStep`, shows both that `Inv`
  is kept and what is seen of the step as one of `PhasedCell`; the action's effect on `synced` and
  `published` is the same formula on both sides. The count itself comes in afterwards (`CountInvariance`, by
  `SameCounting` the invariant of the sync cell), for the counter's bound and for what a wait that ends well
  means.
* **`GracefulPhasedCellAsync`** loses wake-ups, so its invariant must say when. `WakeInv` is the one of the
  sync cell from the failed test on, as long as no notification was `"missed"`; a reader may also have been
  forgotten by a forced transition that found the mutex locked (`"contended"`). Nothing like `GateInv`
  can hold. `CountInv` counts the readers exactly until the first surplus `finish_reading`, and gives
  `DrainedBeforeCleanup`. `PlaceInv` says which method is where, who holds the mutex and who has no result
  yet: with it each action `A` has a lemma `AStep`, as above, with `PhasedCellAsync` on the other side and the
  accidents that both know. `OthersShow` and `QuietInv` are the counterparts of those of the sync cell.
  `NobodyWaitsInACircle` has two exceptions here, a task that was forgotten and a transition that was abandoned: both
  need an accident, by `ForgettingNeedsAnAccident` and `WedgesAreAccidents`.
  The theorems say more than the run: there, one kind of accident happens in a behaviour.
* **What is inherited.** Each refinement is put to use: the proof module instantiates the *proof* module of what
  it refines with the same mapping (`LP` over `LifecycleProofs`, `PP` over the plain cell's proofs) and shows that
  the two instances of the plain cell are the same formula (`SameLifecycle`, `SameCell`). Every theorem about the plain
  cell then holds of what is seen of the graceful one, and `SeenPlaces` says that at the data a thread is seen where
  it is. So a graceful cell's closures, guards and readers exclude each other as in the plain cell, its
  data is found where its phase says, its phase keeps to the edges of the lifecycle, without a second proof.
* **True results.** A result is made in one step and reaches the caller in a later one; between the two no lock keeps
  the phase. `TruthfulResults` holds since every answer names a point of the lifecycle that is never left (`Reached`),
  and the proofs split in two accordingly. The thread that gets a result gets a true one: by where its method
  then stands, and for the refusals by the phase it has just loaded. For all others nothing changes but the phase, which
  goes on and not back (`KeepsToTheLifecycle`; `TruthLasts`, `OthersAnswer`). What is invariant is `AnswerInv`, the claim from the moment at which
  a method has its result; in `PhasedCellAsync` `MovedInv` too, since an error of locking names what had happened
  *before* the lock: the data that `lock` does not find has been
  moved by a transition, which kept the mutex until it had changed the phase. There,
  a cleanup that was neither refused nor carried out has panicked early, or was forced and gave up, and the claim says so.
  In the graceful cells a reader that gave up is seen as one that was refused, or has not called, and claims nothing.
* **Transitions and liveness.** `TransitionsEnd` is checked by TLC, but the safety half of its argument is proved:
  `StepsLeft` counts the steps a thread has still to take at `data_mutex`. While a transition is open it grows for
  nobody and each step of a thread that is there makes it smaller (`OpenTransitionsWindDown`), and some thread there is not kept
  from its step by the mutex (`OpenTransitionsCanMove`, from `MutexInv` and `OwnerInv`). Left to fairness is that a
  thread that can take its step does; that the step is ENABLED then, and the induction over the sum, are outside what
  is proved. In `PhasedCellAsync` the first half holds of abandoned transitions too, where nobody has to be at the mutex.
* **Readers that a cleanup has missed** are a fixed set that only shrinks: `NoNewReaders`, since nobody gets from
  outside to the data in another phase than Read. In a graceful cell this is said of the cell that is seen, where a
  reader that has its `&T` and is not counted yet is a reader already.
* **Stuck cells.** `WedgedForEver` is `AbandonedForEver` of the lifecycle whose owners may vanish: opening needs a stable
  phase, and closing needs an owner. With `WedgedOnlyByAccident` it says of both asynchronous cells which
  accidents leave a cell stuck, and that no later call helps.

Only model-checked: the unit tests (`AssertionsHold`, an invariant of one fixed set of scripts), and all liveness
(`TransitionsEnd` of both sync cells, `ReadersAnswered`), which is out of the prover's reach but for the safety half above. No module declares a RECURSIVE operator.

## What the checks found

Each of the first four is a run in which TLC finds the code doing something its documentation excludes.

* **A reader can be overlooked by a graceful cleanup** (`CleanupRunsAlone`,
  `graceful/phased_cell_sync.rs:130-131`). `read` makes its `&T`, then counts itself; a cleanup that
  tests the counter in between runs its closure beside the reader. `graceful/mod.rs:37-38` promises
  that all ongoing read operations complete first. The order is the same in all three graceful cells.
* **A time-out swallows a panic** (`PanicIsResumed`, `graceful/phased_cell_sync.rs:208`): the closure
  runs even if the wait timed out, and `result_w?` comes before its panic is resumed, contrary to lines
  158-159 of the same file.
* **A contended `force_to_cleanup` wedges the cell** (`RefusedDuringTransition`,
  `phased_cell_async.rs:337`). From Setup, with the mutex held by a guard, its `try_lock` fails and the
  error path names `PHASE_READ_TO_CLEANUP`; the phase is `PHASE_SETUP_TO_CLEANUP`, so nothing happens,
  and every later call is told of a transition that nobody is in. The comment says "impossible case".
* **The asynchronous graceful cell loses wake-ups** (`NoLostWakeup`,
  `graceful/phased_cell_async.rs:685` and 747). The phase or the counter is tested, and only then the
  `Notified` future is made. `notify_waiters` in between wakes nobody: a reader is told after its time-out
  that the time was up, although the cell has been in Read, and a cleanup waits for readers that are gone.
  `ForgottenOnlyByAccident` says that this, a contended `force_to_read` and nothing else forgets a sleeper.

Worth knowing, though no promise is broken by them, or none that a run was spent on:

* A closure of `PhasedCellAsync` that panics before it returns its future does so outside
  `catch_unwind` (`phased_cell_async.rs:417`), and leaves the transitional phase behind for good; so does
  a transition cancelled at an await. `WedgedOnlyByAccident` names both.
* A `force_to_cleanup` from Read that finds the mutex locked, by a `lock_async` that saw Setup, reaches
  Cleanup with the data still in `data_cell`, where `lock_async` does not look (`DataHome` allows for it).
* A contended `force_to_read` puts the phase back without notifying the readers that wait for it.
* The readers of `PhasedCellSync` are not protected from a cleanup: its closure has a `&mut T` beside their
  `&T`. The graceful cells are there for that. `ReadersMeetOnlyCleanup` says that nothing else does.
* A thread that knows of Read only by `read_relaxed` does not happen after the closure that set the data up;
  `ReadersSeeSetup` is about those that have acquired the phase in some way.
* `lock` and `try_lock` of the graceful cells load the phase twice (`LockPeek`, `LockDecide`): the phase an
  error names may be an older one, but not one to come, and none but Setup if the data is gone (`ErrorsLagBehind`).
* `count_down` writes the counter and reads the phase, a cleanup the other way round, with acquire and
  release only (`graceful/phased_cell_async.rs:726`). Interleavings do not show what weakly ordered
  hardware might do with two atomics: both may read the old value.
* Three tests assert less than they seem to. `fail_to_transition_to_read_during_transition_to_cleanup`
  (`graceful/phased_cell.rs:1005`) asserts `PhaseIsAlreadyCleanup` where the code returns
  `DuringTransitionToCleanup`, and passes because the assertion's thread is joined without looking at the
  result. `fail_to_read_relaxed_if_phase_is_cleanup` (`phased_cell_async.rs:1107`,
  `graceful/phased_cell_async.rs:1225`) calls `read`, in Setup. And the test named at the end of
  [the unit tests as traces](#the-unit-tests-as-traces) breaks a Safety section.

## Not modelled

* `Display`, `Debug` and `source` of errors, and the names and durations inside error kinds; and the unit
  tests of `errors.rs` and `phase.rs`, which are about them: formatting.
* The values of the data: where it is, who has it and who has seen its last change is what the properties
  tell apart. Assertions of unit tests on the contents are left out for the same reason.
* The overflow assertion of `count_up` (2^63 active readers), re-entrant calls from a thread that holds
  a guard, and who suffers when a thread calls `finish_reading` once too often.
* Memory weaker than interleaving between *two* atomics, the counter and the phase (above).
* `Send` and `Sync` bounds: decided by the compiler.
* `CannotCallOnPhaseSetup` and `GracefulWaitMutexIsPoisoned`: no reachable code returns them.

## Plan

All six cells, their unit tests and the guards are modelled and checked; the invariants of all six, the
refinement of the abstract lifecycle by the three plain ones, that of each plain cell by its graceful
counterpart, what follows from them, that results are true when they are returned, that an open transition waits for
nobody new, and that the threads of a graceful cell wait in no circle are proved.
What is left is what [is not modelled](#not-modelled), first of all the weak ordering between the counter and
the phase, which needs a memory model with two locations.
