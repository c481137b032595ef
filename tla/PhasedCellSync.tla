---------------------------- MODULE PhasedCellSync ----------------------------
(***************************************************************************)
(* PhasedCellSync<T> (src/src/phased_cell_sync.rs): one cell shared by a   *)
(* set of threads, each running one method at a time.                      *)
(*                                                                         *)
(* A step is one access to the shared state: an operation on the atomic    *)
(* `phase`, the acquisition of `data_mutex` together with the tests made   *)
(* under it before anything else is shared, one run of the user's closure, *)
(* a swap of the two Options, the release of the mutex.                    *)
(***************************************************************************)
EXTENDS Phase, FiniteSets

CONSTANTS Threads,   \* the threads that share the cell
          Nobody     \* "no thread holds the mutex"

ASSUME ThreadsAssumption == Nobody \notin Threads

VARIABLES
    phase,       \* the AtomicU8
    data_mutex,  \* the Option inside the Mutex: "Some" or "None"
    data_cell,   \* the Option inside the UnsafeCell
    holder,      \* the thread that holds data_mutex
    poisoned,    \* the Mutex's poison flag
    pc,          \* where each thread is
    call,        \* the method each thread is running
    old,         \* the phase a transition started from (fetch_update's Ok value,
                 \* old_phase), or the one lock and read loaded
    res          \* what each thread's call returns

data == <<data_mutex, data_cell>>
mutex == <<holder, poisoned>>
vars == <<phase, data_mutex, data_cell, holder, poisoned, pc, call, old, res>>

Method == {"transition_to_read", "transition_to_cleanup",
           "lock", "try_lock", "read"}

PC == {"idle",    \* outside the cell
       "lock",    \* about to block on data_mutex
       "run",     \* a transition, mutex held, about to run the closure
       "swap",    \* about to swap data_cell with the mutex's Option
       "commit",  \* about to call change_phase
       "unlock",  \* about to release the mutex
       "ret",     \* has its result
       "guard",   \* the caller holds a StdMutexGuard
       "look",    \* read has loaded PHASE_READ, not yet looked at data_cell
       "reading"} \* the caller holds the &T that read returned

PhasedCellSyncInit ==
    /\ phase = PHASE_SETUP
    /\ data_mutex = "Some"
    /\ data_cell = "None"
    /\ holder = Nobody
    /\ poisoned = FALSE
    /\ pc   = [t \in Threads |-> "idle"]
    /\ call = [t \in Threads |-> "none"]
    /\ old  = [t \in Threads |-> PHASE_SETUP]
    /\ res  = [t \in Threads |-> NoResult]

-----------------------------------------------------------------------------
(* Steps common to the methods. *)

\* Thread t enters method m, having read the phase in the same step.
Enter(t, m, next) ==
    /\ pc[t] = "idle"
    /\ pc'   = [pc EXCEPT ![t] = next]
    /\ call' = [call EXCEPT ![t] = m]
    /\ old'  = [old EXCEPT ![t] = phase]

\* Method m is refused with error r on the phase it read.
Refuse(t, m, r) ==
    /\ Enter(t, m, "ret")
    /\ res' = [res EXCEPT ![t] = r]
    /\ UNCHANGED <<phase, data, mutex>>

\* Thread t, inside method m, moves from one place to the next.
Step(t, m, from, to) ==
    /\ call[t] = m
    /\ pc[t] = from
    /\ pc' = [pc EXCEPT ![t] = to]
    /\ UNCHANGED <<call, old>>

\* compare_exchange(current, new), its failure ignored.
change_phase(current, new) ==
    phase' = IF phase = current THEN new ELSE phase

\* The MutexGuard (or the one inside the PoisonError) is dropped.
Unlock(t) ==
    /\ pc[t] = "unlock"
    /\ pc' = [pc EXCEPT ![t] = "ret"]
    /\ holder' = Nobody
    /\ UNCHANGED <<phase, data, poisoned, call, old, res>>

\* The call is over: the caller has its Result, or the panic has gone by.
Return(t) ==
    /\ pc[t] = "ret"
    /\ pc'   = [pc EXCEPT ![t] = "idle"]
    /\ call' = [call EXCEPT ![t] = "none"]
    /\ old'  = [old EXCEPT ![t] = PHASE_SETUP]
    /\ res'  = [res EXCEPT ![t] = NoResult]
    /\ UNCHANGED <<phase, data, mutex>>

-----------------------------------------------------------------------------
(* transition_to_read *)

\* Mutant of ToReadBegin: starts from Read too.
ToReadBeginAgain(t) ==
    /\ phase \in {PHASE_SETUP, PHASE_READ}
    /\ Enter(t, "transition_to_read", "lock")
    /\ phase' = PHASE_SETUP_TO_READ
    /\ UNCHANGED <<data, mutex, res>>

ToReadBegin(t) ==
    /\ phase = PHASE_SETUP
    /\ Enter(t, "transition_to_read", "lock")
    /\ phase' = PHASE_SETUP_TO_READ
    /\ UNCHANGED <<data, mutex, res>>

ToReadRefused(t) ==
    /\ phase # PHASE_SETUP
    /\ Refuse(t, "transition_to_read", ToReadRefusal(phase))

\* Mutant of ToReadFault: takes the data out of a poisoned mutex.
ToReadFaultIntoInner(t) ==
    IF data_mutex = "None" THEN Err(PHASE_SETUP_TO_READ, "InternalDataUnavailable")
                           ELSE NoResult

\* What is wrong with data_mutex, now that it is locked: a NoResult if nothing.
ToReadFault(t) ==
    CASE poisoned -> Err(old[t], "InternalDataMutexIsPoisoned")
      [] ~poisoned /\ data_mutex = "None" -> Err(PHASE_SETUP_TO_READ, "InternalDataUnavailable")
      [] OTHER -> NoResult

ToReadLock(t) ==
    /\ holder = Nobody
    /\ holder' = t
    /\ Step(t, "transition_to_read", "lock",
            IF ToReadFault(t) = NoResult THEN "run" ELSE "commit")
    /\ res' = [res EXCEPT ![t] = ToReadFault(t)]
    /\ UNCHANGED <<phase, data, poisoned>>

\* f(data) under catch_unwind; only a success swaps.
ToReadRun(t) ==
    \E r \in {Ok, Panic,
              Err(PHASE_SETUP, "FailToRunClosureDuringTransitionToRead")} :
        /\ Step(t, "transition_to_read", "run", IF r = Ok THEN "swap" ELSE "commit")
        /\ res' = [res EXCEPT ![t] = r]
        /\ UNCHANGED <<phase, data, mutex>>

ToReadSwap(t) ==
    /\ Step(t, "transition_to_read", "swap", "commit")
    /\ data_cell' = data_mutex
    /\ data_mutex' = data_cell
    /\ UNCHANGED <<phase, mutex, res>>

ToReadCommit(t) ==
    /\ Step(t, "transition_to_read", "commit", "unlock")
    /\ change_phase(PHASE_SETUP_TO_READ, IF res[t] = Ok THEN PHASE_READ ELSE old[t])
    /\ UNCHANGED <<data, mutex, res>>

transition_to_read(t) ==
    ToReadBegin(t) \/ ToReadRefused(t) \/ ToReadLock(t) \/ ToReadRun(t)
        \/ ToReadSwap(t) \/ ToReadCommit(t)

-----------------------------------------------------------------------------
(* transition_to_cleanup *)

ToCleanupBegin(t) ==
    /\ phase \in {PHASE_SETUP, PHASE_READ}
    /\ Enter(t, "transition_to_cleanup", "lock")
    /\ phase' = Via(phase)
    /\ UNCHANGED <<data, mutex, res>>

ToCleanupRefused(t) ==
    /\ phase \notin {PHASE_SETUP, PHASE_READ}
    /\ Refuse(t, "transition_to_cleanup", ToCleanupRefusal(phase))

\* From Read the closure gets the data of data_cell, from Setup that of data_mutex.
ToCleanupFault(t) ==
    CASE poisoned -> Err(PHASE_CLEANUP, "InternalDataMutexIsPoisoned")
      [] ~poisoned /\ "None" = (IF old[t] = PHASE_READ THEN data_cell ELSE data_mutex)
                  -> Err(PHASE_CLEANUP, "InternalDataUnavailable")
      [] OTHER    -> NoResult

\* Mutant of ToCleanupLock: does not wait for data_mutex.
ToCleanupLockFree(t) ==
    /\ holder' = t
    /\ Step(t, "transition_to_cleanup", "lock",
            IF ToCleanupFault(t) = NoResult THEN "run" ELSE "commit")
    /\ res' = [res EXCEPT ![t] = ToCleanupFault(t)]
    /\ UNCHANGED <<phase, data, poisoned>>

ToCleanupLock(t) ==
    /\ holder = Nobody
    /\ holder' = t
    /\ Step(t, "transition_to_cleanup", "lock",
            IF ToCleanupFault(t) = NoResult THEN "run" ELSE "commit")
    /\ res' = [res EXCEPT ![t] = ToCleanupFault(t)]
    /\ UNCHANGED <<phase, data, poisoned>>

\* Mutant of ToCleanupRun: swaps only after a success.
ToCleanupRunSwapsOk(t) ==
    \E r \in {Ok, Panic,
              Err(PHASE_CLEANUP, "FailToRunClosureDuringTransitionToCleanup")} :
        /\ Step(t, "transition_to_cleanup", "run",
                IF old[t] = PHASE_READ /\ r = Ok THEN "swap" ELSE "commit")
        /\ res' = [res EXCEPT ![t] = r]
        /\ UNCHANGED <<phase, data, mutex>>

\* f(data) under catch_unwind; from Read the swap follows whatever f did.
ToCleanupRun(t) ==
    \E r \in {Ok, Panic,
              Err(PHASE_CLEANUP, "FailToRunClosureDuringTransitionToCleanup")} :
        /\ Step(t, "transition_to_cleanup", "run",
                IF old[t] = PHASE_READ THEN "swap" ELSE "commit")
        /\ res' = [res EXCEPT ![t] = r]
        /\ UNCHANGED <<phase, data, mutex>>

ToCleanupSwap(t) ==
    /\ Step(t, "transition_to_cleanup", "swap", "commit")
    /\ data_cell' = data_mutex
    /\ data_mutex' = data_cell
    /\ UNCHANGED <<phase, mutex, res>>

\* Mutant of ToCleanupCommit: reverts the phase when the closure failed.
ToCleanupCommitReverts(t) ==
    /\ Step(t, "transition_to_cleanup", "commit", "unlock")
    /\ change_phase(Via(old[t]), IF res[t] = Ok THEN PHASE_CLEANUP ELSE old[t])
    /\ UNCHANGED <<data, mutex, res>>

ToCleanupCommit(t) ==
    /\ Step(t, "transition_to_cleanup", "commit", "unlock")
    /\ change_phase(Via(old[t]), PHASE_CLEANUP)
    /\ UNCHANGED <<data, mutex, res>>

transition_to_cleanup(t) ==
    ToCleanupBegin(t) \/ ToCleanupRefused(t) \/ ToCleanupLock(t) \/ ToCleanupRun(t)
        \/ ToCleanupSwap(t) \/ ToCleanupCommit(t)

-----------------------------------------------------------------------------
(* lock, try_lock and the StdMutexGuard they give *)

\* Mutant of Lockable: tests the public phase instead of the code.
LockableByPublicPhase == u8_to_phase(phase) # "Read"

Lockable == phase \in {PHASE_SETUP, PHASE_CLEANUP}

\* The phase is loaded first; the thread then blocks on data_mutex.
LockBegin(t) ==
    /\ Lockable
    /\ Enter(t, "lock", "lock")
    /\ UNCHANGED <<phase, data, mutex, res>>

TryLockBegin(t) ==
    /\ Lockable
    /\ Enter(t, "try_lock", "lock")
    /\ UNCHANGED <<phase, data, mutex, res>>

LockRefused(t) ==
    /\ ~Lockable
    /\ \E m \in {"lock", "try_lock"} : Refuse(t, m, LockRefusal(phase))

\* Mutant of LockFault: makes a guard of an empty Option.
LockFaultUnchecked(t) ==
    IF poisoned THEN Err(old[t], "InternalDataMutexIsPoisoned") ELSE NoResult

\* StdMutexGuard::try_new, or the poison error, on a mutex just locked.
LockFault(t) ==
    CASE poisoned -> Err(old[t], "InternalDataMutexIsPoisoned")
      [] ~poisoned /\ data_mutex = "None" -> Err(old[t], "InternalDataUnavailable")
      [] OTHER -> NoResult

\* Mutant of LockAcquire: an error leaves the mutex locked.
LockAcquireLeaks(t) ==
    /\ holder = Nobody
    /\ holder' = t
    /\ \E m \in {"lock", "try_lock"} :
          Step(t, m, "lock", IF LockFault(t) = NoResult THEN "guard" ELSE "ret")
    /\ res' = [res EXCEPT ![t] = LockFault(t)]
    /\ UNCHANGED <<phase, data, poisoned>>

LockAcquire(t) ==
    /\ holder = Nobody
    /\ holder' = t
    /\ \E m \in {"lock", "try_lock"} :
          Step(t, m, "lock", IF LockFault(t) = NoResult THEN "guard" ELSE "unlock")
    /\ res' = [res EXCEPT ![t] = LockFault(t)]
    /\ UNCHANGED <<phase, data, poisoned>>

TryLockFails(t) ==
    /\ holder # Nobody
    /\ Step(t, "try_lock", "lock", "ret")
    /\ res' = [res EXCEPT ![t] = Err(old[t], "MutexTryLockFailed")]
    /\ UNCHANGED <<phase, data, mutex>>

\* The caller drops the guard, or panics while it holds it, which poisons.
GuardDrop(t) ==
    /\ pc[t] = "guard"
    /\ \E panicking \in BOOLEAN :
          /\ poisoned' = (poisoned \/ panicking)
          /\ res' = [res EXCEPT ![t] = IF panicking THEN Panic ELSE Ok]
    /\ pc' = [pc EXCEPT ![t] = "ret"]
    /\ holder' = Nobody
    /\ UNCHANGED <<phase, data, call, old>>

lock(t) == LockBegin(t) \/ LockRefused(t) \/ LockAcquire(t)
try_lock(t) == TryLockBegin(t) \/ TryLockFails(t)

-----------------------------------------------------------------------------
(* read: the phase is loaded first, data_cell looked at afterwards *)

\* Mutant of ReadBegin: does not look at the phase.
ReadBeginUnchecked(t) ==
    /\ Enter(t, "read", "look")
    /\ UNCHANGED <<phase, data, mutex, res>>

ReadBegin(t) ==
    /\ phase = PHASE_READ
    /\ Enter(t, "read", "look")
    /\ UNCHANGED <<phase, data, mutex, res>>

ReadRefused(t) ==
    /\ phase # PHASE_READ
    /\ Refuse(t, "read", Err(phase, "CannotCallUnlessPhaseRead"))

ReadLook(t) ==
    /\ Step(t, "read", "look", IF data_cell = "Some" THEN "reading" ELSE "ret")
    /\ res' = [res EXCEPT ![t] = IF data_cell = "Some" THEN Ok
                                 ELSE Err(old[t], "InternalDataUnavailable")]
    /\ UNCHANGED <<phase, data, mutex>>

\* The caller's borrow of the data ends, whenever the caller likes.
ReadEnd(t) ==
    /\ Step(t, "read", "reading", "ret")
    /\ UNCHANGED <<phase, data, mutex, res>>

read(t) == ReadBegin(t) \/ ReadRefused(t) \/ ReadLook(t)

-----------------------------------------------------------------------------
\* Steps a thread takes without the caller's decision, plus the end of a guard.
Progress(t) ==
    \/ ToReadLock(t) \/ ToReadRun(t) \/ ToReadSwap(t) \/ ToReadCommit(t)
    \/ ToCleanupLock(t) \/ ToCleanupRun(t) \/ ToCleanupSwap(t) \/ ToCleanupCommit(t)
    \/ LockAcquire(t) \/ TryLockFails(t) \/ GuardDrop(t) \/ ReadLook(t)
    \/ Unlock(t) \/ Return(t)

PhasedCellSyncNext ==
    \E t \in Threads :
        \/ transition_to_read(t) \/ transition_to_cleanup(t)
        \/ lock(t) \/ try_lock(t) \/ GuardDrop(t)
        \/ read(t) \/ ReadEnd(t)
        \/ Unlock(t) \/ Return(t)

PhasedCellSyncSpec ==
    PhasedCellSyncInit /\ [][PhasedCellSyncNext]_vars

\* Closures return, guards are dropped and scheduled threads run: nothing is
\* assumed of when a method is called, nor of how long a reader keeps its &T.
FairSpec == PhasedCellSyncSpec /\ \A t \in Threads : WF_vars(Progress(t))
-----------------------------------------------------------------------------
(* Properties *)

\* Every variable keeps to its set of values.
TypeOK ==
    /\ phase \in PhaseCode
    /\ data_mutex \in {"Some", "None"}
    /\ data_cell \in {"Some", "None"}
    /\ holder \in Threads \cup {Nobody}
    /\ poisoned \in BOOLEAN
    /\ pc \in [Threads -> PC]
    /\ call \in [Threads -> Method \cup {"none"}]
    /\ old \in [Threads -> PhaseCode]
    /\ res \in [Threads -> Result]

\* Thread t can change the data: its closure has a &mut T, it moves the data, or
\* its caller has a StdMutexGuard.
Mutating(t) == pc[t] \in {"run", "swap", "guard"}

\* Thread t is between opening a transition and publishing its outcome.
InTransition(t) ==
    /\ call[t] \in {"transition_to_read", "transition_to_cleanup"}
    /\ pc[t] \in {"lock", "run", "swap", "commit"}

\* Closures and guards never overlap, whichever phases their threads saw when
\* they started: a guard taken on a phase loaded long ago included.
ExclusiveMut == \A t, u \in Threads : Mutating(t) /\ Mutating(u) => t = u

\* While the cell shows Read, where every reader is let in without a lock, nobody
\* can change the data.
ReadPhaseIsImmutable == phase = PHASE_READ => \A t \in Threads : ~Mutating(t)

\* A reader keeps its &T, with no lock, for as long as it likes.  Whoever changes the data
\* meanwhile is a cleanup, or comes after one: the closure that sets the data up is over
\* before the first reader looks, and a guard of Setup, however late it is granted, is gone.
ReadersMeetOnlyCleanup ==
    \A t, u \in Threads :
        pc[t] = "reading" /\ Mutating(u) => phase \in {PHASE_READ_TO_CLEANUP, PHASE_CLEANUP}

\* The data is always in exactly one of the two Options, and in a stable phase in
\* the one that phase's methods look at: no failing, panicking or poisoned
\* transition loses it or strands it.
DataHome ==
    /\ data_cell # data_mutex
    /\ phase = PHASE_READ => data_cell = "Some"
    /\ phase \in {PHASE_SETUP, PHASE_CLEANUP} => data_mutex = "Some"

\* The branches marked "impossible case" in both transitions are.
ImpossibleCase ==
    \A t \in Threads : pc[t] = "commit" => res[t].kind # "InternalDataUnavailable"

\* A caller that panicked with a guard leaves data nobody vouches for: the cell
\* then never lets readers at it.
PoisonNeverRead ==
    poisoned => phase \notin {PHASE_READ, PHASE_READ_TO_CLEANUP}

\* The public phase has reached the n-th of Setup, Read, Cleanup.
Reached(n) == Rank(u8_to_phase(phase)) >= n

\* What the result of t's call tells its caller about the cell.
Truthful(t) ==
    LET kind == res[t].kind IN
    /\ call[t] = "transition_to_read" /\ kind \in {"Ok", "PhaseIsAlreadyRead"} => Reached(1)
    /\ call[t] = "transition_to_cleanup" =>
          \/ kind = "DuringTransitionToRead"
          \/ kind = "DuringTransitionToCleanup"
          \/ phase = PHASE_CLEANUP
    /\ kind = "PhaseIsAlreadyCleanup" => phase = PHASE_CLEANUP
    /\ kind = "DuringTransitionToCleanup" => Reached(2)
    /\ kind = "InternalDataMutexIsPoisoned" => poisoned
    /\ kind = "InternalDataUnavailable" => Reached(IF call[t] = "read" THEN 2 ELSE 1)

\* A result is still true when the caller gets it, whatever the other threads did in
\* between: success or refusal names a point of the lifecycle that has been reached
\* and is never left, and a reader or locker is told "data unavailable" only because
\* the data has moved on.
TruthfulResults == \A t \in Threads : pc[t] = "ret" => Truthful(t)

\* The owner of the transition in progress, for the abstract lifecycle.
TransitionOwner ==
    IF \E t \in Threads : InTransition(t)
    THEN CHOOSE t \in Threads : InTransition(t)
    ELSE Nobody

L == INSTANCE Lifecycle WITH owner <- TransitionOwner

\* The cell implements the abstract lifecycle: transitional phases are owned by the
\* thread that opened them, and the public phase never goes back.
ImplementsLifecycle == L!LifecycleSpec

\* Every transition that starts also ends, with the closure's answer or an error,
\* even when lockers that saw the earlier phase are still queueing for the mutex.
TransitionsEnd ==
    \A t \in Threads : InTransition(t) ~> pc[t] = "ret"

\* How many steps thread t has still to take at data_mutex, at most.
StepsLeft(t) ==
    CASE pc[t] = "lock"                -> 5
      [] pc[t] = "run"                 -> 4
      [] pc[t] = "swap"                -> 3
      [] pc[t] = "commit"              -> 2
      [] pc[t] \in {"unlock", "guard"} -> 1
      [] OTHER                         -> 0

\* What TransitionsEnd rests on besides fairness: while a transition is open nobody new
\* comes to data_mutex, and whoever is at it, owner or late locker, only goes on.
TransitionsWindDown ==
    [][(phase \in InTransit) =>
          \A t \in Threads : StepsLeft(t) > 0 \/ StepsLeft(t)' > 0 =>
              pc'[t] = pc[t] \/ StepsLeft(t)' < StepsLeft(t)]_vars

\* ... and one of those at data_mutex can always take its next step.
TransitionsCanMove ==
    phase \in InTransit =>
        \E t \in Threads : StepsLeft(t) > 0 /\ (pc[t] = "lock" => holder = Nobody)

\* Once a cleanup has begun no reader gets in any more: those it may meet only leave.
Readers == {t \in Threads : pc[t] \in {"look", "reading"}}
ReadersOnlyLeave == [][phase # PHASE_READ => Readers' \subseteq Readers]_vars

-----------------------------------------------------------------------------
(* The inductive invariant behind the safety properties *)

\* Thread t is at one of the places `at` of method m.
At(t, m, at) == call[t] = m /\ pc[t] \in at

\* Which places belong to which method.
CallInv ==
    \A t \in Threads :
        /\ pc[t] \in {"run", "swap", "commit"}
              => call[t] \in {"transition_to_read", "transition_to_cleanup"}
        /\ pc[t] = "guard" => call[t] \in {"lock", "try_lock"}
        /\ pc[t] \in {"lock", "unlock"} => call[t] # "read"

\* A thread holds data_mutex exactly between locking and releasing it.
MutexInv ==
    \A t \in Threads :
        pc[t] \in {"run", "swap", "commit", "unlock", "guard"} <=> holder = t

\* The phase is transitional exactly while its one owner is in its transition.
PhaseInv ==
    /\ phase \in InTransit => \E t \in Threads : InTransition(t)
    /\ \A t, u \in Threads : InTransition(t) /\ InTransition(u) => t = u
    /\ \A t \in Threads : InTransition(t) =>
          \/ /\ call[t] = "transition_to_read"
             /\ old[t] = PHASE_SETUP /\ phase = PHASE_SETUP_TO_READ
          \/ /\ call[t] = "transition_to_cleanup"
             /\ old[t] \in {PHASE_SETUP, PHASE_READ} /\ phase = Via(old[t])

\* Where the data is, at every place of a transition.
DataInv ==
    /\ data_cell # data_mutex
    /\ phase = PHASE_READ => data_cell = "Some"
    /\ phase \in {PHASE_SETUP, PHASE_CLEANUP, PHASE_SETUP_TO_CLEANUP} => data_mutex = "Some"
    /\ \A t \in Threads :
          /\ At(t, "transition_to_read", {"lock", "run", "swap"}) => data_mutex = "Some"
          /\ At(t, "transition_to_read", {"commit"})
                => (data_cell = "Some" <=> res[t] = Ok)
          /\ At(t, "transition_to_cleanup", {"lock", "run", "swap"}) /\ old[t] = PHASE_READ
                => data_cell = "Some"
          /\ At(t, "transition_to_cleanup", {"commit"}) => data_mutex = "Some"
          /\ At(t, "transition_to_cleanup", {"swap"}) => old[t] = PHASE_READ
          /\ pc[t] = "guard" => data_mutex = "Some"

\* A poisoned mutex stops every transition to Read.
PoisonInv ==
    poisoned =>
        /\ phase \notin {PHASE_READ, PHASE_READ_TO_CLEANUP}
        /\ \A t \in Threads :
              /\ ~At(t, "transition_to_read", {"run", "swap"})
              /\ At(t, "transition_to_read", {"commit"}) => res[t] # Ok

\* How results come about, from the closure or the fault to the return.
ResultInv ==
    \A t \in Threads :
        /\ At(t, "transition_to_read", {"swap"}) => res[t] = Ok
        /\ pc[t] = "commit" /\ res[t].kind = "InternalDataMutexIsPoisoned" => poisoned
        /\ pc[t] \in {"swap", "commit"} => res[t].kind \in
              {"Ok", "Panic", "InternalDataMutexIsPoisoned",
               "FailToRunClosureDuringTransitionToRead",
               "FailToRunClosureDuringTransitionToCleanup"}
        /\ pc[t] = "swap" => res[t].kind # "InternalDataMutexIsPoisoned"
        /\ pc[t] \in {"look", "reading"} =>
              phase \in {PHASE_READ, PHASE_READ_TO_CLEANUP, PHASE_CLEANUP}
        /\ pc[t] = "reading" => res[t] = Ok
        /\ pc[t] \in {"unlock", "ret"} => Truthful(t)

Inv == TypeOK /\ CallInv /\ MutexInv /\ PhaseInv /\ DataInv /\ PoisonInv /\ ResultInv
==============================================================================
