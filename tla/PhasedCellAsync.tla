---------------------------- MODULE PhasedCellAsync ----------------------------
(***************************************************************************)
(* PhasedCellAsync<T> (src/src/phased_cell_async.rs): PhasedCellSync for   *)
(* tasks.  tokio's mutex knows no poison; a task may be cancelled at each  *)
(* await; a closure may panic before it has returned its future, outside   *)
(* catch_unwind; and force_to_read and force_to_cleanup do the transitions *)
(* of a caller that cannot await, with try_lock in place of lock.          *)
(*                                                                         *)
(* Where the code of the two cells is the same line by line, an action     *)
(* here is the one of PhasedCellSync, reached as Cell!A.  The places       *)
(* "lock" and "run" of an asynchronous method are its two awaits.          *)
(***************************************************************************)
EXTENDS Phase, FiniteSets

CONSTANTS Tasks,    \* the tasks (or threads) that share the cell
          Nobody,   \* "no task holds the mutex"
          Allowed   \* the accidents that the instance does not exclude

Accident == {"cancelled",  \* a transition was cancelled at an await
             "panicked",   \* a closure panicked before it returned its future
             "contended"}  \* a forced transition found the mutex locked

ASSUME AsyncAssumption == Nobody \notin Tasks /\ Allowed \subseteq Accident

VARIABLES
    phase, data_mutex, data_cell, holder, pc, call, old, res,
    poisoned,   \* PhasedCellSync's poison flag: FALSE for ever
    forced,     \* is the task's transition a force_to_read or force_to_cleanup?
    accidents   \* history: the accidents that have happened

Cell == INSTANCE PhasedCellSync WITH Threads <- Tasks

cellVars == <<phase, data_mutex, data_cell, holder, poisoned, pc, call, old, res>>
vars == <<cellVars, forced, accidents>>

data == <<data_mutex, data_cell>>
mutex == <<holder, poisoned>>
extra == <<forced, accidents>>

AsyncPC == Cell!PC \cup {"give up"}  \* try_lock failed: about to call change_phase

AsyncInit ==
    /\ Cell!PhasedCellSyncInit
    /\ forced = [t \in Tasks |-> FALSE]
    /\ accidents = {}

Return(t) ==
    /\ Cell!Return(t)
    /\ forced' = [forced EXCEPT ![t] = FALSE]
    /\ UNCHANGED accidents

Unlock(t) == Cell!Unlock(t) /\ UNCHANGED extra

-----------------------------------------------------------------------------
(* The transitions *)

\* Task t opens a transition that is forced (f) or not, or goes on with one that is.
As(t, f) ==
    /\ pc[t] = "idle" \/ forced[t] = f
    /\ forced' = [forced EXCEPT ![t] = f]
    /\ UNCHANGED accidents

\* Their steps are those of PhasedCellSync's transitions; for the forced ones, locking
\* data_mutex is a try_lock that succeeds.
transition_to_read_async(t)    == As(t, FALSE) /\ Cell!transition_to_read(t)
transition_to_cleanup_async(t) == As(t, FALSE) /\ Cell!transition_to_cleanup(t)
force_to_read(t)    == As(t, TRUE) /\ Cell!transition_to_read(t)
force_to_cleanup(t) == As(t, TRUE) /\ Cell!transition_to_cleanup(t)

\* f(data) panics instead of returning a future: the stack unwinds through the
\* transition, which drops its guard and nothing else.
PanicEarly(t) ==
    /\ "panicked" \in Allowed
    /\ call[t] \in {"transition_to_read", "transition_to_cleanup"}
    /\ pc[t] = "run"
    /\ ~forced[t]
    /\ pc' = [pc EXCEPT ![t] = "ret"]
    /\ res' = [res EXCEPT ![t] = Panic]
    /\ holder' = Nobody
    /\ accidents' = accidents \cup {"panicked"}
    /\ UNCHANGED <<phase, data, poisoned, call, old, forced>>

\* Mutant of Cancel: the mutex stays locked.
CancelLeaks(t) ==
    /\ "cancelled" \in Allowed
    /\ pc[t] \in {"lock", "run"}
    /\ call[t] # "try_lock" /\ ~forced[t]
    /\ accidents' = IF call[t] = "lock" THEN accidents ELSE accidents \cup {"cancelled"}
    /\ pc'   = [pc EXCEPT ![t] = "idle"]
    /\ call' = [call EXCEPT ![t] = "none"]
    /\ old'  = [old EXCEPT ![t] = PHASE_SETUP]
    /\ res'  = [res EXCEPT ![t] = NoResult]
    /\ UNCHANGED <<phase, data, mutex, forced>>

\* The task's future is dropped while it awaits the mutex or the closure's future:
\* its guard goes with it, and the task can call again.
Cancel(t) ==
    /\ "cancelled" \in Allowed
    /\ pc[t] \in {"lock", "run"}
    /\ call[t] # "try_lock" /\ ~forced[t]
    /\ holder' = IF holder = t THEN Nobody ELSE holder
    /\ accidents' = IF call[t] = "lock" THEN accidents ELSE accidents \cup {"cancelled"}
    /\ pc'   = [pc EXCEPT ![t] = "idle"]
    /\ call' = [call EXCEPT ![t] = "none"]
    /\ old'  = [old EXCEPT ![t] = PHASE_SETUP]
    /\ res'  = [res EXCEPT ![t] = NoResult]
    /\ UNCHANGED <<phase, data, poisoned, forced>>

-----------------------------------------------------------------------------
(* force_to_read and force_to_cleanup, when try_lock fails *)

ForceFails(t) ==
    /\ "contended" \in Allowed
    /\ forced[t]
    /\ holder # Nobody
    /\ \E m \in {"transition_to_read", "transition_to_cleanup"} :
          Cell!Step(t, m, "lock", "give up")
    /\ res' = [res EXCEPT ![t] =
                  Err(IF call[t] = "transition_to_read" THEN PHASE_SETUP ELSE PHASE_CLEANUP,
                      "MutexTryLockFailed")]
    /\ accidents' = accidents \cup {"contended"}
    /\ UNCHANGED <<phase, data, mutex, forced>>

\* Mutants of ForceGivesUp: force_to_read goes on to Read, force_to_read stays where it
\* is, and force_to_cleanup goes back to where it came from.
ForceGivesUpToRead(t) ==
    /\ pc[t] = "give up"
    /\ pc' = [pc EXCEPT ![t] = "ret"]
    /\ IF call[t] = "transition_to_read"
       THEN Cell!change_phase(PHASE_SETUP_TO_READ, PHASE_READ)
       ELSE Cell!change_phase(PHASE_READ_TO_CLEANUP, PHASE_CLEANUP)
    /\ UNCHANGED <<data, mutex, call, old, res, extra>>
ForceGivesUpStays(t) ==
    /\ pc[t] = "give up"
    /\ pc' = [pc EXCEPT ![t] = "ret"]
    /\ Cell!change_phase(PHASE_READ_TO_CLEANUP, PHASE_CLEANUP)
    /\ UNCHANGED <<data, mutex, call, old, res, extra>>
ForceGivesUpReverts(t) ==
    /\ pc[t] = "give up"
    /\ pc' = [pc EXCEPT ![t] = "ret"]
    /\ phase' = old[t]
    /\ UNCHANGED <<data, mutex, call, old, res, extra>>

\* Both arms of force_to_cleanup name PHASE_READ_TO_CLEANUP: from Setup the exchange
\* fails, and its failure is ignored.
ForceGivesUp(t) ==
    /\ pc[t] = "give up"
    /\ pc' = [pc EXCEPT ![t] = "ret"]
    /\ IF call[t] = "transition_to_read"
       THEN Cell!change_phase(PHASE_SETUP_TO_READ, PHASE_SETUP)
       ELSE Cell!change_phase(PHASE_READ_TO_CLEANUP, PHASE_CLEANUP)
    /\ UNCHANGED <<data, mutex, call, old, res, extra>>

-----------------------------------------------------------------------------
(* lock_async, try_lock, read: as in PhasedCellSync, without the poison *)

LockBegin(t)    == (Cell!LockBegin(t) \/ Cell!TryLockBegin(t)) /\ UNCHANGED extra
LockRefused(t)  == Cell!LockRefused(t)  /\ UNCHANGED extra
TryLockFails(t) == Cell!TryLockFails(t) /\ UNCHANGED extra

\* TokioMutexGuard::try_new
LockFault(t) ==
    IF data_mutex = "None" THEN Err(old[t], "InternalDataUnavailable") ELSE NoResult

LockAcquire(t) ==
    /\ holder = Nobody
    /\ holder' = t
    /\ \E m \in {"lock", "try_lock"} :
          Cell!Step(t, m, "lock", IF LockFault(t) = NoResult THEN "guard" ELSE "unlock")
    /\ res' = [res EXCEPT ![t] = LockFault(t)]
    /\ UNCHANGED <<phase, data, poisoned, extra>>

\* The guard is dropped: a panic of its holder does the same and leaves no trace.
GuardDrop(t) ==
    /\ pc[t] = "guard"
    /\ pc' = [pc EXCEPT ![t] = "ret"]
    /\ res' = [res EXCEPT ![t] = Ok]
    /\ holder' = Nobody
    /\ UNCHANGED <<phase, data, poisoned, call, old, extra>>

lock(t) ==
    LockBegin(t) \/ LockRefused(t) \/ LockAcquire(t) \/ TryLockFails(t) \/ GuardDrop(t)

read(t)    == Cell!read(t)    /\ UNCHANGED extra
ReadEnd(t) == Cell!ReadEnd(t) /\ UNCHANGED extra

-----------------------------------------------------------------------------
AsyncNext ==
    \E t \in Tasks :
        \/ transition_to_read_async(t) \/ transition_to_cleanup_async(t)
        \/ force_to_read(t) \/ force_to_cleanup(t)
        \/ PanicEarly(t) \/ Cancel(t) \/ ForceFails(t) \/ ForceGivesUp(t)
        \/ lock(t) \/ read(t) \/ ReadEnd(t)
        \/ Unlock(t) \/ Return(t)

AsyncSpec == AsyncInit /\ [][AsyncNext]_vars

-----------------------------------------------------------------------------
(* Properties *)

\* Every variable keeps to its set of values.
TypeOK ==
    /\ phase \in PhaseCode
    /\ data_mutex \in {"Some", "None"}
    /\ data_cell \in {"Some", "None"}
    /\ holder \in Tasks \cup {Nobody}
    /\ poisoned = FALSE
    /\ pc \in [Tasks -> AsyncPC]
    /\ call \in [Tasks -> Cell!Method \cup {"none"}]
    /\ old \in [Tasks -> PhaseCode]
    /\ res \in [Tasks -> Result]
    /\ forced \in [Tasks -> BOOLEAN]
    /\ accidents \subseteq Allowed

InTransition(t) ==
    /\ call[t] \in {"transition_to_read", "transition_to_cleanup"}
    /\ pc[t] \in {"lock", "run", "swap", "commit", "give up"}

\* Closures and guards never overlap, whatever was forced or cancelled.
ExclusiveMut == Cell!ExclusiveMut

\* While the cell shows Read nobody can change the data.
ReadPhaseIsImmutable == Cell!ReadPhaseIsImmutable

\* A reader with its &T meets nobody who changes the data but a cleanup and what comes after
\* one, whatever was forced or cancelled meanwhile.
ReadersMeetOnlyCleanup == Cell!ReadersMeetOnlyCleanup

\* The data is where the methods of a stable phase look for it, unless a forced
\* transition found the mutex locked: only Cleanup can then miss its data.
DataHome ==
    /\ data_cell # data_mutex
    /\ phase = PHASE_READ => data_cell = "Some"
    /\ phase = PHASE_SETUP => data_mutex = "Some"
    /\ phase = PHASE_CLEANUP /\ "contended" \notin accidents => data_mutex = "Some"

\* The cell is stuck in a transition that nobody is carrying out.
Wedged == phase \in InTransit /\ \A t \in Tasks : ~InTransition(t)

\* A cell gets stuck only by an accident, and by contention only on its way from Setup
\* to Cleanup: no error, no late panic and no race of transitions does it.
WedgedOnlyByAccident ==
    Wedged => \/ accidents \cap {"cancelled", "panicked"} # {}
              \/ "contended" \in accidents /\ phase = PHASE_SETUP_TO_CLEANUP

\* A cell that is stuck stays so: no method opens a transition from its phase, or closes
\* one that it has not opened.
WedgedForEver == [][Wedged => Wedged' /\ UNCHANGED phase]_vars

TransitionOwner ==
    IF \E t \in Tasks : InTransition(t)
    THEN CHOOSE t \in Tasks : InTransition(t)
    ELSE Nobody

L == INSTANCE Lifecycle WITH Threads <- Tasks, owner <- TransitionOwner

\* Even then, transitions are opened from stable phases only, closed by their owners
\* only, and the public phase never goes back.
ImplementsAbandonableLifecycle == L!AbandonableSpec

\* A task that was cancelled, or unwound, has left the mutex unlocked behind it: who
\* holds it still has a use for it.
MutexReleased ==
    \A t \in Tasks : holder = t => pc[t] \in {"run", "swap", "commit", "unlock", "guard"}

\* What the result of t's call tells its caller about the cell: a cleanup that neither ran
\* nor was refused has panicked early, or was forced and gave up.
Truthful(t) ==
    LET kind == res[t].kind IN
    /\ call[t] = "transition_to_read" /\ kind \in {"Ok", "PhaseIsAlreadyRead"}
          => Cell!Reached(1)
    /\ call[t] = "transition_to_cleanup" =>
          \/ kind \in {"DuringTransitionToRead", "DuringTransitionToCleanup"}
          \/ phase = PHASE_CLEANUP
          \/ kind = "Panic" /\ "panicked" \in accidents
          \/ kind = "MutexTryLockFailed" /\ phase = PHASE_SETUP_TO_CLEANUP
    /\ kind = "PhaseIsAlreadyCleanup" => phase = PHASE_CLEANUP
    /\ kind = "DuringTransitionToCleanup" => Cell!Reached(2)
    /\ kind = "InternalDataUnavailable"
          => Cell!Reached(1) /\ (call[t] = "read" => Cell!Reached(2))

\* A result is still true when the caller gets it, whatever was forced, cancelled or
\* unwound in between: an answer names a point of the lifecycle that is never left.
TruthfulResults == \A t \in Tasks : pc[t] = "ret" => Truthful(t)

\* While a transition is open, or abandoned, nobody new comes to data_mutex, and whoever
\* is at it only goes on or leaves, cancelled or not: a transition never has to wait for
\* more than the lockers it met when it was opened.
TransitionsWindDown == Cell!TransitionsWindDown

\* A caller refused because a transition is in progress was refused during one.
RefusedDuringTransition ==
    [][\A t \in Tasks :
          /\ res'[t] # res[t]
          /\ res'[t].kind \in {"DuringTransitionToRead", "DuringTransitionToCleanup"}
          => \E u \in Tasks : InTransition(u)]_vars

-----------------------------------------------------------------------------
(* The inductive invariant behind the safety properties *)

\* Task t is at one of the places `at` of method m.
At(t, m, at) == call[t] = m /\ pc[t] \in at

\* Which places belong to which method, and what gave a task up.
CallInv ==
    \A t \in Tasks :
        /\ pc[t] \in {"run", "swap", "commit", "give up"}
              => call[t] \in {"transition_to_read", "transition_to_cleanup"}
        /\ pc[t] \in {"lock", "unlock"} => call[t] # "read"
        /\ pc[t] = "give up" => "contended" \in accidents

\* A task holds data_mutex exactly between locking and releasing it.
MutexInv ==
    \A t \in Tasks :
        pc[t] \in {"run", "swap", "commit", "unlock", "guard"} <=> holder = t

\* A task in a transition is the only one, and the phase is the one it has set.
OwnerInv ==
    /\ \A t, u \in Tasks : InTransition(t) /\ InTransition(u) => t = u
    /\ \A t \in Tasks : InTransition(t) =>
          \/ /\ call[t] = "transition_to_read"
             /\ old[t] = PHASE_SETUP /\ phase = PHASE_SETUP_TO_READ
          \/ /\ call[t] = "transition_to_cleanup"
             /\ old[t] \in {PHASE_SETUP, PHASE_READ} /\ phase = Via(old[t])

\* Where the data is, at every place of a transition.
DataInv ==
    /\ DataHome
    /\ phase = PHASE_SETUP_TO_CLEANUP => data_mutex = "Some"
    /\ \A t \in Tasks :
          /\ At(t, "transition_to_read", {"lock", "run", "swap", "give up"})
                => data_mutex = "Some"
          /\ At(t, "transition_to_read", {"swap"}) => res[t] = Ok
          /\ At(t, "transition_to_read", {"commit"})
                => (data_cell = "Some" <=> res[t] = Ok)
          /\ At(t, "transition_to_cleanup", {"lock", "run", "swap"}) /\ old[t] = PHASE_READ
                => data_cell = "Some"
          /\ At(t, "transition_to_cleanup", {"swap"}) => old[t] = PHASE_READ
          /\ At(t, "transition_to_cleanup", {"commit"}) => data_mutex = "Some"
          /\ pc[t] = "guard" => data_mutex = "Some"

Inv == TypeOK /\ CallInv /\ MutexInv /\ OwnerInv /\ DataInv /\ WedgedOnlyByAccident
==============================================================================
