--------------------------- MODULE GracefulPhasedCell ---------------------------
(***************************************************************************)
(* GracefulPhasedCell<T> (src/src/graceful/phased_cell.rs): PhasedCell     *)
(* plus the reader counter and the waits of GracefulPhasedCellSync.        *)
(*                                                                         *)
(* Its transitions and its memory ordering are PhasedCell's, reached as    *)
(* Cell!A, and its waits are GracefulPhasedCellSync's, reached as W!A with *)
(* a data mutex that nobody ever locks.  What it has of its own is how the *)
(* two fit together: a cleanup waits before its closure from Setup too,    *)
(* and a transition to Read notifies only after it has changed the phase.  *)
(*                                                                         *)
(* Only accesses to `phase` pass the data on here.  graceful_mutex, the    *)
(* counter and the loads of a method that is done with the data order      *)
(* more than that: leaving them out can only make fewer threads `synced`.  *)
(***************************************************************************)
EXTENDS Phase, FiniteSets

CONSTANTS Threads,       \* the threads that share the cell
          Nobody,        \* "no thread holds graceful_mutex"
          TimeoutsFire,  \* may a condvar wait end early, by time-out or spuriously?
          Misusers       \* threads that may call finish_reading without a read

VARIABLES
    phase, synced, published, pc, call, old, res,
    graceful_counter,  \* the AtomicUsize
    graceful_holder,   \* the thread that holds graceful_mutex
    result_w           \* the result of a cleanup's wait: "none", "Ok", "Timeout"

Cell == INSTANCE PhasedCell

\* The data mutex this cell has not got.
NoMutex == [holder |-> Nobody, poisoned |-> FALSE]

W == INSTANCE GracefulPhasedCellSync
        WITH data_mutex <- "Some", data_cell <- "Some",
             holder <- NoMutex.holder, poisoned <- NoMutex.poisoned,
             seen <- [t \in Threads |-> PHASE_SETUP]

ASSUME W!GracefulAssumption

memory == <<synced, published>>
waits == <<graceful_counter, graceful_holder, result_w>>
vars == <<phase, memory, pc, call, old, res, waits>>

GracefulInit ==
    /\ Cell!PhasedCellInit
    /\ graceful_counter = 0
    /\ graceful_holder = Nobody
    /\ result_w = [t \in Threads |-> "none"]

Return(t) == W!Return(t) /\ UNCHANGED memory

phase_acquire(t) == Cell!phase_acquire(t) /\ UNCHANGED waits

WaitLock(t)  == W!WaitLock(t)  /\ UNCHANGED memory
WaitSleep(t) == W!WaitSleep(t) /\ UNCHANGED memory
WaitWake(t)  == W!WaitWake(t)  /\ UNCHANGED memory

-----------------------------------------------------------------------------
(* transition_to_read *)

ToReadBegin(t)   == Cell!ToReadBegin(t)   /\ UNCHANGED waits
ToReadRefused(t) == Cell!ToReadRefused(t) /\ UNCHANGED waits
ToReadRun(t)     == Cell!ToReadRun(t)     /\ UNCHANGED waits

\* Mutant of ToReadCommit: a failed transition has nothing to tell.
ToReadCommitMute(t) ==
    /\ Cell!Step(t, "transition_to_read", "commit", IF res[t] = Ok THEN "notify" ELSE "ret")
    /\ Cell!change_phase(t, PHASE_SETUP_TO_READ,
                         IF res[t] = Ok THEN PHASE_READ ELSE PHASE_SETUP)
    /\ UNCHANGED <<res, waits>>

\* The waiting readers are notified afterwards, whatever came of the closure.
ToReadCommit(t) ==
    /\ Cell!Step(t, "transition_to_read", "commit", "notify")
    /\ Cell!change_phase(t, PHASE_SETUP_TO_READ,
                         IF res[t] = Ok THEN PHASE_READ ELSE PHASE_SETUP)
    /\ UNCHANGED <<res, waits>>

notify_read_phase(t) == W!notify_read_phase(t) /\ UNCHANGED memory

transition_to_read(t) ==
    ToReadBegin(t) \/ ToReadRefused(t) \/ ToReadRun(t) \/ ToReadCommit(t)
        \/ notify_read_phase(t)

-----------------------------------------------------------------------------
(* transition_to_cleanup *)

\* It waits for the readers before it touches the data.
ToCleanupBegin(t) ==
    /\ phase \in {PHASE_SETUP, PHASE_READ}
    /\ Cell!Enter(t, "transition_to_cleanup", "gate")
    /\ phase' = Via(phase)
    /\ Cell!AcqRel(t)
    /\ UNCHANGED <<res, waits>>

\* One turn of the loop of wait_for_cleanup_phase; the closure runs after it, also
\* when the wait timed out.
CleanupCheck(t) == W!CleanupTurn(t, "run") /\ UNCHANGED memory

ToCleanupRefused(t) == Cell!ToCleanupRefused(t) /\ UNCHANGED waits
ToCleanupRun(t)     == Cell!ToCleanupRun(t)     /\ UNCHANGED waits
ToCleanupCommit(t)  == Cell!ToCleanupCommit(t)  /\ UNCHANGED waits

transition_to_cleanup(t) ==
    ToCleanupBegin(t) \/ ToCleanupRefused(t) \/ CleanupCheck(t) \/ ToCleanupRun(t)
        \/ ToCleanupCommit(t)

-----------------------------------------------------------------------------
(* read, read_relaxed and finish_reading *)

ReadBegin(t) ==
    /\ phase \in {PHASE_READ, PHASE_SETUP_TO_READ}
    /\ Cell!Enter(t, "read", IF phase = PHASE_READ THEN "look" ELSE "gate")
    /\ Cell!Acquire(t)
    /\ UNCHANGED <<phase, res, waits>>

ReadRelaxedBegin(t) == Cell!ReadRelaxedBegin(t) /\ UNCHANGED waits

\* read is refused where it need not wait, read_relaxed wherever it cannot go on.
ReadRefused(t) ==
    /\ Cell!ReadRefused(t)
    /\ call'[t] = "read" => phase # PHASE_SETUP_TO_READ
    /\ UNCHANGED waits

\* Mutant of ReadCheck: a reader that has waited loads the phase with
\* Ordering::Relaxed.
ReadCheckRelaxed(t) == W!ReadCheck(t) /\ UNCHANGED memory

\* One turn of the loop of wait_for_read_phase.
ReadCheck(t) == W!ReadCheck(t) /\ Cell!Acquire(t)

\* The &T is made before the reader is counted.
ReadLook(t) ==
    /\ pc[t] = "look"
    /\ pc' = [pc EXCEPT ![t] = "count"]
    /\ res' = [res EXCEPT ![t] = Ok]
    /\ UNCHANGED <<phase, memory, call, old, waits>>

count_up(t) == W!count_up(t) /\ UNCHANGED memory

finish_reading(t)      == W!finish_reading(t)      /\ UNCHANGED memory
ExcessFinishReading(t) == W!ExcessFinishReading(t) /\ UNCHANGED memory
NotifyDrained(t)       == W!NotifyDrained(t)       /\ UNCHANGED memory

read(t) == ReadBegin(t) \/ ReadRefused(t) \/ ReadCheck(t) \/ ReadLook(t) \/ count_up(t)
read_relaxed(t) == ReadRelaxedBegin(t)

count_down(t) == finish_reading(t) \/ ExcessFinishReading(t) \/ NotifyDrained(t)

-----------------------------------------------------------------------------
get_mut_unlocked(t) == Cell!get_mut_unlocked(t) /\ UNCHANGED waits

GracefulNext ==
    \E t \in Threads :
        \/ transition_to_read(t) \/ transition_to_cleanup(t)
        \/ read(t) \/ read_relaxed(t) \/ count_down(t)
        \/ get_mut_unlocked(t) \/ phase_acquire(t)
        \/ WaitLock(t) \/ WaitSleep(t) \/ WaitWake(t) \/ Return(t)

GracefulSpec == GracefulInit /\ [][GracefulNext]_vars

-----------------------------------------------------------------------------
(* Properties *)

\* Every variable keeps to its set of values.
TypeOK ==
    /\ phase \in PhaseCode
    /\ synced \subseteq Threads
    /\ published \in BOOLEAN
    /\ pc \in [Threads -> Cell!PC \cup W!GracefulPC]
    /\ call \in [Threads -> Cell!Method \cup {"none", "finish_reading"}]
    /\ old \in [Threads -> PhaseCode]
    /\ res \in [Threads -> Result]
    /\ graceful_counter \in Nat
    /\ graceful_holder \in Threads \cup {Nobody}
    /\ result_w \in [Threads -> {"none", "Ok", "Timeout"}]

\* As long as the cell is in Read, a reader happens after all of Setup, one that has waited
\* for Read on the condition variable too: it loads the phase anew, with Acquire.
ReadersSeeSetup ==
    phase = PHASE_READ =>
        \A t \in Threads :
            call[t] = "read" /\ pc[t] \in {"look", "count", "reading"} => t \in synced

\* No sleeper is forgotten: if what it waits for has come about, the thread that
\* brought it about has still to notify.  Nor does a surplus finish_reading that takes
\* the counter to zero forget to.
NoLostWakeup == W!NoLostWakeup

\* The same cell seen as a PhasedCell: a waiting reader only looks at the phase now
\* and then, a waiting cleanup is about to run its closure.
SeenIdle(t) ==
    \/ call[t] = "finish_reading"
    \/ call[t] = "read" /\ W!Waiting(t)
pcBar ==
    [t \in Threads |->
        IF SeenIdle(t) THEN "idle"
        ELSE IF call[t] = "transition_to_cleanup" /\ W!Waiting(t) THEN "run"
        ELSE IF pc[t] = "count" THEN "reading"
        ELSE IF pc[t] \in {"last", "notify"} THEN "ret"
        ELSE pc[t]]
callBar == [t \in Threads |-> IF pcBar[t] = "idle" THEN "none" ELSE call[t]]
oldBar  == [t \in Threads |-> IF pcBar[t] = "idle" THEN PHASE_SETUP ELSE old[t]]
resBar  ==
    [t \in Threads |-> IF res[t].kind = "GracefulWaitTimeout"
                       THEN Err(PHASE_SETUP_TO_READ, "CannotCallUnlessPhaseRead")
                       ELSE res[t]]

P == INSTANCE PhasedCell
        WITH pc <- pcBar, call <- callBar, old <- oldBar, res <- resBar

\* Waiting, counting and notifying change nothing of what PhasedCell does, its memory
\* ordering included: a reader that has waited happens after all of Setup too.
ImplementsPhasedCell == P!PhasedCellSpec
-----------------------------------------------------------------------------
(* The inductive invariant behind TypeOK and NoLostWakeup *)

\* Which method is at which place, and that a thread that is in no method of PhasedCell
\* has no result.
PlaceAt(t) ==
    /\ pc[t] = "idle" <=> call[t] = "none"
    /\ pc[t] \in {"run", "commit"}
          => call[t] \in {"transition_to_read", "transition_to_cleanup"}
    /\ pc[t] = "notify" => call[t] = "transition_to_read"
    /\ W!Waiting(t) => call[t] \in {"read", "transition_to_cleanup"}
    /\ pc[t] \in {"look", "count", "reading"} => call[t] \in {"read", "read_relaxed"}
    /\ pc[t] = "exclusive" => call[t] = "get_mut_unlocked"
    /\ call[t] = "finish_reading" => pc[t] \in {"last", "ret"}
    /\ call[t] \in {"none", "finish_reading"} => res[t] = NoResult

\* Thread t is between opening a transition and publishing its outcome.
InTransition(t) ==
    /\ call[t] \in {"transition_to_read", "transition_to_cleanup"}
    /\ W!Waiting(t) \/ pc[t] \in {"run", "commit"}

\* A thread in a transition is the only one, and the phase is the one it has set.
OwnerInv ==
    /\ \A t, u \in Threads : InTransition(t) /\ InTransition(u) => t = u
    /\ \A t \in Threads : InTransition(t) =>
          phase = IF call[t] = "transition_to_read" THEN PHASE_SETUP_TO_READ ELSE Via(old[t])

\* Before the cell is in Read there is no reader, and none is counted: a cleanup from
\* Setup, which the last reader would not notify, never sleeps.
SetupInv ==
    phase \in {PHASE_SETUP, PHASE_SETUP_TO_READ, PHASE_SETUP_TO_CLEANUP} =>
        /\ graceful_counter = 0
        /\ \A t \in Threads : /\ pc[t] \notin {"look", "count", "reading"}
                              /\ pc[t] \in {"wait", "asleep"} => call[t] = "read"

\* While a caller has the &mut T of get_mut_unlocked nobody else is in the cell, unless
\* with a surplus finish_reading, which does not go near the data.
AloneInv ==
    \A t, u \in Threads :
        pc[t] = "exclusive" /\ u # t => \/ pc[u] = "idle"
                                       \/ call[u] = "finish_reading"

\* A thread holds graceful_mutex exactly while it tests what it waits for and until it
\* sleeps.
GateInv == \A t \in Threads : pc[t] \in {"check", "wait"} <=> graceful_holder = t

\* NoLostWakeup, from the moment the test has failed.
WakeInv ==
    \A t \in Threads : pc[t] \in {"wait", "asleep"} =>
        /\ call[t] = "transition_to_cleanup" /\ graceful_counter = 0
             => \E u \in Threads : pc[u] = "last"
        /\ call[t] = "read" /\ phase # PHASE_SETUP_TO_READ
             => \E u \in Threads : pc[u] = "notify"

Inv ==
    /\ TypeOK
    /\ \A t \in Threads : PlaceAt(t)
    /\ OwnerInv /\ SetupInv /\ AloneInv /\ GateInv /\ WakeInv
==============================================================================
