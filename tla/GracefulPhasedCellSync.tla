------------------------ MODULE GracefulPhasedCellSync ------------------------
(***************************************************************************)
(* GracefulPhasedCellSync<T> (src/src/graceful/phased_cell_sync.rs):       *)
(* PhasedCellSync plus a count of active readers, and a mutex and a        *)
(* condition variable on which readers wait for Read and a cleanup waits   *)
(* for the readers.                                                        *)
(*                                                                         *)
(* Where the code of the two cells is the same line by line, an action     *)
(* here is the one of PhasedCellSync, reached as Cell!A, with the graceful *)
(* variables added.                                                        *)
(***************************************************************************)
EXTENDS Phase, FiniteSets

CONSTANTS Threads,       \* the threads that share the cell
          Nobody,        \* "no thread holds the mutex"
          TimeoutsFire,  \* may a condvar wait end early, by time-out or spuriously?
          Misusers       \* threads that may call finish_reading without a read

ASSUME GracefulAssumption ==
    /\ IsFiniteSet(Threads) /\ Nobody \notin Threads
    /\ TimeoutsFire \in BOOLEAN /\ Misusers \subseteq Threads

VARIABLES
    phase, data_mutex, data_cell, holder, poisoned, pc, call, old, res,
    graceful_counter,  \* the AtomicUsize
    graceful_holder,   \* the thread that holds graceful_mutex
    seen,              \* the phase lock and try_lock load first, for their errors
    result_w           \* the result of a cleanup's wait: "none", "Ok", "Timeout"

Cell == INSTANCE PhasedCellSync

cellVars == <<phase, data_mutex, data_cell, holder, poisoned, pc, call, old, res>>
graceful == <<graceful_counter, graceful_holder, seen, result_w>>
vars == <<cellVars, graceful>>

data == <<data_mutex, data_cell>>
mutex == <<holder, poisoned>>

GracefulPC ==
    Cell!PC \cup
    {"gate",     \* about to lock graceful_mutex, to wait
     "check",    \* holds graceful_mutex, about to test what it waits for
     "wait",     \* the test failed: about to call wait_timeout
     "asleep",   \* in wait_timeout, graceful_mutex released
     "notify",   \* a transition to Read, about to call notify_read_phase
     "peeked",   \* lock has loaded the phase once
     "count",    \* read has its &T, about to call count_up
     "last"}     \* count_down took the counter to 0, about to notify

\* A thread in wait_for_read_phase or wait_for_cleanup_phase.
Waiting(t) == pc[t] \in {"gate", "check", "wait", "asleep"}

GracefulInit ==
    /\ Cell!PhasedCellSyncInit
    /\ graceful_counter = 0
    /\ graceful_holder = Nobody
    /\ seen     = [t \in Threads |-> PHASE_SETUP]
    /\ result_w = [t \in Threads |-> "none"]

\* What the caller gets: a cleanup whose wait timed out reports that, whatever its
\* closure did, unless it could not even run the closure.
Returned(t) ==
    IF result_w[t] = "Timeout" /\ res[t].kind # "InternalDataMutexIsPoisoned"
    THEN Err(PHASE_READ_TO_CLEANUP, "GracefulWaitTimeout")
    ELSE res[t]

Return(t) ==
    /\ Cell!Return(t)
    /\ seen'     = [seen EXCEPT ![t] = PHASE_SETUP]
    /\ result_w' = [result_w EXCEPT ![t] = "none"]
    /\ UNCHANGED <<graceful_counter, graceful_holder>>

-----------------------------------------------------------------------------
(* The condition variable *)

\* Condvar::notify_all: every sleeper leaves and goes for graceful_mutex again.
Woken(t) == IF pc[t] = "asleep" THEN "gate" ELSE pc[t]

\* Lock graceful_mutex, notify_all, unlock; t goes on to `next`.
NotifyAll(t, next) ==
    /\ graceful_holder = Nobody
    /\ pc' = [u \in Threads |-> IF u = t THEN next ELSE Woken(u)]

WaitLock(t) ==
    /\ pc[t] = "gate"
    /\ graceful_holder = Nobody
    /\ graceful_holder' = t
    /\ pc' = [pc EXCEPT ![t] = "check"]
    /\ UNCHANGED <<phase, data, mutex, call, old, res, graceful_counter, seen, result_w>>

\* wait_timeout releases graceful_mutex and sleeps, in one step.
WaitSleep(t) ==
    /\ pc[t] = "wait"
    /\ pc' = [pc EXCEPT ![t] = "asleep"]
    /\ graceful_holder' = Nobody
    /\ UNCHANGED <<phase, data, mutex, call, old, res, graceful_counter, seen, result_w>>

\* wait_timeout comes back without a notification.
WaitWake(t) ==
    /\ TimeoutsFire
    /\ pc[t] = "asleep"
    /\ pc' = [pc EXCEPT ![t] = "gate"]
    /\ UNCHANGED <<phase, data, mutex, call, old, res, graceful>>

-----------------------------------------------------------------------------
(* transition_to_read *)

ToReadBegin(t)   == Cell!ToReadBegin(t)   /\ UNCHANGED graceful
ToReadRefused(t) == Cell!ToReadRefused(t) /\ UNCHANGED graceful
ToReadLock(t)    == Cell!ToReadLock(t)    /\ UNCHANGED graceful
ToReadRun(t)     == Cell!ToReadRun(t)     /\ UNCHANGED graceful
ToReadSwap(t)    == Cell!ToReadSwap(t)    /\ UNCHANGED graceful

\* With a poisoned mutex the waiting readers are notified before its release.
ToReadCommit(t) ==
    /\ Cell!Step(t, "transition_to_read", "commit",
                 IF res[t].kind = "InternalDataMutexIsPoisoned" THEN "notify" ELSE "unlock")
    /\ Cell!change_phase(PHASE_SETUP_TO_READ, IF res[t] = Ok THEN PHASE_READ ELSE old[t])
    /\ UNCHANGED <<data, mutex, res, graceful>>

\* Mutant of notify_read_phase: only a success is worth telling.
notify_read_phase_if_ok(t) ==
    /\ pc[t] = "notify"
    /\ IF res[t] = Ok
       THEN NotifyAll(t, "ret")
       ELSE pc' = [pc EXCEPT ![t] = IF holder = t THEN "unlock" ELSE "ret"]
    /\ UNCHANGED <<phase, data, mutex, call, old, res, graceful>>

notify_read_phase(t) ==
    /\ pc[t] = "notify"
    /\ NotifyAll(t, IF holder = t THEN "unlock" ELSE "ret")
    /\ UNCHANGED <<phase, data, mutex, call, old, res, graceful>>

\* drop(data_opt), which every other arm of transition_to_read notifies after.
Unlock(t) ==
    /\ pc[t] = "unlock"
    /\ pc' = [pc EXCEPT ![t] =
                 IF call[t] = "transition_to_read"
                    /\ res[t].kind # "InternalDataMutexIsPoisoned"
                 THEN "notify" ELSE "ret"]
    /\ holder' = Nobody
    /\ UNCHANGED <<phase, data, poisoned, call, old, res, graceful>>

transition_to_read(t) ==
    ToReadBegin(t) \/ ToReadRefused(t) \/ ToReadLock(t) \/ ToReadRun(t)
        \/ ToReadSwap(t) \/ ToReadCommit(t) \/ notify_read_phase(t)

-----------------------------------------------------------------------------
(* transition_to_cleanup *)

\* From Read it waits for the readers before it locks data_mutex.
ToCleanupBegin(t) ==
    /\ phase \in {PHASE_SETUP, PHASE_READ}
    /\ Cell!Enter(t, "transition_to_cleanup", IF phase = PHASE_READ THEN "gate" ELSE "lock")
    /\ phase' = Via(phase)
    /\ UNCHANGED <<data, mutex, res, graceful>>

\* Mutants of CleanupCheck: one reader is none, and a time-out abandons the transition.
CleanupCheckOffByOne(t) ==
    /\ call[t] = "transition_to_cleanup"
    /\ pc[t] = "check"
    /\ result_w' = [result_w EXCEPT ![t] = IF graceful_counter <= 1 THEN "Ok" ELSE "none"]
    /\ pc' = [pc EXCEPT ![t] = IF result_w'[t] = "none" THEN "wait" ELSE "lock"]
    /\ graceful_holder' = IF result_w'[t] = "none" THEN t ELSE Nobody
    /\ UNCHANGED <<phase, data, mutex, call, old, res, graceful_counter, seen>>
CleanupCheckGivesUp(t) ==
    /\ call[t] = "transition_to_cleanup"
    /\ pc[t] = "check"
    /\ pc' = [pc EXCEPT ![t] = IF graceful_counter = 0 THEN "lock" ELSE "ret"]
    /\ graceful_holder' = Nobody
    /\ result_w' = [result_w EXCEPT ![t] = IF graceful_counter = 0 THEN "Ok" ELSE "Timeout"]
    /\ UNCHANGED <<phase, data, mutex, call, old, res, graceful_counter, seen>>

\* One turn of the loop of wait_for_cleanup_phase, which ends the wait and lets t go on to
\* `next`, or not yet.
CleanupTurn(t, next) ==
    /\ call[t] = "transition_to_cleanup"
    /\ pc[t] = "check"
    /\ \/ /\ graceful_counter = 0
          /\ result_w' = [result_w EXCEPT ![t] = "Ok"]
       \/ /\ graceful_counter # 0
          /\ TimeoutsFire
          /\ result_w' = [result_w EXCEPT ![t] = "Timeout"]
       \/ /\ graceful_counter # 0
          /\ UNCHANGED result_w
    /\ pc' = [pc EXCEPT ![t] = IF result_w'[t] = "none" THEN "wait" ELSE next]
    /\ graceful_holder' = IF result_w'[t] = "none" THEN t ELSE Nobody
    /\ UNCHANGED <<phase, data, mutex, call, old, res, graceful_counter, seen>>

\* Mutant of CleanupCheck: goes for data_mutex with graceful_mutex locked.
CleanupCheckKeepsMutex(t) ==
    /\ call[t] = "transition_to_cleanup"
    /\ pc[t] = "check"
    /\ result_w' = [result_w EXCEPT ![t] = IF graceful_counter = 0 THEN "Ok" ELSE "Timeout"]
    /\ pc' = [pc EXCEPT ![t] = "lock"]
    /\ UNCHANGED <<phase, data, mutex, call, old, res, graceful_counter, graceful_holder, seen>>

\* The wait over, the cleanup goes for data_mutex.
CleanupCheck(t) == CleanupTurn(t, "lock")

ToCleanupRefused(t) == Cell!ToCleanupRefused(t) /\ UNCHANGED graceful
ToCleanupLock(t)    == Cell!ToCleanupLock(t)    /\ UNCHANGED graceful
ToCleanupRun(t)     == Cell!ToCleanupRun(t)     /\ UNCHANGED graceful
ToCleanupSwap(t)    == Cell!ToCleanupSwap(t)    /\ UNCHANGED graceful
ToCleanupCommit(t)  == Cell!ToCleanupCommit(t)  /\ UNCHANGED graceful

transition_to_cleanup(t) ==
    ToCleanupBegin(t) \/ ToCleanupRefused(t) \/ CleanupCheck(t) \/ ToCleanupLock(t)
        \/ ToCleanupRun(t) \/ ToCleanupSwap(t) \/ ToCleanupCommit(t)

-----------------------------------------------------------------------------
(* lock and try_lock: they load the phase twice, first for their errors, then to
   decide *)

LockPeek(t) ==
    /\ pc[t] = "idle"
    /\ \E m \in {"lock", "try_lock"} : call' = [call EXCEPT ![t] = m]
    /\ pc' = [pc EXCEPT ![t] = "peeked"]
    /\ seen' = [seen EXCEPT ![t] = phase]
    /\ UNCHANGED <<phase, data, mutex, old, res, graceful_counter, graceful_holder, result_w>>

\* Mutant of LockDecide: the second load decides nothing any more.
LockDecideAnyway(t) ==
    /\ pc[t] = "peeked"
    /\ pc' = [pc EXCEPT ![t] = "lock"]
    /\ old' = [old EXCEPT ![t] = phase]
    /\ UNCHANGED <<phase, data, mutex, call, res, graceful>>

LockDecide(t) ==
    /\ pc[t] = "peeked"
    /\ pc' = [pc EXCEPT ![t] = IF Cell!Lockable THEN "lock" ELSE "ret"]
    /\ old' = [old EXCEPT ![t] = phase]
    /\ res' = [res EXCEPT ![t] = IF Cell!Lockable THEN NoResult ELSE LockRefusal(phase)]
    /\ UNCHANGED <<phase, data, mutex, call, graceful>>

LockFault(t) ==
    CASE poisoned -> Err(seen[t], "InternalDataMutexIsPoisoned")
      [] ~poisoned /\ data_mutex = "None" -> Err(seen[t], "InternalDataUnavailable")
      [] OTHER -> NoResult

LockAcquire(t) ==
    /\ holder = Nobody
    /\ holder' = t
    /\ \E m \in {"lock", "try_lock"} :
          Cell!Step(t, m, "lock", IF LockFault(t) = NoResult THEN "guard" ELSE "unlock")
    /\ res' = [res EXCEPT ![t] = LockFault(t)]
    /\ UNCHANGED <<phase, data, poisoned, graceful>>

TryLockFails(t) ==
    /\ holder # Nobody
    /\ Cell!Step(t, "try_lock", "lock", "ret")
    /\ res' = [res EXCEPT ![t] = Err(seen[t], "MutexTryLockFailed")]
    /\ UNCHANGED <<phase, data, mutex, graceful>>

GuardDrop(t) == Cell!GuardDrop(t) /\ UNCHANGED graceful

lock(t) == LockPeek(t) \/ LockDecide(t) \/ LockAcquire(t)
try_lock(t) == TryLockFails(t)

-----------------------------------------------------------------------------
(* read, read_relaxed and finish_reading *)

Reading == {"read", "read_relaxed"}

ReadBegin(t) ==
    /\ phase \in {PHASE_READ, PHASE_SETUP_TO_READ}
    /\ Cell!Enter(t, "read", IF phase = PHASE_READ THEN "look" ELSE "gate")
    /\ UNCHANGED <<phase, data, mutex, res, graceful>>

ReadRefused(t) ==
    /\ phase \notin {PHASE_READ, PHASE_SETUP_TO_READ}
    /\ Cell!Refuse(t, "read", Err(phase, "CannotCallUnlessPhaseRead"))
    /\ UNCHANGED graceful

\* One turn of the loop of wait_for_read_phase.
ReadCheck(t) ==
    /\ call[t] = "read"
    /\ pc[t] = "check"
    /\ old' = [old EXCEPT ![t] = phase]
    /\ \/ /\ phase = PHASE_READ
          /\ pc' = [pc EXCEPT ![t] = "look"]
          /\ graceful_holder' = Nobody
          /\ UNCHANGED res
       \/ /\ phase = PHASE_SETUP_TO_READ
          /\ pc' = [pc EXCEPT ![t] = "wait"]
          /\ UNCHANGED <<graceful_holder, res>>
       \/ /\ phase = PHASE_SETUP_TO_READ
          /\ TimeoutsFire
          /\ pc' = [pc EXCEPT ![t] = "ret"]
          /\ graceful_holder' = Nobody
          /\ res' = [res EXCEPT ![t] = Err(phase, "GracefulWaitTimeout")]
       \/ /\ phase \notin {PHASE_READ, PHASE_SETUP_TO_READ}
          /\ pc' = [pc EXCEPT ![t] = "ret"]
          /\ graceful_holder' = Nobody
          /\ res' = [res EXCEPT ![t] = Err(phase, "CannotCallUnlessPhaseRead")]
    /\ UNCHANGED <<phase, data, mutex, call, graceful_counter, seen, result_w>>

\* The &T is made before the reader is counted; the error of read, and not that of
\* read_relaxed, loads the phase anew.
ReadLook(t) ==
    /\ \E m \in Reading :
          Cell!Step(t, m, "look", IF data_cell = "Some" THEN "count" ELSE "ret")
    /\ res' = [res EXCEPT ![t] =
                  IF data_cell = "Some" THEN Ok
                  ELSE Err(IF call[t] = "read" THEN phase ELSE PHASE_READ,
                           "InternalDataUnavailable")]
    /\ UNCHANGED <<phase, data, mutex, graceful>>

count_up(t) ==
    /\ \E m \in Reading : Cell!Step(t, m, "count", "reading")
    /\ graceful_counter' = graceful_counter + 1
    /\ UNCHANGED <<phase, data, mutex, res, graceful_holder, seen, result_w>>

\* read_relaxed never waits.
ReadRelaxedBegin(t) ==
    /\ phase = PHASE_READ
    /\ Cell!Enter(t, "read_relaxed", "look")
    /\ UNCHANGED <<phase, data, mutex, res, graceful>>

ReadRelaxedRefused(t) ==
    /\ phase # PHASE_READ
    /\ Cell!Refuse(t, "read_relaxed", Err(phase, "CannotCallUnlessPhaseRead"))
    /\ UNCHANGED graceful

read_relaxed(t) == ReadRelaxedBegin(t) \/ ReadRelaxedRefused(t)
read(t) == ReadBegin(t) \/ ReadRefused(t) \/ ReadCheck(t) \/ ReadLook(t) \/ count_up(t)

\* Mutant of Decrement: a plain fetch_sub, which wraps (here modulo 8).
DecrementWraps(t) ==
    /\ graceful_counter' = (graceful_counter + 7) % 8
    /\ pc' = [pc EXCEPT ![t] = IF graceful_counter = 1 THEN "last" ELSE "ret"]
    /\ UNCHANGED <<phase, data, mutex, old, res, graceful_holder, seen, result_w>>

\* The atomic part of count_down; the one that takes the counter to 0 has more to do.
Decrement(t) ==
    /\ graceful_counter' = IF graceful_counter = 0 THEN 0 ELSE graceful_counter - 1
    /\ pc' = [pc EXCEPT ![t] = IF graceful_counter = 1 THEN "last" ELSE "ret"]
    /\ UNCHANGED <<phase, data, mutex, old, res, graceful_holder, seen, result_w>>

\* The caller is done with its &T and says so.
finish_reading(t) ==
    /\ pc[t] = "reading"
    /\ Decrement(t)
    /\ UNCHANGED call

\* A caller that has no &T says it is done with one.
ExcessFinishReading(t) ==
    /\ t \in Misusers
    /\ pc[t] = "idle"
    /\ call' = [call EXCEPT ![t] = "finish_reading"]
    /\ Decrement(t)

\* Mutants of NotifyDrained: without graceful_mutex, and telling nobody.
NotifyDrainedUnlocked(t) ==
    /\ pc[t] = "last"
    /\ pc' = [u \in Threads |-> IF u = t THEN "ret" ELSE Woken(u)]
    /\ UNCHANGED <<phase, data, mutex, call, old, res, graceful>>
NotifyDrainedMute(t) ==
    /\ pc[t] = "last"
    /\ graceful_holder = Nobody
    /\ pc' = [pc EXCEPT ![t] = "ret"]
    /\ UNCHANGED <<phase, data, mutex, call, old, res, graceful>>

\* The rest of count_down: under graceful_mutex, only a cleanup in progress is told.
NotifyDrained(t) ==
    /\ pc[t] = "last"
    /\ IF phase = PHASE_READ_TO_CLEANUP
       THEN NotifyAll(t, "ret")
       ELSE graceful_holder = Nobody /\ pc' = [pc EXCEPT ![t] = "ret"]
    /\ UNCHANGED <<phase, data, mutex, call, old, res, graceful>>

-----------------------------------------------------------------------------
\* Steps a thread takes without the caller's decision, plus the end of a guard.
Progress(t) ==
    \/ ToReadLock(t) \/ ToReadRun(t) \/ ToReadSwap(t) \/ ToReadCommit(t)
    \/ notify_read_phase(t)
    \/ CleanupCheck(t) \/ ToCleanupLock(t) \/ ToCleanupRun(t) \/ ToCleanupSwap(t)
    \/ ToCleanupCommit(t)
    \/ LockDecide(t) \/ LockAcquire(t) \/ TryLockFails(t) \/ GuardDrop(t)
    \/ ReadCheck(t) \/ ReadLook(t) \/ count_up(t) \/ NotifyDrained(t)
    \/ WaitLock(t) \/ WaitSleep(t) \/ Unlock(t) \/ Return(t)

GracefulNext ==
    \E t \in Threads :
        \/ transition_to_read(t) \/ transition_to_cleanup(t)
        \/ lock(t) \/ try_lock(t) \/ GuardDrop(t)
        \/ read(t) \/ read_relaxed(t)
        \/ finish_reading(t) \/ ExcessFinishReading(t) \/ NotifyDrained(t)
        \/ WaitLock(t) \/ WaitSleep(t) \/ WaitWake(t)
        \/ Unlock(t) \/ Return(t)

GracefulSpec == GracefulInit /\ [][GracefulNext]_vars

\* Thread t takes graceful_mutex.
TakesGracefulMutex(t) == WaitLock(t) \/ notify_read_phase(t) \/ NotifyDrained(t)

\* Scheduled threads run, closures return, guards are dropped, a thread that keeps
\* finding graceful_mutex released gets it in the end, and every caller of read
\* calls finish_reading in the end: the contract graceful cleanup rests on.
Fairness ==
    \A t \in Threads : /\ WF_vars(Progress(t))
                       /\ SF_vars(TakesGracefulMutex(t))
                       /\ WF_vars(finish_reading(t))

FairSpec == GracefulSpec /\ Fairness

-----------------------------------------------------------------------------
(* Properties *)

\* Every variable keeps to its set of values.
TypeOK ==
    /\ phase \in PhaseCode
    /\ data_mutex \in {"Some", "None"}
    /\ data_cell \in {"Some", "None"}
    /\ holder \in Threads \cup {Nobody}
    /\ poisoned \in BOOLEAN
    /\ pc \in [Threads -> GracefulPC]
    /\ call \in [Threads -> Cell!Method \cup {"none", "read_relaxed", "finish_reading"}]
    /\ old \in [Threads -> PhaseCode]
    /\ res \in [Threads -> Result]
    /\ graceful_counter \in Nat
    /\ graceful_holder \in Threads \cup {Nobody}
    /\ seen \in [Threads -> PhaseCode]
    /\ result_w \in [Threads -> {"none", "Ok", "Timeout"}]

Counted == {t \in Threads : pc[t] = "reading"}

\* The counter never wraps below zero nor counts a reader that is gone, whatever
\* calls of finish_reading were one too many.
CounterBounded == graceful_counter <= Cardinality(Counted)

\* A cleanup's wait ends well only at a moment when no counted reader has its &T.
WaitOkOnlyWhenDrained ==
    [][\A t \in Threads :
          result_w[t] # "Ok" /\ result_w'[t] = "Ok" => Counted = {}]_vars

\* No sleeper is forgotten: if what it waits for has come about, the thread that
\* brought it about has still to notify.
NoLostWakeup ==
    \A t \in Threads : pc[t] = "asleep" =>
        /\ call[t] = "transition_to_cleanup" /\ graceful_counter = 0
             => \E u \in Threads : pc[u] = "last"
        /\ call[t] = "read" /\ phase # PHASE_SETUP_TO_READ
             => \E u \in Threads : /\ call[u] = "transition_to_read"
                                   /\ pc[u] \in {"unlock", "notify"}

\* Thread t needs data_mutex, or graceful_mutex, for its next step.
WantsData(t)     == pc[t] = "lock" /\ call[t] # "try_lock"
WantsGraceful(t) == pc[t] \in {"gate", "notify", "last"}

\* Thread t cannot go on by itself.
Blocked(t) ==
    \/ WantsData(t) /\ holder # Nobody
    \/ WantsGraceful(t) /\ graceful_holder # Nobody
    \/ pc[t] = "asleep"

\* Thread u holds the mutex that t needs; or it is a reader that a sleeping cleanup waits
\* for; or it is in the transition that a sleeping reader waits for, or has yet to announce
\* its end.
WaitsFor(t, u) ==
    \/ WantsData(t) /\ holder = u
    \/ WantsGraceful(t) /\ graceful_holder = u
    \/ /\ pc[t] = "asleep" /\ call[t] = "transition_to_cleanup"
       /\ pc[u] \in {"reading", "last"}
    \/ /\ pc[t] = "asleep" /\ call[t] = "read"
       /\ call[u] = "transition_to_read"
       /\ pc[u] \in {"lock", "run", "swap", "commit", "unlock", "notify"}

\* The order in which things are waited for: sleepers wait for threads that may need a
\* mutex, who needs data_mutex waits for one that may need graceful_mutex, who needs
\* graceful_mutex waits for one that needs nothing.
WaitLevel(t) ==
    IF pc[t] = "asleep" THEN 3
    ELSE IF WantsData(t) THEN 2
    ELSE IF WantsGraceful(t) THEN 1
    ELSE 0

\* No deadlock, not even among some of the threads: a thread that cannot go on waits for
\* one, and every chain of threads waiting for each other goes down.  At its end is a
\* thread that can go on, or a caller that keeps its guard or its &T.
NoCircularWait ==
    \A t \in Threads : Blocked(t) =>
        /\ \E u \in Threads : WaitsFor(t, u)
        /\ \A u \in Threads : WaitsFor(t, u) => WaitLevel(u) < WaitLevel(t)

\* Of the two phases that lock and try_lock load, the second decides and the first is named
\* in the errors.  It may be out of date, but is none of the future, and no call names one
\* that the cell has not reached.  Who is told that the data is gone was let in by Setup, is
\* told so, and the cell has left Setup since: what is gone was there when the call began.
ErrorsLagBehind ==
    \A t \in Threads :
        /\ Returned(t).phase # "None" => Rank(Returned(t).phase) <= Rank(u8_to_phase(phase))
        /\ call[t] \in {"lock", "try_lock"} /\ res[t].kind = "InternalDataUnavailable" =>
              res[t].phase = "Setup" /\ u8_to_phase(phase) # "Setup"

\* Every transition that starts also returns, by notifications alone.
TransitionsEnd ==
    \A t \in Threads :
        (call[t] \in {"transition_to_read", "transition_to_cleanup"}) ~> (call[t] = "none")

\* A reader waiting for Read gets its answer by notifications alone, unless the cell
\* keeps failing to reach Read and trying again, when only its time-out saves it.
ReadersAnswered ==
    <>[](phase # PHASE_SETUP_TO_READ) =>
        \A t \in Threads :
            (call[t] = "read" /\ Waiting(t)) ~> (pc[t] \in {"reading", "ret"})

\* The same cell seen as a PhasedCellSync: a waiting reader has not called yet, a
\* waiting cleanup is about to lock, counting and notifying do not show.
SeenIdle(t) ==
    \/ pc[t] = "peeked"
    \/ call[t] = "finish_reading"
    \/ call[t] = "read" /\ Waiting(t)
pcBar ==
    [t \in Threads |->
        IF SeenIdle(t) THEN "idle"
        ELSE IF call[t] = "transition_to_cleanup" /\ Waiting(t) THEN "lock"
        ELSE IF pc[t] = "count" THEN "reading"
        ELSE IF pc[t] = "notify" /\ holder = t THEN "unlock"
        ELSE IF pc[t] \in {"last", "notify"} THEN "ret"
        ELSE pc[t]]
callBar ==
    [t \in Threads |-> IF pcBar[t] = "idle" THEN "none"
                       ELSE IF call[t] = "read_relaxed" THEN "read" ELSE call[t]]
oldBar  == [t \in Threads |-> IF pcBar[t] = "idle" THEN PHASE_SETUP ELSE old[t]]
resBar  ==
    [t \in Threads |->
        IF res[t].kind = "GracefulWaitTimeout"
        THEN Err(PHASE_SETUP_TO_READ, "CannotCallUnlessPhaseRead")
        ELSE IF /\ call[t] \in {"lock", "try_lock", "read"}
                /\ res[t].kind \in {"InternalDataMutexIsPoisoned",
                                    "InternalDataUnavailable", "MutexTryLockFailed"}
        THEN Err(old[t], res[t].kind)
        ELSE res[t]]

P == INSTANCE PhasedCellSync
        WITH pc <- pcBar, call <- callBar, old <- oldBar, res <- resBar

\* Waiting, counting and notifying change nothing of what PhasedCellSync does.
ImplementsPhasedCellSync == P!PhasedCellSyncSpec

\* The closure of a cleanup runs when no reader has its &T any more.
CleanupRunsAlone ==
    \A t, u \in Threads :
        call[t] = "transition_to_cleanup" /\ pc[t] \in {"run", "swap"}
            => pc[u] \notin {"count", "reading"}

\* A panic of the closure reaches the caller of the transition.
PanicIsResumed ==
    \A t \in Threads : pc[t] = "ret" /\ res[t] = Panic => Returned(t) = Panic
-----------------------------------------------------------------------------
(* The inductive invariant behind TypeOK, CounterBounded and NoLostWakeup *)

\* Thread t is between opening a transition and publishing its outcome.
InTransition(t) ==
    /\ call[t] \in {"transition_to_read", "transition_to_cleanup"}
    /\ Waiting(t) \/ pc[t] \in {"lock", "run", "swap", "commit"}

\* Thread t has ended a transition to Read and has still to notify the readers.
Informs(t) ==
    /\ call[t] = "transition_to_read"
    /\ \/ pc[t] = "notify"
       \/ pc[t] = "unlock" /\ res[t].kind # "InternalDataMutexIsPoisoned"

\* Only readers and cleanups wait, only lockers load the phase twice, and a thread holds
\* graceful_mutex exactly while it tests what it waits for and until it sleeps.
GateInv ==
    \A t \in Threads :
        /\ Waiting(t) => call[t] \in {"read", "transition_to_cleanup"}
        /\ pc[t] = "peeked" => call[t] \in {"lock", "try_lock"}
        /\ pc[t] \in {"check", "wait"} <=> graceful_holder = t

\* A thread in a transition is the only one, the phase is the one it has set, and a
\* cleanup that waits has come from Read.
OwnerInv ==
    /\ \A t, u \in Threads : InTransition(t) /\ InTransition(u) => t = u
    /\ \A t \in Threads : InTransition(t) =>
          \/ /\ call[t] = "transition_to_read"
             /\ phase = PHASE_SETUP_TO_READ
          \/ /\ call[t] = "transition_to_cleanup"
             /\ phase = Via(old[t])
             /\ Waiting(t) => old[t] = PHASE_READ

\* The counter never exceeds the readers that were counted, and is their number unless
\* somebody calls finish_reading without a read.
CountInv ==
    /\ CounterBounded
    /\ Misusers = {} => graceful_counter = Cardinality(Counted)

\* NoLostWakeup, from the moment the test has failed: what comes about between the test
\* and the sleep is told only after graceful_mutex has been released by the sleep.
WakeInv ==
    \A t \in Threads : pc[t] \in {"wait", "asleep"} =>
        /\ call[t] = "transition_to_cleanup" /\ graceful_counter = 0
             => \E u \in Threads : pc[u] = "last"
        /\ call[t] = "read" /\ phase # PHASE_SETUP_TO_READ
             => \E u \in Threads : Informs(u)

Inv == TypeOK /\ GateInv /\ OwnerInv /\ CountInv /\ WakeInv
==============================================================================
