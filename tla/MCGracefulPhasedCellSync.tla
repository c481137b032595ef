----------------------- MODULE MCGracefulPhasedCellSync -----------------------
(* Model-checking instance of GracefulPhasedCellSync. *)
EXTENDS GracefulPhasedCellSync, TLC

\* Threads are interchangeable: sound for the safety runs, which have no misusers.
ThreadSymmetry == Permutations(Threads)

\* Nobody calls lock, try_lock or read_relaxed, which never wait on graceful_mutex, and no
\* wait ends early: this leaves the liveness run the three threads it takes for two to
\* compete for it.
UnlockedNext ==
    \E t \in Threads :
        \/ transition_to_read(t) \/ transition_to_cleanup(t)
        \/ read(t) \/ finish_reading(t) \/ ExcessFinishReading(t) \/ NotifyDrained(t)
        \/ WaitLock(t) \/ WaitSleep(t) \/ Unlock(t) \/ Return(t)

UnlockedFairSpec == GracefulInit /\ [][UnlockedNext]_vars /\ Fairness
==============================================================================
