------------------------ MODULE PhasedCellSyncProofs ------------------------
(***************************************************************************)
(* Proofs about PhasedCellSync, for any set of threads.                    *)
(*                                                                         *)
(* Inv is inductive: every action preserves each of its seven parts        *)
(* (one lemma per action).  The safety properties follow from Inv, and so  *)
(* does the refinement of Lifecycle: PhaseInv makes the owner of a         *)
(* transition unique.                                                      *)
(***************************************************************************)
EXTENDS PhasedCellSync, TLAPS

\* The phase codes stand for their strings everywhere below.
USE DEF PHASE_SETUP, PHASE_READ, PHASE_CLEANUP, PHASE_SETUP_TO_READ,
        PHASE_READ_TO_CLEANUP, PHASE_SETUP_TO_CLEANUP

-----------------------------------------------------------------------------
(* Each action preserves Inv. *)

\* A new cell satisfies the invariant.
LEMMA InitInv == PhasedCellSyncInit => Inv
  <1> SUFFICES ASSUME PhasedCellSyncInit PROVE Inv
    OBVIOUS
  <1>1. TypeOK
    BY DEF PhasedCellSyncInit, TypeOK, PhaseCode, PC, Result
  <1>2. CallInv /\ MutexInv
    BY ThreadsAssumption DEF PhasedCellSyncInit, CallInv, MutexInv
  <1>3. PhaseInv
    BY DEF PhasedCellSyncInit, PhaseInv, InTransition, InTransit
  <1>4. DataInv /\ PoisonInv
    BY DEF PhasedCellSyncInit, DataInv, PoisonInv, At
  <1>5. ResultInv
    BY DEF PhasedCellSyncInit, ResultInv, At
  <1>6. QED
    BY <1>1, <1>2, <1>3, <1>4, <1>5 DEF Inv

\* A step of ToReadBegin preserves the invariant.
LEMMA ToReadBeginInv == ASSUME Inv, NEW t \in Threads, ToReadBegin(t) PROVE Inv'
  <1>1. TypeOK'
    BY DEF Inv, TypeOK, ToReadBegin, Enter, data, mutex, PC, Method, PhaseCode
  <1>2. CallInv'
    BY DEF Inv, TypeOK, CallInv, ToReadBegin, Enter
  <1>3. MutexInv'
    BY DEF Inv, TypeOK, MutexInv, ToReadBegin, Enter, mutex
  <1>4. PhaseInv'
    BY DEF Inv, TypeOK, PhaseInv, ToReadBegin, Enter, InTransition, Via
  <1>5. DataInv'
    BY DEF Inv, TypeOK, DataInv, ToReadBegin, Enter, data, At
  <1>6. PoisonInv'
    BY DEF Inv, TypeOK, PoisonInv, ToReadBegin, Enter, mutex, At
  <1>7. ResultInv'
    BY DEF Inv, TypeOK, ResultInv, ToReadBegin, Enter, mutex, At, Truthful,
        Reached, u8_to_phase
  <1>8. QED BY <1>1, <1>2, <1>3, <1>4, <1>5, <1>6, <1>7 DEF Inv

\* A step of ToReadRefused preserves the invariant.
LEMMA ToReadRefusedInv == ASSUME Inv, NEW t \in Threads, ToReadRefused(t) PROVE Inv'
  <1>1. TypeOK'
    BY DEF Inv, TypeOK, ToReadRefused, Refuse, Enter, data, mutex, ToReadRefusal,
        Err, u8_to_phase, PC, Method, Result, PublicPhase, PhasedErrorKind
  <1>2. CallInv'
    BY DEF Inv, TypeOK, CallInv, ToReadRefused, Refuse, Enter
  <1>3. MutexInv'
    BY DEF Inv, TypeOK, MutexInv, ToReadRefused, Refuse, Enter, mutex
  <1>4. PhaseInv'
    BY DEF Inv, TypeOK, PhaseInv, ToReadRefused, Refuse, Enter, InTransition
  <1>5. DataInv'
    BY DEF Inv, TypeOK, DataInv, ToReadRefused, Refuse, Enter, data, At
  <1>6. PoisonInv'
    BY DEF Inv, TypeOK, PoisonInv, ToReadRefused, Refuse, Enter, mutex, At
  <1>7. ResultInv'
    BY DEF Inv, TypeOK, ResultInv, ToReadRefused, Refuse, Enter, mutex,
        ToReadRefusal, Err, u8_to_phase, At, Truthful, Reached, Rank
  <1>8. QED BY <1>1, <1>2, <1>3, <1>4, <1>5, <1>6, <1>7 DEF Inv

\* A step of ToReadLock preserves the invariant.
LEMMA ToReadLockInv == ASSUME Inv, NEW t \in Threads, ToReadLock(t) PROVE Inv'
  <1>1. TypeOK'
    BY DEF Inv, TypeOK, ToReadLock, Step, data, ToReadFault, Err, u8_to_phase, PC,
        Method, Result, PublicPhase, PhasedErrorKind
  <1>2. CallInv'
    BY DEF Inv, TypeOK, CallInv, ToReadLock, Step
  <1>3. MutexInv'
    BY ThreadsAssumption DEF Inv, TypeOK, MutexInv, ToReadLock, Step
  <1>4. PhaseInv'
    BY DEF Inv, TypeOK, PhaseInv, ToReadLock, Step, InTransition
  <1>5. DataInv'
    BY DEF Inv, TypeOK, DataInv, ToReadLock, Step, data, ToReadFault, Err, At, Ok
  <1>6. PoisonInv'
    BY DEF Inv, TypeOK, PoisonInv, ToReadLock, Step, ToReadFault, NoResult, Err,
        At, Ok
  <1>7. ResultInv'
    BY DEF Inv, TypeOK, ResultInv, DataInv, ToReadLock, Step, ToReadFault, Err, At,
        Truthful, Reached
  <1>8. QED BY <1>1, <1>2, <1>3, <1>4, <1>5, <1>6, <1>7 DEF Inv

\* A step of ToReadRun preserves the invariant.
LEMMA ToReadRunInv == ASSUME Inv, NEW t \in Threads, ToReadRun(t) PROVE Inv'
  <1>1. TypeOK'
    BY DEF Inv, TypeOK, ToReadRun, Step, data, mutex, Err, u8_to_phase, PC, Method,
        Result, PublicPhase, PhasedErrorKind
  <1>2. CallInv'
    BY DEF Inv, TypeOK, CallInv, ToReadRun, Step
  <1>3. MutexInv'
    BY DEF Inv, TypeOK, MutexInv, ToReadRun, Step, mutex
  <1>4. PhaseInv'
    BY DEF Inv, TypeOK, PhaseInv, ToReadRun, Step, InTransition
  <1>5. DataInv'
    BY DEF Inv, TypeOK, DataInv, ToReadRun, Step, data, At
  <1>6. PoisonInv'
    BY DEF Inv, TypeOK, PoisonInv, ToReadRun, Step, mutex, At
  <1>7. ResultInv'
    BY DEF Inv, TypeOK, ResultInv, ToReadRun, Step, mutex, Ok, Panic, Err, At,
        Truthful, Reached
  <1>8. QED BY <1>1, <1>2, <1>3, <1>4, <1>5, <1>6, <1>7 DEF Inv

\* A step of ToReadSwap preserves the invariant.
LEMMA ToReadSwapInv == ASSUME Inv, NEW t \in Threads, ToReadSwap(t) PROVE Inv'
  <1>1. TypeOK'
    BY DEF Inv, TypeOK, ToReadSwap, Step, mutex, PC, Method
  <1>2. CallInv'
    BY DEF Inv, TypeOK, CallInv, ToReadSwap, Step
  <1>3. MutexInv'
    BY DEF Inv, TypeOK, MutexInv, ToReadSwap, Step, mutex
  <1>4. PhaseInv'
    BY DEF Inv, TypeOK, PhaseInv, ToReadSwap, Step, InTransition
  <1>5. DataInv'
    BY DEF Inv, TypeOK, DataInv, MutexInv, PhaseInv, ResultInv, ToReadSwap, Step,
        At, InTransition
  <1>6. PoisonInv'
    BY DEF Inv, TypeOK, PoisonInv, ToReadSwap, Step, mutex, At
  <1>7. ResultInv'
    BY DEF Inv, TypeOK, ResultInv, ToReadSwap, Step, mutex, At, Truthful, Reached
  <1>8. QED BY <1>1, <1>2, <1>3, <1>4, <1>5, <1>6, <1>7 DEF Inv

\* A step of ToReadCommit preserves the invariant.
LEMMA ToReadCommitInv == ASSUME Inv, NEW t \in Threads, ToReadCommit(t) PROVE Inv'
  <1>1. TypeOK'
    BY DEF Inv, TypeOK, ToReadCommit, Step, change_phase, data, mutex, PC, Method,
        PhaseCode
  <1>2. CallInv'
    BY DEF Inv, TypeOK, CallInv, ToReadCommit, Step
  <1>3. MutexInv'
    BY DEF Inv, TypeOK, MutexInv, ToReadCommit, Step, mutex
  <1>4. PhaseInv'
    BY DEF Inv, TypeOK, PhaseInv, ToReadCommit, Step, change_phase, InTransition,
        InTransit
  <1>5. DataInv'
    BY DEF Inv, TypeOK, DataInv, PhaseInv, ToReadCommit, Step, change_phase, data,
        At, InTransition
  <1>6. PoisonInv'
    BY DEF Inv, TypeOK, PoisonInv, PhaseInv, ToReadCommit, Step, change_phase,
        mutex, At, InTransition
  <1>7. ResultInv'
    <2>1. /\ phase = PHASE_SETUP_TO_READ
          /\ phase' \in {PHASE_READ, PHASE_SETUP}
          /\ res[t] = Ok => phase' = PHASE_READ
      BY DEF Inv, TypeOK, PhaseInv, InTransition, ToReadCommit, Step, change_phase
    <2>2. res[t].kind = "Ok" => res[t] = Ok
      BY DEF Inv, TypeOK, Result, Ok, Panic, NoResult, PhasedErrorKind
    <2>3. ASSUME NEW u \in Threads PROVE ResultInv!(u)'
      <3>1. CASE u # t
        BY <2>1, <3>1
        DEF Inv, TypeOK, ResultInv, ToReadCommit, Step, data, mutex, At, Truthful,
            Reached, Rank, u8_to_phase
      <3>2. CASE u = t
        <4>1. pc'[t] = "unlock" /\ call'[t] = "transition_to_read" /\ res' = res
          BY DEF Inv, TypeOK, ToReadCommit, Step
        <4>2. res[t].kind \in
                 {"Ok", "Panic", "InternalDataMutexIsPoisoned",
                  "FailToRunClosureDuringTransitionToRead",
                  "FailToRunClosureDuringTransitionToCleanup"}
          BY DEF Inv, ResultInv, ToReadCommit, Step
        <4>3. res[t].kind = "InternalDataMutexIsPoisoned" => poisoned'
          BY DEF Inv, ResultInv, ToReadCommit, Step, mutex
        <4>4. Truthful(t)'
          BY <2>1, <2>2, <4>1, <4>2, <4>3
          DEF Truthful, Reached, Rank, u8_to_phase
        <4>5. QED
          BY <3>2, <4>1, <4>4 DEF At
      <3>3. QED
        BY <3>1, <3>2
    <2>4. QED
      BY <2>3 DEF ResultInv
  <1>8. QED BY <1>1, <1>2, <1>3, <1>4, <1>5, <1>6, <1>7 DEF Inv

\* A step of ToCleanupBegin preserves the invariant.
LEMMA ToCleanupBeginInv == ASSUME Inv, NEW t \in Threads, ToCleanupBegin(t) PROVE Inv'
  <1>1. TypeOK'
    BY DEF Inv, TypeOK, ToCleanupBegin, Enter, data, mutex, Via, PC, Method,
        PhaseCode
  <1>2. CallInv'
    BY DEF Inv, TypeOK, CallInv, ToCleanupBegin, Enter
  <1>3. MutexInv'
    BY DEF Inv, TypeOK, MutexInv, ToCleanupBegin, Enter, mutex
  <1>4. PhaseInv'
    BY DEF Inv, TypeOK, PhaseInv, ToCleanupBegin, Enter, InTransition, Via
  <1>5. DataInv'
    BY DEF Inv, TypeOK, DataInv, ToCleanupBegin, Enter, data, Via, At
  <1>6. PoisonInv'
    BY DEF Inv, TypeOK, PoisonInv, ToCleanupBegin, Enter, mutex, Via, At
  <1>7. ResultInv'
    BY DEF Inv, TypeOK, ResultInv, ToCleanupBegin, Enter, mutex, Via, At, Truthful,
        Reached, Rank, u8_to_phase
  <1>8. QED BY <1>1, <1>2, <1>3, <1>4, <1>5, <1>6, <1>7 DEF Inv

\* A step of ToCleanupRefused preserves the invariant.
LEMMA ToCleanupRefusedInv == ASSUME Inv, NEW t \in Threads, ToCleanupRefused(t) PROVE Inv'
  <1>1. TypeOK'
    BY DEF Inv, TypeOK, ToCleanupRefused, Refuse, Enter, data, mutex,
        ToCleanupRefusal, Err, u8_to_phase, PC, Method, Result, PublicPhase,
        PhasedErrorKind
  <1>2. CallInv'
    BY DEF Inv, TypeOK, CallInv, ToCleanupRefused, Refuse, Enter
  <1>3. MutexInv'
    BY DEF Inv, TypeOK, MutexInv, ToCleanupRefused, Refuse, Enter, mutex
  <1>4. PhaseInv'
    BY DEF Inv, TypeOK, PhaseInv, ToCleanupRefused, Refuse, Enter, InTransition
  <1>5. DataInv'
    BY DEF Inv, TypeOK, DataInv, ToCleanupRefused, Refuse, Enter, data, At
  <1>6. PoisonInv'
    BY DEF Inv, TypeOK, PoisonInv, ToCleanupRefused, Refuse, Enter, mutex, At
  <1>7. ResultInv'
    BY DEF Inv, TypeOK, ResultInv, ToCleanupRefused, Refuse, Enter, mutex,
        ToCleanupRefusal, Err, u8_to_phase, At, Truthful, Reached, Rank
  <1>8. QED BY <1>1, <1>2, <1>3, <1>4, <1>5, <1>6, <1>7 DEF Inv

\* A step of ToCleanupLock preserves the invariant.
LEMMA ToCleanupLockInv == ASSUME Inv, NEW t \in Threads, ToCleanupLock(t) PROVE Inv'
  <1>1. TypeOK'
    BY DEF Inv, TypeOK, ToCleanupLock, Step, data, ToCleanupFault, Err,
        u8_to_phase, PC, Method, Result, PublicPhase, PhasedErrorKind
  <1>2. CallInv'
    BY DEF Inv, TypeOK, CallInv, ToCleanupLock, Step
  <1>3. MutexInv'
    BY ThreadsAssumption DEF Inv, TypeOK, MutexInv, ToCleanupLock, Step
  <1>4. PhaseInv'
    BY DEF Inv, TypeOK, PhaseInv, ToCleanupLock, Step, InTransition
  <1>5. DataInv'
    BY DEF Inv, TypeOK, DataInv, PhaseInv, PoisonInv, ToCleanupLock, Step, data,
        ToCleanupFault, At, InTransition, Via
  <1>6. PoisonInv'
    BY DEF Inv, TypeOK, PoisonInv, ToCleanupLock, Step, At
  <1>7. ResultInv'
    BY DEF Inv, TypeOK, ResultInv, PhaseInv, DataInv, ToCleanupLock, Step,
        ToCleanupFault, Err, At, InTransition, Via, Truthful, Reached
  <1>8. QED BY <1>1, <1>2, <1>3, <1>4, <1>5, <1>6, <1>7 DEF Inv

\* A step of ToCleanupRun preserves the invariant.
LEMMA ToCleanupRunInv == ASSUME Inv, NEW t \in Threads, ToCleanupRun(t) PROVE Inv'
  <1>1. TypeOK'
    BY DEF Inv, TypeOK, ToCleanupRun, Step, data, mutex, Err, u8_to_phase, PC,
        Method, Result, PublicPhase, PhasedErrorKind
  <1>2. CallInv'
    BY DEF Inv, TypeOK, CallInv, ToCleanupRun, Step
  <1>3. MutexInv'
    BY DEF Inv, TypeOK, MutexInv, ToCleanupRun, Step, mutex
  <1>4. PhaseInv'
    BY DEF Inv, TypeOK, PhaseInv, ToCleanupRun, Step, InTransition
  <1>5. DataInv'
    BY DEF Inv, TypeOK, DataInv, PhaseInv, ToCleanupRun, Step, data, At,
        InTransition, Via
  <1>6. PoisonInv'
    BY DEF Inv, TypeOK, PoisonInv, ToCleanupRun, Step, mutex, At
  <1>7. ResultInv'
    BY DEF Inv, TypeOK, ResultInv, ToCleanupRun, Step, mutex, Ok, Panic, Err, At,
        Truthful, Reached
  <1>8. QED BY <1>1, <1>2, <1>3, <1>4, <1>5, <1>6, <1>7 DEF Inv

\* A step of ToCleanupSwap preserves the invariant.
LEMMA ToCleanupSwapInv == ASSUME Inv, NEW t \in Threads, ToCleanupSwap(t) PROVE Inv'
  <1>1. TypeOK'
    BY DEF Inv, TypeOK, ToCleanupSwap, Step, mutex, PC, Method
  <1>2. CallInv'
    BY DEF Inv, TypeOK, CallInv, ToCleanupSwap, Step
  <1>3. MutexInv'
    BY DEF Inv, TypeOK, MutexInv, ToCleanupSwap, Step, mutex
  <1>4. PhaseInv'
    BY DEF Inv, TypeOK, PhaseInv, ToCleanupSwap, Step, InTransition
  <1>5. DataInv'
    BY DEF Inv, TypeOK, DataInv, PhaseInv, ToCleanupSwap, Step, At, InTransition,
        Via
  <1>6. PoisonInv'
    BY DEF Inv, TypeOK, PoisonInv, ToCleanupSwap, Step, mutex, At
  <1>7. ResultInv'
    BY DEF Inv, TypeOK, ResultInv, ToCleanupSwap, Step, mutex, At, Truthful,
        Reached
  <1>8. QED BY <1>1, <1>2, <1>3, <1>4, <1>5, <1>6, <1>7 DEF Inv

\* A step of ToCleanupCommit preserves the invariant.
LEMMA ToCleanupCommitInv == ASSUME Inv, NEW t \in Threads, ToCleanupCommit(t) PROVE Inv'
  <1>1. TypeOK'
    BY DEF Inv, TypeOK, ToCleanupCommit, Step, change_phase, data, mutex, PC,
        Method, PhaseCode
  <1>2. CallInv'
    BY DEF Inv, TypeOK, CallInv, ToCleanupCommit, Step
  <1>3. MutexInv'
    BY DEF Inv, TypeOK, MutexInv, ToCleanupCommit, Step, mutex
  <1>4. PhaseInv'
    BY DEF Inv, TypeOK, PhaseInv, ToCleanupCommit, Step, change_phase,
        InTransition, InTransit
  <1>5. DataInv'
    BY DEF Inv, TypeOK, DataInv, ToCleanupCommit, Step, change_phase, data, At
  <1>6. PoisonInv'
    BY DEF Inv, TypeOK, PoisonInv, ToCleanupCommit, Step, change_phase, mutex, At
  <1>7. ResultInv'
    BY DEF Inv, TypeOK, ResultInv, PhaseInv, ToCleanupCommit, Step, change_phase,
        mutex, Via, At, InTransition, Truthful, Reached, u8_to_phase
  <1>8. QED BY <1>1, <1>2, <1>3, <1>4, <1>5, <1>6, <1>7 DEF Inv

\* A step of LockBegin preserves the invariant.
LEMMA LockBeginInv == ASSUME Inv, NEW t \in Threads, LockBegin(t) PROVE Inv'
  <1>1. TypeOK'
    BY DEF Inv, TypeOK, LockBegin, Enter, data, mutex, PC, Method
  <1>2. CallInv'
    BY DEF Inv, TypeOK, CallInv, LockBegin, Enter
  <1>3. MutexInv'
    BY DEF Inv, TypeOK, MutexInv, LockBegin, Enter, mutex
  <1>4. PhaseInv'
    BY DEF Inv, TypeOK, PhaseInv, LockBegin, Enter, InTransition
  <1>5. DataInv'
    BY DEF Inv, TypeOK, DataInv, LockBegin, Enter, data, At
  <1>6. PoisonInv'
    BY DEF Inv, TypeOK, PoisonInv, LockBegin, Enter, mutex, At
  <1>7. ResultInv'
    BY DEF Inv, TypeOK, ResultInv, LockBegin, Enter, mutex, At, Truthful, Reached
  <1>8. QED BY <1>1, <1>2, <1>3, <1>4, <1>5, <1>6, <1>7 DEF Inv

\* A step of TryLockBegin preserves the invariant.
LEMMA TryLockBeginInv == ASSUME Inv, NEW t \in Threads, TryLockBegin(t) PROVE Inv'
  <1>1. TypeOK'
    BY DEF Inv, TypeOK, TryLockBegin, Enter, data, mutex, PC, Method
  <1>2. CallInv'
    BY DEF Inv, TypeOK, CallInv, TryLockBegin, Enter
  <1>3. MutexInv'
    BY DEF Inv, TypeOK, MutexInv, TryLockBegin, Enter, mutex
  <1>4. PhaseInv'
    BY DEF Inv, TypeOK, PhaseInv, TryLockBegin, Enter, InTransition
  <1>5. DataInv'
    BY DEF Inv, TypeOK, DataInv, TryLockBegin, Enter, data, At
  <1>6. PoisonInv'
    BY DEF Inv, TypeOK, PoisonInv, TryLockBegin, Enter, mutex, At
  <1>7. ResultInv'
    BY DEF Inv, TypeOK, ResultInv, TryLockBegin, Enter, mutex, At, Truthful,
        Reached
  <1>8. QED BY <1>1, <1>2, <1>3, <1>4, <1>5, <1>6, <1>7 DEF Inv

\* A step of LockRefused preserves the invariant.
LEMMA LockRefusedInv == ASSUME Inv, NEW t \in Threads, LockRefused(t) PROVE Inv'
  <1>1. TypeOK'
    BY DEF Inv, TypeOK, LockRefused, Refuse, Enter, data, mutex, LockRefusal, Err,
        u8_to_phase, PC, Method, Result, PublicPhase, PhasedErrorKind
  <1>2. CallInv'
    BY DEF Inv, TypeOK, CallInv, LockRefused, Refuse, Enter
  <1>3. MutexInv'
    BY DEF Inv, TypeOK, MutexInv, LockRefused, Refuse, Enter, mutex
  <1>4. PhaseInv'
    BY DEF Inv, TypeOK, PhaseInv, LockRefused, Refuse, Enter, InTransition
  <1>5. DataInv'
    BY DEF Inv, TypeOK, DataInv, LockRefused, Refuse, Enter, data, At
  <1>6. PoisonInv'
    BY DEF Inv, TypeOK, PoisonInv, LockRefused, Refuse, Enter, mutex, At
  <1>7. ResultInv'
    BY DEF Inv, TypeOK, ResultInv, LockRefused, Lockable, Refuse, Enter, mutex,
        LockRefusal, Err, u8_to_phase, At, Truthful, Reached, Rank
  <1>8. QED BY <1>1, <1>2, <1>3, <1>4, <1>5, <1>6, <1>7 DEF Inv

\* A step of LockAcquire preserves the invariant.
LEMMA LockAcquireInv == ASSUME Inv, NEW t \in Threads, LockAcquire(t) PROVE Inv'
  <1>1. TypeOK'
    BY DEF Inv, TypeOK, LockAcquire, Step, data, LockFault, Err, u8_to_phase, PC,
        Method, Result, PublicPhase, PhasedErrorKind
  <1>2. CallInv'
    BY DEF Inv, TypeOK, CallInv, LockAcquire, Step
  <1>3. MutexInv'
    BY ThreadsAssumption DEF Inv, TypeOK, MutexInv, LockAcquire, Step
  <1>4. PhaseInv'
    BY DEF Inv, TypeOK, PhaseInv, LockAcquire, Step, InTransition
  <1>5. DataInv'
    BY DEF Inv, TypeOK, DataInv, LockAcquire, Step, data, LockFault, NoResult, Err,
        At
  <1>6. PoisonInv'
    BY DEF Inv, TypeOK, PoisonInv, LockAcquire, Step, At
  <1>7. ResultInv'
    <2>1. ASSUME data_mutex = "None"
          PROVE  phase \in {PHASE_READ, PHASE_READ_TO_CLEANUP}
      <3>1. ASSUME phase = PHASE_SETUP_TO_READ PROVE FALSE
        <4>1. PICK u \in Threads : InTransition(u)
          BY <3>1 DEF Inv, PhaseInv, InTransit
        <4>2. At(u, "transition_to_read", {"lock", "run", "swap"}) \/ pc[u] = "commit"
          BY <3>1, <4>1 DEF Inv, PhaseInv, InTransition, At, Via
        <4>3. pc[u] # "commit"
          BY ThreadsAssumption DEF Inv, MutexInv, LockAcquire
        <4>4. QED BY <2>1, <4>2, <4>3 DEF Inv, DataInv
      <3>2. QED BY <2>1, <3>1 DEF Inv, DataInv, TypeOK, PhaseCode
    <2>2. ASSUME NEW u \in Threads PROVE ResultInv!(u)'
      <3>1. CASE u # t
        BY <3>1 DEF Inv, TypeOK, ResultInv, LockAcquire, Step, data, At, Truthful, Reached
      <3>2. CASE u = t
        BY <2>1, <3>2
        DEF Inv, TypeOK, ResultInv, LockAcquire, LockFault, Err, NoResult, Step, data,
            At, Truthful, Reached, Rank, u8_to_phase
      <3>3. QED BY <3>1, <3>2
    <2>3. QED BY <2>2 DEF ResultInv
  <1>8. QED BY <1>1, <1>2, <1>3, <1>4, <1>5, <1>6, <1>7 DEF Inv

\* A step of TryLockFails preserves the invariant.
LEMMA TryLockFailsInv == ASSUME Inv, NEW t \in Threads, TryLockFails(t) PROVE Inv'
  <1>1. TypeOK'
    BY DEF Inv, TypeOK, TryLockFails, Step, data, mutex, Err, u8_to_phase, PC,
        Method, Result, PublicPhase, PhasedErrorKind
  <1>2. CallInv'
    BY DEF Inv, TypeOK, CallInv, TryLockFails, Step
  <1>3. MutexInv'
    BY DEF Inv, TypeOK, MutexInv, TryLockFails, Step, mutex
  <1>4. PhaseInv'
    BY DEF Inv, TypeOK, PhaseInv, TryLockFails, Step, InTransition
  <1>5. DataInv'
    BY DEF Inv, TypeOK, DataInv, TryLockFails, Step, data, At
  <1>6. PoisonInv'
    BY DEF Inv, TypeOK, PoisonInv, TryLockFails, Step, mutex, At
  <1>7. ResultInv'
    BY DEF Inv, TypeOK, ResultInv, TryLockFails, Step, mutex, Err, At, Truthful,
        Reached
  <1>8. QED BY <1>1, <1>2, <1>3, <1>4, <1>5, <1>6, <1>7 DEF Inv

\* A step of GuardDrop preserves the invariant.
LEMMA GuardDropInv == ASSUME Inv, NEW t \in Threads, GuardDrop(t) PROVE Inv'
  <1>1. TypeOK'
    BY DEF Inv, TypeOK, GuardDrop, data, PC, Method, Result
  <1>2. CallInv'
    BY DEF Inv, TypeOK, CallInv, GuardDrop
  <1>3. MutexInv'
    BY ThreadsAssumption DEF Inv, TypeOK, MutexInv, GuardDrop
  <1>4. PhaseInv'
    BY DEF Inv, TypeOK, PhaseInv, GuardDrop, InTransition
  <1>5. DataInv'
    BY DEF Inv, TypeOK, DataInv, GuardDrop, data, At
  <1>6. PoisonInv'
    BY DEF Inv, TypeOK, PoisonInv, MutexInv, PhaseInv, DataInv, GuardDrop, At,
        InTransition, InTransit, Via
  <1>7. ResultInv'
    BY DEF Inv, TypeOK, ResultInv, CallInv, GuardDrop, Panic, Ok, At, Truthful,
        Reached
  <1>8. QED BY <1>1, <1>2, <1>3, <1>4, <1>5, <1>6, <1>7 DEF Inv

\* A step of ReadBegin preserves the invariant.
LEMMA ReadBeginInv == ASSUME Inv, NEW t \in Threads, ReadBegin(t) PROVE Inv'
  <1>1. TypeOK'
    BY DEF Inv, TypeOK, ReadBegin, Enter, data, mutex, PC, Method
  <1>2. CallInv'
    BY DEF Inv, TypeOK, CallInv, ReadBegin, Enter
  <1>3. MutexInv'
    BY DEF Inv, TypeOK, MutexInv, ReadBegin, Enter, mutex
  <1>4. PhaseInv'
    BY DEF Inv, TypeOK, PhaseInv, ReadBegin, Enter, InTransition
  <1>5. DataInv'
    BY DEF Inv, TypeOK, DataInv, ReadBegin, Enter, data, At
  <1>6. PoisonInv'
    BY DEF Inv, TypeOK, PoisonInv, ReadBegin, Enter, mutex
  <1>7. ResultInv'
    BY DEF Inv, TypeOK, ResultInv, ReadBegin, Enter, mutex, At, Truthful, Reached,
        Rank, u8_to_phase
  <1>8. QED BY <1>1, <1>2, <1>3, <1>4, <1>5, <1>6, <1>7 DEF Inv

\* A step of ReadRefused preserves the invariant.
LEMMA ReadRefusedInv == ASSUME Inv, NEW t \in Threads, ReadRefused(t) PROVE Inv'
  <1>1. TypeOK'
    BY DEF Inv, TypeOK, ReadRefused, Refuse, Enter, data, mutex, Err, u8_to_phase,
        PC, Method, Result, PublicPhase, PhasedErrorKind
  <1>2. CallInv'
    BY DEF Inv, TypeOK, CallInv, ReadRefused, Refuse, Enter
  <1>3. MutexInv'
    BY DEF Inv, TypeOK, MutexInv, ReadRefused, Refuse, Enter, mutex
  <1>4. PhaseInv'
    BY DEF Inv, TypeOK, PhaseInv, ReadRefused, Refuse, Enter, InTransition
  <1>5. DataInv'
    BY DEF Inv, TypeOK, DataInv, ReadRefused, Refuse, Enter, data, At
  <1>6. PoisonInv'
    BY DEF Inv, TypeOK, PoisonInv, ReadRefused, Refuse, Enter, mutex, At
  <1>7. ResultInv'
    BY DEF Inv, TypeOK, ResultInv, ReadRefused, Refuse, Enter, mutex, Err, At,
        Truthful, Reached
  <1>8. QED BY <1>1, <1>2, <1>3, <1>4, <1>5, <1>6, <1>7 DEF Inv

\* A step of ReadLook preserves the invariant.
LEMMA ReadLookInv == ASSUME Inv, NEW t \in Threads, ReadLook(t) PROVE Inv'
  <1>1. TypeOK'
    BY DEF Inv, TypeOK, ReadLook, Step, data, mutex, Err, u8_to_phase, PC, Method,
        Result, PublicPhase, PhasedErrorKind
  <1>2. CallInv'
    BY DEF Inv, TypeOK, CallInv, ReadLook, Step
  <1>3. MutexInv'
    BY DEF Inv, TypeOK, MutexInv, ReadLook, Step, mutex
  <1>4. PhaseInv'
    BY DEF Inv, TypeOK, PhaseInv, ReadLook, Step, InTransition
  <1>5. DataInv'
    BY DEF Inv, TypeOK, DataInv, ReadLook, Step, data, At
  <1>6. PoisonInv'
    BY DEF Inv, TypeOK, PoisonInv, ReadLook, Step, mutex, At
  <1>7. ResultInv'
    BY DEF Inv, TypeOK, ResultInv, DataInv, ReadLook, Step, mutex, Err,
        u8_to_phase, At, Truthful, Reached, Rank
  <1>8. QED BY <1>1, <1>2, <1>3, <1>4, <1>5, <1>6, <1>7 DEF Inv

\* A step of ReadEnd preserves the invariant.
LEMMA ReadEndInv == ASSUME Inv, NEW t \in Threads, ReadEnd(t) PROVE Inv'
  <1>1. TypeOK'
    BY DEF Inv, TypeOK, ReadEnd, Step, data, mutex, PC, Method
  <1>2. CallInv'
    BY DEF Inv, TypeOK, CallInv, ReadEnd, Step
  <1>3. MutexInv'
    BY DEF Inv, TypeOK, MutexInv, ReadEnd, Step, mutex
  <1>4. PhaseInv'
    BY DEF Inv, TypeOK, PhaseInv, ReadEnd, Step, InTransition
  <1>5. DataInv'
    BY DEF Inv, TypeOK, DataInv, ReadEnd, Step, data, At
  <1>6. PoisonInv'
    BY DEF Inv, TypeOK, PoisonInv, ReadEnd, Step, mutex, At
  <1>7. ResultInv'
    BY DEF Inv, TypeOK, ResultInv, ReadEnd, Step, data, mutex, At, Truthful,
        Reached, Ok
  <1>8. QED BY <1>1, <1>2, <1>3, <1>4, <1>5, <1>6, <1>7 DEF Inv

\* A step of Unlock preserves the invariant.
LEMMA UnlockInv == ASSUME Inv, NEW t \in Threads, Unlock(t) PROVE Inv'
  <1>1. TypeOK'
    BY DEF Inv, TypeOK, Unlock, data, PC, Method
  <1>2. CallInv'
    BY DEF Inv, TypeOK, CallInv, Unlock
  <1>3. MutexInv'
    BY ThreadsAssumption DEF Inv, TypeOK, MutexInv, Unlock
  <1>4. PhaseInv'
    BY DEF Inv, TypeOK, PhaseInv, Unlock, InTransition
  <1>5. DataInv'
    BY DEF Inv, TypeOK, DataInv, Unlock, data, At
  <1>6. PoisonInv'
    BY DEF Inv, TypeOK, PoisonInv, Unlock, At
  <1>7. ResultInv'
    BY DEF Inv, TypeOK, ResultInv, Unlock, At, Truthful, Reached
  <1>8. QED BY <1>1, <1>2, <1>3, <1>4, <1>5, <1>6, <1>7 DEF Inv

\* A step of Return preserves the invariant.
LEMMA ReturnInv == ASSUME Inv, NEW t \in Threads, Return(t) PROVE Inv'
  <1>1. TypeOK'
    BY DEF Inv, TypeOK, Return, data, mutex, PC, Method, PhaseCode, Result
  <1>2. CallInv'
    BY DEF Inv, TypeOK, CallInv, Return
  <1>3. MutexInv'
    BY DEF Inv, TypeOK, MutexInv, Return, mutex
  <1>4. PhaseInv'
    BY DEF Inv, TypeOK, PhaseInv, Return, InTransition
  <1>5. DataInv'
    BY DEF Inv, TypeOK, DataInv, Return, data, At
  <1>6. PoisonInv'
    BY DEF Inv, TypeOK, PoisonInv, Return, mutex, At
  <1>7. ResultInv'
    BY DEF Inv, TypeOK, ResultInv, Return, mutex, At, Truthful, Reached
  <1>8. QED BY <1>1, <1>2, <1>3, <1>4, <1>5, <1>6, <1>7 DEF Inv

\* Every step of the cell preserves the invariant.
LEMMA NextInv == Inv /\ [PhasedCellSyncNext]_vars => Inv'
  <1> SUFFICES ASSUME Inv, [PhasedCellSyncNext]_vars PROVE Inv'
    OBVIOUS
  <1>1. ASSUME NEW t \in Threads, transition_to_read(t) PROVE Inv'
    BY <1>1, ToReadBeginInv, ToReadRefusedInv, ToReadLockInv, ToReadRunInv,
       ToReadSwapInv, ToReadCommitInv DEF transition_to_read
  <1>2. ASSUME NEW t \in Threads, transition_to_cleanup(t) PROVE Inv'
    BY <1>2, ToCleanupBeginInv, ToCleanupRefusedInv, ToCleanupLockInv, ToCleanupRunInv,
       ToCleanupSwapInv, ToCleanupCommitInv DEF transition_to_cleanup
  <1>3. ASSUME NEW t \in Threads, lock(t) \/ try_lock(t) \/ GuardDrop(t) PROVE Inv'
    BY <1>3, LockBeginInv, TryLockBeginInv, LockRefusedInv, LockAcquireInv,
       TryLockFailsInv, GuardDropInv DEF lock, try_lock
  <1>4. ASSUME NEW t \in Threads, read(t) \/ ReadEnd(t) PROVE Inv'
    BY <1>4, ReadBeginInv, ReadRefusedInv, ReadLookInv, ReadEndInv DEF read
  <1>5. ASSUME NEW t \in Threads, Unlock(t) \/ Return(t) PROVE Inv'
    BY <1>5, UnlockInv, ReturnInv
  <1>6. CASE UNCHANGED vars
    BY <1>6 DEF vars, Inv, TypeOK, CallInv, MutexInv, PhaseInv, DataInv, PoisonInv,
       ResultInv, InTransition, At, Truthful, Reached
  <1>7. QED BY <1>1, <1>2, <1>3, <1>4, <1>5, <1>6 DEF PhasedCellSyncNext

\* The invariant holds in every reachable state.
THEOREM Invariance == PhasedCellSyncSpec => []Inv
  BY InitInv, NextInv, PTL DEF PhasedCellSyncSpec

-----------------------------------------------------------------------------
(* Safety properties *)

\* Every variable keeps to its type.
THEOREM TypeCorrect == PhasedCellSyncSpec => []TypeOK
  <1>1. Inv => TypeOK BY DEF Inv
  <1>2. QED BY <1>1, Invariance, PTL

\* Closures and guards never overlap: who can change the data holds data_mutex.
THEOREM ExclusiveAccess == PhasedCellSyncSpec => []ExclusiveMut
  <1>1. Inv => ExclusiveMut BY DEF Inv, MutexInv, ExclusiveMut, Mutating
  <1>2. QED BY <1>1, Invariance, PTL

\* Nobody can change the data while the cell shows Read: a guard needs the data in
\* data_mutex, and a closure needs a transition.
THEOREM ReadIsImmutable == PhasedCellSyncSpec => []ReadPhaseIsImmutable
  <1>1. Inv => ReadPhaseIsImmutable
    BY DEF Inv, CallInv, PhaseInv, DataInv, ReadPhaseIsImmutable, Mutating, InTransition, Via
  <1>2. QED BY <1>1, Invariance, PTL

\* A reader with its &T meets nobody who changes the data but a cleanup and what comes after.
THEOREM ReadersMeetCleanups == PhasedCellSyncSpec => []ReadersMeetOnlyCleanup
  <1>1. Inv => ReadersMeetOnlyCleanup
    BY DEF Inv, CallInv, PhaseInv, DataInv, ResultInv, ReadersMeetOnlyCleanup, Mutating,
       InTransition, Via
  <1>2. QED BY <1>1, Invariance, PTL

\* The data is in exactly one place, the one its phase looks at.
THEOREM DataStaysHome == PhasedCellSyncSpec => []DataHome
  <1>1. Inv => DataHome BY DEF Inv, DataInv, DataHome
  <1>2. QED BY <1>1, Invariance, PTL

\* The "impossible case" branches of the transitions are.
THEOREM ImpossibleCaseIs == PhasedCellSyncSpec => []ImpossibleCase
  <1>1. Inv => ImpossibleCase BY DEF Inv, ResultInv, ImpossibleCase
  <1>2. QED BY <1>1, Invariance, PTL

\* Data whose guard's owner panicked is never read.
THEOREM PoisonStaysOut == PhasedCellSyncSpec => []PoisonNeverRead
  <1>1. Inv => PoisonNeverRead BY DEF Inv, PoisonInv, PoisonNeverRead
  <1>2. QED BY <1>1, Invariance, PTL

\* What a result says of the cell is still so when the caller gets it.
THEOREM ResultsAreTruthful == PhasedCellSyncSpec => []TruthfulResults
  <1>1. Inv => TruthfulResults BY DEF Inv, ResultInv, TruthfulResults
  <1>2. QED BY <1>1, Invariance, PTL

-----------------------------------------------------------------------------
(* Refinement of the abstract lifecycle *)

\* The one thread in its transition is the owner.
LEMMA OwnerIs ==
  ASSUME Inv, NEW t \in Threads, InTransition(t) PROVE TransitionOwner = t
  BY DEF Inv, PhaseInv, TransitionOwner

\* A step that moves nobody into or out of a transition keeps its owner.
LEMMA OwnerKept ==
  ASSUME Inv, Inv', \A t \in Threads : InTransition(t)' <=> InTransition(t)
  PROVE  TransitionOwner' = TransitionOwner
  <1>1. CASE \E t \in Threads : InTransition(t)
    <2>1. PICK t \in Threads : InTransition(t) BY <1>1
    <2>2. TransitionOwner = t BY <2>1, OwnerIs
    <2>3. TransitionOwner' = t BY <2>1 DEF Inv, PhaseInv, TransitionOwner
    <2>4. QED BY <2>2, <2>3
  <1>2. CASE ~\E t \in Threads : InTransition(t)
    BY <1>2 DEF TransitionOwner
  <1>3. QED BY <1>1, <1>2

\* With nobody in a transition the owner is Nobody.
LEMMA OwnerGone ==
  ASSUME \A t \in Threads : ~InTransition(t)' PROVE TransitionOwner' = Nobody
  BY DEF TransitionOwner

\* Opening a transition is the abstract BeginRead or BeginCleanup.
LEMMA BeginMaps ==
  ASSUME Inv, Inv', NEW t \in Threads, ToReadBegin(t) \/ ToCleanupBegin(t)
  PROVE  L!LifecycleNext
  <1>1. InTransition(t)'
    BY DEF Inv, TypeOK, ToReadBegin, ToCleanupBegin, Enter, InTransition
  <1>2. TransitionOwner' = t
    BY <1>1 DEF Inv, PhaseInv, TransitionOwner
  <1>3. L!BeginRead(t) \/ L!BeginCleanup(t)
    BY <1>2 DEF ToReadBegin, ToCleanupBegin, L!BeginRead, L!BeginCleanup, Via, L!Via,
       L!PHASE_SETUP, L!PHASE_READ, L!PHASE_SETUP_TO_READ, L!PHASE_READ_TO_CLEANUP,
       L!PHASE_SETUP_TO_CLEANUP
  <1>4. QED BY <1>3 DEF L!LifecycleNext

\* Publishing its outcome is the abstract EndRead or EndCleanup.
LEMMA CommitMaps ==
  ASSUME Inv, NEW t \in Threads, ToReadCommit(t) \/ ToCleanupCommit(t)
  PROVE  L!LifecycleNext
  <1>1. InTransition(t)
    BY DEF ToReadCommit, ToCleanupCommit, Step, InTransition
  <1>2. TransitionOwner = t
    BY <1>1, OwnerIs
  <1>3. \A u \in Threads : ~InTransition(u)'
    BY <1>1 DEF Inv, TypeOK, PhaseInv, ToReadCommit, ToCleanupCommit, Step, InTransition
  <1>4. TransitionOwner' = Nobody
    BY <1>3, OwnerGone
  <1>5. CASE ToReadCommit(t)
    <2>1. L!EndRead(t)
      BY <1>1, <1>2, <1>4, <1>5
      DEF Inv, PhaseInv, ToReadCommit, Step, change_phase, L!EndRead, L!PHASE_SETUP,
          L!PHASE_READ, L!PHASE_SETUP_TO_READ
    <2>2. QED BY <2>1 DEF L!LifecycleNext
  <1>6. CASE ToCleanupCommit(t)
    <2>1. L!EndCleanup(t)
      BY <1>1, <1>2, <1>4, <1>6
      DEF Inv, PhaseInv, ToCleanupCommit, Step, change_phase, Via, L!EndCleanup,
          L!PHASE_CLEANUP, L!PHASE_READ_TO_CLEANUP, L!PHASE_SETUP_TO_CLEANUP
    <2>2. QED BY <2>1 DEF L!LifecycleNext
  <1>7. QED BY <1>5, <1>6

\* Everything else stutters.
LEMMA OthersStutter ==
  ASSUME Inv, Inv', NEW t \in Threads,
         \/ ToReadRefused(t) \/ ToReadLock(t) \/ ToReadRun(t) \/ ToReadSwap(t)
         \/ ToCleanupRefused(t) \/ ToCleanupLock(t) \/ ToCleanupRun(t) \/ ToCleanupSwap(t)
         \/ lock(t) \/ try_lock(t) \/ GuardDrop(t) \/ read(t) \/ ReadEnd(t)
         \/ Unlock(t) \/ Return(t)
  PROVE  UNCHANGED L!lifecycleVars
  <1>1. phase' = phase
    BY DEF ToReadRefused, ToReadLock, ToReadRun, ToReadSwap, ToCleanupRefused, ToCleanupLock,
       ToCleanupRun, ToCleanupSwap, lock, try_lock, LockBegin, TryLockBegin, LockRefused,
       LockAcquire, TryLockFails, GuardDrop, read, ReadBegin, ReadRefused, ReadLook, ReadEnd,
       Unlock, Return, Refuse
  <1>2. ASSUME NEW u \in Threads PROVE InTransition(u)' <=> InTransition(u)
    <2>1. CASE u # t
      BY <2>1
      DEF Inv, TypeOK, InTransition, ToReadRefused, ToReadLock, ToReadRun, ToReadSwap,
          ToCleanupRefused, ToCleanupLock, ToCleanupRun, ToCleanupSwap, lock, try_lock,
          LockBegin, TryLockBegin, LockRefused, LockAcquire, TryLockFails, GuardDrop, read,
          ReadBegin, ReadRefused, ReadLook, ReadEnd, Unlock, Return, Refuse, Enter, Step
    <2>2. CASE u = t
      BY <2>2
      DEF Inv, TypeOK, CallInv, InTransition, ToReadRefused, ToReadLock, ToReadRun, ToReadSwap,
          ToCleanupRefused, ToCleanupLock, ToCleanupRun, ToCleanupSwap, lock, try_lock,
          LockBegin, TryLockBegin, LockRefused, LockAcquire, TryLockFails, GuardDrop, read,
          ReadBegin, ReadRefused, ReadLook, ReadEnd, Unlock, Return, Refuse, Enter, Step
    <2>3. QED BY <2>1, <2>2
  <1>3. QED BY <1>1, <1>2, OwnerKept DEF L!lifecycleVars

\* PhasedCellSync implements Lifecycle: every transitional phase is owned by the one
\* thread that opened it, which alone closes it, and the public phase never goes back.
THEOREM RefinesLifecycle == PhasedCellSyncSpec => ImplementsLifecycle
  <1>1. PhasedCellSyncInit => L!LifecycleInit
    BY DEF PhasedCellSyncInit, L!LifecycleInit, L!PHASE_SETUP, TransitionOwner, InTransition
  <1>2. Inv /\ Inv' /\ [PhasedCellSyncNext]_vars => [L!LifecycleNext]_(L!lifecycleVars)
    <2> SUFFICES ASSUME Inv, Inv', [PhasedCellSyncNext]_vars
                 PROVE  L!LifecycleNext \/ UNCHANGED L!lifecycleVars
      OBVIOUS
    <2>1. CASE UNCHANGED vars
      BY <2>1 DEF vars, L!lifecycleVars, TransitionOwner, InTransition
    <2>2. ASSUME NEW t \in Threads,
                 \/ transition_to_read(t) \/ transition_to_cleanup(t)
                 \/ lock(t) \/ try_lock(t) \/ GuardDrop(t)
                 \/ read(t) \/ ReadEnd(t) \/ Unlock(t) \/ Return(t)
          PROVE  L!LifecycleNext \/ UNCHANGED L!lifecycleVars
      BY <2>2, BeginMaps, CommitMaps, OthersStutter
      DEF transition_to_read, transition_to_cleanup
    <2>3. QED BY <2>1, <2>2 DEF PhasedCellSyncNext
  <1>3. QED
    BY <1>1, <1>2, Invariance, PTL DEF PhasedCellSyncSpec, ImplementsLifecycle, L!LifecycleSpec

-----------------------------------------------------------------------------
(* What the cell inherits from the lifecycle *)

LP == INSTANCE LifecycleProofs WITH owner <- TransitionOwner

\* The two instances of Lifecycle are the same.
LEMMA SameLifecycle ==
  /\ L!LifecycleInit <=> LP!LifecycleInit
  /\ [L!LifecycleNext]_(L!lifecycleVars) <=> [LP!LifecycleNext]_(LP!lifecycleVars)
  BY DEF L!LifecycleInit, L!LifecycleNext, L!lifecycleVars, L!BeginRead, L!BeginCleanup,
     L!EndRead, L!EndCleanup, L!Via, L!PHASE_SETUP, L!PHASE_READ, L!PHASE_CLEANUP,
     L!PHASE_SETUP_TO_READ, L!PHASE_READ_TO_CLEANUP, L!PHASE_SETUP_TO_CLEANUP,
     LP!LifecycleInit, LP!LifecycleNext, LP!lifecycleVars, LP!BeginRead, LP!BeginCleanup,
     LP!EndRead, LP!EndCleanup, LP!Via, LP!PHASE_SETUP, LP!PHASE_READ, LP!PHASE_CLEANUP,
     LP!PHASE_SETUP_TO_READ, LP!PHASE_READ_TO_CLEANUP, LP!PHASE_SETUP_TO_CLEANUP

\* The phase only moves along the edges of the lifecycle, what `phase()` shows never goes
\* back, and no thread closes a transition that another has opened: compare_exchange and
\* fetch_update on one atomic are enough for that, whatever phase a thread has loaded before.
THEOREM KeepsToTheLifecycle ==
  PhasedCellSyncSpec => LP!FollowsTheGraph /\ LP!NeverGoesBack /\ LP!NeverTakenOver
  <1>1. PhasedCellSyncSpec => LP!LifecycleSpec
    BY RefinesLifecycle, SameLifecycle, PTL
    DEF ImplementsLifecycle, L!LifecycleSpec, LP!LifecycleSpec
  <1>2. QED
    BY <1>1, LP!OwnersMayStay, LP!PhaseFollowsTheGraph, LP!PhaseNeverGoesBack,
       LP!OwnersAreKept, PTL
-----------------------------------------------------------------------------
(* How an open transition winds down *)

\* Thread t stays where it is or goes from its place to a later one, as threads do in a
\* transitional phase.
GoesOn(t) ==
    \/ pc'[t] = pc[t]
    \/ pc[t] = "lock"   /\ pc'[t] \in {"run", "commit", "guard", "unlock", "ret"}
    \/ pc[t] = "run"    /\ pc'[t] \in {"swap", "commit"}
    \/ pc[t] = "swap"   /\ pc'[t] = "commit"
    \/ pc[t] = "commit" /\ pc'[t] = "unlock"
    \/ pc[t] \in {"unlock", "guard"} /\ pc'[t] = "ret"
    \/ pc[t] \in {"idle", "look", "reading", "ret"} /\ pc'[t] \in {"look", "reading", "ret", "idle"}

\* A thread at data_mutex goes on there or leaves, and while the phase is transitional
\* no method brings another one in.
LEMMA EverybodyGoesOn ==
  ASSUME TypeOK, phase \in InTransit, [PhasedCellSyncNext]_vars, NEW u \in Threads
  PROVE  GoesOn(u)
  <1>1. ASSUME NEW t \in Threads, transition_to_read(t) PROVE GoesOn(u)
    BY <1>1
    DEF TypeOK, InTransit, GoesOn, transition_to_read, ToReadBegin, ToReadRefused, ToReadLock,
        ToReadRun, ToReadSwap, ToReadCommit, Refuse, Enter, Step
  <1>2. ASSUME NEW t \in Threads, transition_to_cleanup(t) PROVE GoesOn(u)
    BY <1>2
    DEF TypeOK, InTransit, GoesOn, transition_to_cleanup, ToCleanupBegin, ToCleanupRefused,
        ToCleanupLock, ToCleanupRun, ToCleanupSwap, ToCleanupCommit, Refuse, Enter, Step
  <1>3. ASSUME NEW t \in Threads, lock(t) \/ try_lock(t) \/ GuardDrop(t) PROVE GoesOn(u)
    BY <1>3
    DEF TypeOK, InTransit, GoesOn, lock, try_lock, LockBegin, TryLockBegin, Lockable,
        LockRefused, LockAcquire, TryLockFails, GuardDrop, Refuse, Enter, Step
  <1>4. ASSUME NEW t \in Threads, read(t) \/ ReadEnd(t) \/ Unlock(t) \/ Return(t)
        PROVE  GoesOn(u)
    BY <1>4
    DEF TypeOK, InTransit, GoesOn, read, ReadBegin, ReadRefused, ReadLook, ReadEnd, Unlock,
        Return, Refuse, Enter, Step
  <1>5. CASE UNCHANGED vars
    BY <1>5 DEF vars, GoesOn
  <1>6. QED BY <1>1, <1>2, <1>3, <1>4, <1>5 DEF PhasedCellSyncNext

\* While a transition is open nobody new comes to data_mutex, and whoever is at it only goes
\* on: its owner can be kept waiting by no more than the lockers it found there.
THEOREM OpenTransitionsWindDown == PhasedCellSyncSpec => TransitionsWindDown
  <1>1. ASSUME NEW t \in Threads, GoesOn(t), StepsLeft(t) > 0 \/ StepsLeft(t)' > 0
        PROVE  pc'[t] = pc[t] \/ StepsLeft(t)' < StepsLeft(t)
    BY <1>1 DEF GoesOn, StepsLeft
  <1>2. Inv /\ [PhasedCellSyncNext]_vars =>
          [(phase \in InTransit) =>
              \A t \in Threads : StepsLeft(t) > 0 \/ StepsLeft(t)' > 0 =>
                  pc'[t] = pc[t] \/ StepsLeft(t)' < StepsLeft(t)]_vars
    BY <1>1, EverybodyGoesOn DEF Inv
  <1>3. QED BY <1>2, Invariance, PTL DEF PhasedCellSyncSpec, TransitionsWindDown

\* As long as a transition is open, somebody at data_mutex can move: its owner, or the
\* thread that holds the mutex its owner waits for.
THEOREM OpenTransitionsCanMove == PhasedCellSyncSpec => []TransitionsCanMove
  <1>1. ASSUME Inv, phase \in InTransit
        PROVE  \E t \in Threads : StepsLeft(t) > 0 /\ (pc[t] = "lock" => holder = Nobody)
    <2>1. PICK t \in Threads : InTransition(t)
      BY <1>1 DEF Inv, PhaseInv
    <2>2. CASE pc[t] = "lock" => holder = Nobody
      BY <2>1, <2>2 DEF InTransition, StepsLeft
    <2>3. CASE pc[t] = "lock" /\ holder # Nobody
      <3>1. holder \in Threads
        BY <1>1, <2>3 DEF Inv, TypeOK
      <3>2. pc[holder] \in {"run", "swap", "commit", "unlock", "guard"}
        BY <1>1, <3>1 DEF Inv, MutexInv
      <3>3. QED BY <3>1, <3>2 DEF StepsLeft
    <2>4. QED BY <2>2, <2>3
  <1>2. QED BY <1>1, Invariance, PTL DEF TransitionsCanMove

-----------------------------------------------------------------------------
(* Readers *)

\* Once the phase has left Read no reader gets in: a cleanup shares the data with readers
\* it found there, and with fewer of them at each step.
THEOREM NoNewReaders == PhasedCellSyncSpec => ReadersOnlyLeave
  <1>1. ASSUME TypeOK, phase # PHASE_READ, NEW t \in Threads, NEW u \in Threads,
               \/ transition_to_read(t) \/ transition_to_cleanup(t)
               \/ lock(t) \/ try_lock(t) \/ GuardDrop(t)
               \/ Unlock(t) \/ Return(t)
        PROVE  pc'[u] = pc[u] \/ pc'[u] \notin {"look", "reading"}
    BY <1>1
    DEF TypeOK, transition_to_read, ToReadBegin, ToReadRefused, ToReadLock,
        ToReadRun, ToReadSwap, ToReadCommit, transition_to_cleanup, ToCleanupBegin,
        ToCleanupRefused, ToCleanupLock, ToCleanupRun, ToCleanupSwap, ToCleanupCommit, lock,
        try_lock, LockBegin, TryLockBegin, LockRefused, LockAcquire, TryLockFails, GuardDrop,
        Unlock, Return, Refuse, Enter, Step
  <1>2. ASSUME TypeOK, phase # PHASE_READ, NEW t \in Threads, NEW u \in Threads,
               read(t) \/ ReadEnd(t)
        PROVE  pc'[u] = pc[u] \/ pc[u] = "look" \/ pc'[u] \notin {"look", "reading"}
    BY <1>2
    DEF TypeOK, read, ReadBegin, ReadRefused, ReadLook, ReadEnd, Refuse, Enter, Step
  <1>3. Inv /\ [PhasedCellSyncNext]_vars =>
          [(phase # PHASE_READ) => Readers' \subseteq Readers]_vars
    BY <1>1, <1>2 DEF Inv, Readers, PhasedCellSyncNext
  <1>4. QED BY <1>3, Invariance, PTL DEF PhasedCellSyncSpec, ReadersOnlyLeave
==============================================================================
