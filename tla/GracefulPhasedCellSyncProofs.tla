---------------------- MODULE GracefulPhasedCellSyncProofs ----------------------
(***************************************************************************)
(* Proofs about GracefulPhasedCellSync, for any finite set of threads,     *)
(* with and without time-outs and misuse.                                  *)
(*                                                                         *)
(* Inv is inductive.  What keeps a wake-up from being lost is spread over  *)
(* its conjuncts: GateInv (a notification cannot come between a test and   *)
(* the sleep, since both hold graceful_mutex), OwnerInv (a cleanup that    *)
(* sleeps has the phase that the last reader tests before it notifies) and *)
(* WakeInv itself.  Most steps concern none of it: they are Quiet.         *)
(***************************************************************************)
EXTENDS GracefulPhasedCellSync, FiniteSetTheorems, TLAPS

\* The phase codes stand for their strings everywhere below.
USE DEF PHASE_SETUP, PHASE_READ, PHASE_CLEANUP, PHASE_SETUP_TO_READ,
        PHASE_READ_TO_CLEANUP, PHASE_SETUP_TO_CLEANUP,
        Cell!PHASE_SETUP, Cell!PHASE_READ, Cell!PHASE_CLEANUP, Cell!PHASE_SETUP_TO_READ,
        Cell!PHASE_READ_TO_CLEANUP, Cell!PHASE_SETUP_TO_CLEANUP

-----------------------------------------------------------------------------
(* The initial state *)

\* A new cell satisfies the invariant.
LEMMA InitInv == GracefulInit => Inv
  <1> SUFFICES ASSUME GracefulInit PROVE Inv
    OBVIOUS
  <1>1. TypeOK
    BY DEF GracefulInit, Cell!PhasedCellSyncInit, TypeOK, PhaseCode, GracefulPC, Cell!PC,
       Cell!NoResult, NoResult, Result
  <1>2. GateInv /\ OwnerInv /\ WakeInv
    BY GracefulAssumption
    DEF GracefulInit, Cell!PhasedCellSyncInit, GateInv, OwnerInv, WakeInv, Waiting,
        InTransition
  <1>3. CountInv
    <2>1. Counted = {}
      BY DEF GracefulInit, Cell!PhasedCellSyncInit, Counted
    <2>2. QED
      BY <2>1, FS_EmptySet DEF GracefulInit, CountInv, CounterBounded
  <1>4. QED
    BY <1>1, <1>2, <1>3 DEF Inv

-----------------------------------------------------------------------------
(* Quiet steps: they touch nothing that a sleeper, or its waker, depends on. *)

\* The places that the counter or a sleeper depends on.
Watched == {"check", "wait", "asleep", "reading", "last"}

\* Every other thread is as it was.
ExceptAt(t) ==
    \A u \in Threads \ {t} :
        pc'[u] = pc[u] /\ call'[u] = call[u] /\ old'[u] = old[u] /\ res'[u] = res[u]

\* A step of thread t that opens, publishes, counts and notifies nothing.
Quiet(t) ==
    /\ UNCHANGED <<phase, graceful_counter, graceful_holder>>
    /\ ExceptAt(t)
    /\ pc[t] \notin Watched /\ pc'[t] \notin Watched
    /\ pc'[t] = "gate" => call'[t] = "read"
    /\ pc'[t] = "peeked" => call'[t] \in {"lock", "try_lock"}
    /\ InTransition(t)' => /\ InTransition(t) /\ call'[t] = call[t] /\ old'[t] = old[t]
                           /\ ~Waiting(t)'
    /\ Informs(t) => Informs(t)'

\* A quiet step preserves the invariant.
LEMMA QuietInv ==
  ASSUME Inv, TypeOK', NEW t \in Threads, Quiet(t) PROVE Inv'
  <1>1. GateInv'
    BY GracefulAssumption DEF Inv, TypeOK, GateInv, Waiting, Quiet, ExceptAt, Watched
  <1>2. OwnerInv'
    <2>1. ASSUME NEW u \in Threads, InTransition(u)'
          PROVE  /\ InTransition(u) /\ call'[u] = call[u] /\ old'[u] = old[u]
                 /\ Waiting(u)' => Waiting(u)
      BY <2>1 DEF InTransition, Waiting, Quiet, ExceptAt
    <2>2. phase' = phase
      BY DEF Quiet
    <2>3. QED
      BY <2>1, <2>2 DEF Inv, OwnerInv
  <1>3. CountInv'
    <2>1. Counted' = Counted /\ graceful_counter' = graceful_counter
      BY DEF Counted, Quiet, ExceptAt, Watched
    <2>2. QED
      BY <2>1 DEF Inv, CountInv, CounterBounded
  <1>4. WakeInv'
    <2> SUFFICES ASSUME NEW v \in Threads, pc'[v] \in {"wait", "asleep"}
                 PROVE  /\ call'[v] = "transition_to_cleanup" /\ graceful_counter' = 0
                             => \E u \in Threads : pc'[u] = "last"
                        /\ call'[v] = "read" /\ phase' # PHASE_SETUP_TO_READ
                             => \E u \in Threads : Informs(u)'
      BY DEF WakeInv
    <2>1. /\ pc[v] \in {"wait", "asleep"} /\ call[v] = call'[v]
          /\ phase' = phase /\ graceful_counter' = graceful_counter
      BY DEF Quiet, ExceptAt, Watched
    <2>2. \A u \in Threads : pc[u] = "last" => pc'[u] = "last"
      BY DEF Quiet, ExceptAt, Watched
    <2>3. \A u \in Threads : Informs(u) => Informs(u)'
      BY DEF Quiet, ExceptAt, Informs
    <2>4. QED
      BY <2>1, <2>2, <2>3 DEF Inv, WakeInv
  <1>5. QED
    BY <1>1, <1>2, <1>3, <1>4 DEF Inv

\* Quiet: a refusal.
LEMMA ToReadRefusedInv ==
  ASSUME Inv, NEW t \in Threads, ToReadRefused(t) PROVE Inv'
  <1>1. TypeOK'
    <2>1. Cell!ToReadRefusal(phase) \in Result
      BY DEF Inv, TypeOK, PhaseCode, Cell!ToReadRefusal, Cell!Err, Cell!u8_to_phase,
         Result, PublicPhase, PhasedErrorKind
    <2>2. res' \in [Threads -> Result]
      BY <2>1 DEF Inv, TypeOK, ToReadRefused, Cell!ToReadRefused, Cell!Refuse,
         Cell!Enter
    <2>3. QED
      BY <2>2 DEF Inv, TypeOK, ToReadRefused, Cell!ToReadRefused, Cell!Refuse,
         Cell!Enter, data, mutex, Cell!data, Cell!mutex, graceful, GracefulPC,
         Cell!PC, Cell!Method
  <1>2. Quiet(t)
    BY DEF Inv, TypeOK, ToReadRefused, Cell!ToReadRefused, Cell!Refuse, Cell!Enter,
       Cell!data, Cell!mutex, graceful, Quiet, Watched, Informs, InTransition,
       Waiting, ExceptAt
  <1>3. QED BY <1>1, <1>2, QuietInv

LEMMA ToCleanupRefusedInv ==
  ASSUME Inv, NEW t \in Threads, ToCleanupRefused(t) PROVE Inv'
  <1>1. TypeOK'
    <2>1. Cell!ToCleanupRefusal(phase) \in Result
      BY DEF Inv, TypeOK, PhaseCode, Cell!ToCleanupRefusal, Cell!Err,
         Cell!u8_to_phase, Result, PublicPhase, PhasedErrorKind
    <2>2. res' \in [Threads -> Result]
      BY <2>1 DEF Inv, TypeOK, ToCleanupRefused, Cell!ToCleanupRefused, Cell!Refuse,
         Cell!Enter
    <2>3. QED
      BY <2>2 DEF Inv, TypeOK, ToCleanupRefused, Cell!ToCleanupRefused, Cell!Refuse,
         Cell!Enter, data, mutex, Cell!data, Cell!mutex, graceful, GracefulPC,
         Cell!PC, Cell!Method
  <1>2. Quiet(t)
    BY DEF Inv, TypeOK, ToCleanupRefused, Cell!ToCleanupRefused, Cell!Refuse,
       Cell!Enter, Cell!data, Cell!mutex, graceful, Quiet, Watched, Informs,
       InTransition, Waiting, ExceptAt
  <1>3. QED BY <1>1, <1>2, QuietInv

LEMMA ReadRefusedInv ==
  ASSUME Inv, NEW t \in Threads, ReadRefused(t) PROVE Inv'
  <1>1. TypeOK'
    <2>1. Err(phase, "CannotCallUnlessPhaseRead") \in Result
      BY DEF Inv, TypeOK, Err, u8_to_phase, Result, PublicPhase, PhasedErrorKind
    <2>2. res' \in [Threads -> Result]
      BY <2>1 DEF Inv, TypeOK, ReadRefused, Cell!Refuse, Cell!Enter
    <2>3. QED
      BY <2>2 DEF Inv, TypeOK, ReadRefused, Cell!Refuse, Cell!Enter, data, mutex,
         Cell!data, Cell!mutex, graceful, GracefulPC, Cell!PC, Cell!Method
  <1>2. Quiet(t)
    BY DEF Inv, TypeOK, ReadRefused, Cell!Refuse, Cell!Enter, Cell!data, Cell!mutex,
       graceful, Quiet, Watched, Informs, InTransition, Waiting, ExceptAt
  <1>3. QED BY <1>1, <1>2, QuietInv

LEMMA ReadRelaxedRefusedInv ==
  ASSUME Inv, NEW t \in Threads, ReadRelaxedRefused(t) PROVE Inv'
  <1>1. TypeOK'
    <2>1. Err(phase, "CannotCallUnlessPhaseRead") \in Result
      BY DEF Inv, TypeOK, Err, u8_to_phase, Result, PublicPhase, PhasedErrorKind
    <2>2. res' \in [Threads -> Result]
      BY <2>1 DEF Inv, TypeOK, ReadRelaxedRefused, Cell!Refuse, Cell!Enter
    <2>3. QED
      BY <2>2 DEF Inv, TypeOK, ReadRelaxedRefused, Cell!Refuse, Cell!Enter, data,
         mutex, Cell!data, Cell!mutex, graceful, GracefulPC, Cell!PC, Cell!Method
  <1>2. Quiet(t)
    BY DEF Inv, TypeOK, ReadRelaxedRefused, Cell!Refuse, Cell!Enter, Cell!data,
       Cell!mutex, graceful, Quiet, Watched, Informs, InTransition, Waiting, ExceptAt
  <1>3. QED BY <1>1, <1>2, QuietInv

\* Quiet: what a transition does between opening and publishing.
LEMMA ToReadLockInv ==
  ASSUME Inv, NEW t \in Threads, ToReadLock(t) PROVE Inv'
  <1>1. TypeOK'
    <2>1. Cell!ToReadFault(t) \in Result
      BY DEF Inv, TypeOK, Cell!ToReadFault, Cell!NoResult, NoResult, Cell!Err,
         Cell!u8_to_phase, Result, PublicPhase, PhasedErrorKind
    <2>2. res' \in [Threads -> Result]
      BY <2>1 DEF Inv, TypeOK, ToReadLock, Cell!ToReadLock, Cell!Step
    <2>3. QED
      BY <2>2 DEF Inv, TypeOK, ToReadLock, Cell!ToReadLock, Cell!Step, data, mutex,
         Cell!data, Cell!mutex, graceful, GracefulPC, Cell!PC, Cell!Method
  <1>2. Quiet(t)
    BY DEF Inv, TypeOK, ToReadLock, Cell!ToReadLock, Cell!Step, Cell!data, Cell!mutex,
       graceful, Quiet, Watched, Informs, InTransition, Waiting, ExceptAt
  <1>3. QED BY <1>1, <1>2, QuietInv

LEMMA ToCleanupLockInv ==
  ASSUME Inv, NEW t \in Threads, ToCleanupLock(t) PROVE Inv'
  <1>1. TypeOK'
    <2>1. Cell!ToCleanupFault(t) \in Result
      BY DEF Inv, TypeOK, Cell!ToCleanupFault, Cell!NoResult, NoResult, Cell!Err,
         Cell!u8_to_phase, Result, PublicPhase, PhasedErrorKind
    <2>2. res' \in [Threads -> Result]
      BY <2>1 DEF Inv, TypeOK, ToCleanupLock, Cell!ToCleanupLock, Cell!Step
    <2>3. QED
      BY <2>2 DEF Inv, TypeOK, ToCleanupLock, Cell!ToCleanupLock, Cell!Step, data,
         mutex, Cell!data, Cell!mutex, graceful, GracefulPC, Cell!PC, Cell!Method
  <1>2. Quiet(t)
    BY DEF Inv, TypeOK, ToCleanupLock, Cell!ToCleanupLock, Cell!Step, Cell!data,
       Cell!mutex, graceful, Quiet, Watched, Informs, InTransition, Waiting, ExceptAt
  <1>3. QED BY <1>1, <1>2, QuietInv

LEMMA ToReadRunInv ==
  ASSUME Inv, NEW t \in Threads, ToReadRun(t) PROVE Inv'
  <1>1. TypeOK'
    <2>1. {Cell!Ok, Cell!Panic,
           Cell!Err(PHASE_SETUP, "FailToRunClosureDuringTransitionToRead")}
             \subseteq Result
      BY DEF Inv, TypeOK, Cell!Ok, Ok, Cell!Panic, Panic, Cell!Err, Cell!u8_to_phase,
         Result, PublicPhase, PhasedErrorKind
    <2>2. res' \in [Threads -> Result]
      BY <2>1 DEF Inv, TypeOK, ToReadRun, Cell!ToReadRun, Cell!Step
    <2>3. QED
      BY <2>2 DEF Inv, TypeOK, ToReadRun, Cell!ToReadRun, Cell!Step, data, mutex,
         Cell!data, Cell!mutex, graceful, GracefulPC, Cell!PC, Cell!Method
  <1>2. Quiet(t)
    BY DEF Inv, TypeOK, ToReadRun, Cell!ToReadRun, Cell!Step, Cell!data, Cell!mutex,
       graceful, Quiet, Watched, Informs, InTransition, Waiting, ExceptAt
  <1>3. QED BY <1>1, <1>2, QuietInv

LEMMA ToCleanupRunInv ==
  ASSUME Inv, NEW t \in Threads, ToCleanupRun(t) PROVE Inv'
  <1>1. TypeOK'
    <2>1. {Cell!Ok, Cell!Panic,
           Cell!Err(PHASE_CLEANUP, "FailToRunClosureDuringTransitionToCleanup")}
             \subseteq Result
      BY DEF Inv, TypeOK, Cell!Ok, Ok, Cell!Panic, Panic, Cell!Err, Cell!u8_to_phase,
         Result, PublicPhase, PhasedErrorKind
    <2>2. res' \in [Threads -> Result]
      BY <2>1 DEF Inv, TypeOK, ToCleanupRun, Cell!ToCleanupRun, Cell!Step
    <2>3. QED
      BY <2>2 DEF Inv, TypeOK, ToCleanupRun, Cell!ToCleanupRun, Cell!Step, data,
         mutex, Cell!data, Cell!mutex, graceful, GracefulPC, Cell!PC, Cell!Method
  <1>2. Quiet(t)
    BY DEF Inv, TypeOK, ToCleanupRun, Cell!ToCleanupRun, Cell!Step, Cell!data,
       Cell!mutex, graceful, Quiet, Watched, Informs, InTransition, Waiting, ExceptAt
  <1>3. QED BY <1>1, <1>2, QuietInv

LEMMA ToReadSwapInv ==
  ASSUME Inv, NEW t \in Threads, ToReadSwap(t) PROVE Inv'
  <1>1. TypeOK'
    BY DEF Inv, TypeOK, ToReadSwap, Cell!ToReadSwap, Cell!Step, Cell!data, Cell!mutex,
       graceful, GracefulPC, Cell!PC
  <1>2. Quiet(t)
    BY DEF Inv, TypeOK, ToReadSwap, Cell!ToReadSwap, Cell!Step, Cell!data, Cell!mutex,
       graceful, Quiet, Watched, Informs, InTransition, Waiting, ExceptAt
  <1>3. QED BY <1>1, <1>2, QuietInv

LEMMA ToCleanupSwapInv ==
  ASSUME Inv, NEW t \in Threads, ToCleanupSwap(t) PROVE Inv'
  <1>1. TypeOK'
    BY DEF Inv, TypeOK, ToCleanupSwap, Cell!ToCleanupSwap, Cell!Step, Cell!data,
       Cell!mutex, graceful, GracefulPC, Cell!PC
  <1>2. Quiet(t)
    BY DEF Inv, TypeOK, ToCleanupSwap, Cell!ToCleanupSwap, Cell!Step, Cell!data,
       Cell!mutex, graceful, Quiet, Watched, Informs, InTransition, Waiting, ExceptAt
  <1>3. QED BY <1>1, <1>2, QuietInv

\* Quiet: lock, try_lock and the guards.
LEMMA LockPeekInv ==
  ASSUME Inv, NEW t \in Threads, LockPeek(t) PROVE Inv'
  <1>1. TypeOK'
    BY DEF Inv, TypeOK, LockPeek, data, mutex, GracefulPC, Cell!PC, Cell!Method
  <1>2. Quiet(t)
    BY DEF Inv, TypeOK, LockPeek, data, mutex, Quiet, Watched, Informs, InTransition,
       Waiting, ExceptAt
  <1>3. QED BY <1>1, <1>2, QuietInv

LEMMA LockDecideInv ==
  ASSUME Inv, NEW t \in Threads, LockDecide(t) PROVE Inv'
  <1>1. TypeOK'
    <2>1. {NoResult, LockRefusal(phase)} \subseteq Result
      BY DEF Inv, TypeOK, PhaseCode, NoResult, LockRefusal, Err, u8_to_phase, Result,
         PublicPhase, PhasedErrorKind
    <2>2. res' \in [Threads -> Result]
      BY <2>1 DEF Inv, TypeOK, LockDecide
    <2>3. QED
      BY <2>2 DEF Inv, TypeOK, LockDecide, data, mutex, Cell!data, Cell!mutex,
         graceful, GracefulPC, Cell!PC, Cell!Method
  <1>2. Quiet(t)
    BY DEF Inv, TypeOK, LockDecide, data, mutex, graceful, Cell!Lockable, GateInv,
       Quiet, Watched, Informs, InTransition, Waiting, ExceptAt
  <1>3. QED BY <1>1, <1>2, QuietInv

LEMMA LockAcquireInv ==
  ASSUME Inv, NEW t \in Threads, LockAcquire(t) PROVE Inv'
  <1>1. TypeOK'
    <2>1. LockFault(t) \in Result
      BY DEF Inv, TypeOK, LockFault, NoResult, Err, u8_to_phase, Result, PublicPhase,
         PhasedErrorKind
    <2>2. res' \in [Threads -> Result]
      BY <2>1 DEF Inv, TypeOK, LockAcquire, Cell!Step
    <2>3. QED
      BY <2>2 DEF Inv, TypeOK, LockAcquire, Cell!Step, data, mutex, Cell!data,
         Cell!mutex, graceful, GracefulPC, Cell!PC, Cell!Method
  <1>2. Quiet(t)
    BY DEF Inv, TypeOK, LockAcquire, Cell!Step, data, graceful, Quiet, Watched,
       Informs, InTransition, Waiting, ExceptAt
  <1>3. QED BY <1>1, <1>2, QuietInv

LEMMA TryLockFailsInv ==
  ASSUME Inv, NEW t \in Threads, TryLockFails(t) PROVE Inv'
  <1>1. TypeOK'
    <2>1. Err(seen[t], "MutexTryLockFailed") \in Result
      BY DEF Inv, TypeOK, Err, u8_to_phase, Result, PublicPhase, PhasedErrorKind
    <2>2. res' \in [Threads -> Result]
      BY <2>1 DEF Inv, TypeOK, TryLockFails, Cell!Step
    <2>3. QED
      BY <2>2 DEF Inv, TypeOK, TryLockFails, Cell!Step, data, mutex, Cell!data,
         Cell!mutex, graceful, GracefulPC, Cell!PC, Cell!Method
  <1>2. Quiet(t)
    BY DEF Inv, TypeOK, TryLockFails, Cell!Step, data, mutex, graceful, Quiet,
       Watched, Informs, InTransition, Waiting, ExceptAt
  <1>3. QED BY <1>1, <1>2, QuietInv

LEMMA GuardDropInv ==
  ASSUME Inv, NEW t \in Threads, GuardDrop(t) PROVE Inv'
  <1>1. TypeOK'
    BY DEF Inv, TypeOK, GuardDrop, Cell!GuardDrop, Cell!data, Cell!mutex, graceful,
       GracefulPC, Cell!PC, Cell!Ok, Ok, Cell!Panic, Panic, Result
  <1>2. Quiet(t)
    BY DEF Inv, TypeOK, GuardDrop, Cell!GuardDrop, Cell!data, Cell!mutex, graceful,
       Quiet, Watched, Informs, InTransition, Waiting, ExceptAt
  <1>3. QED BY <1>1, <1>2, QuietInv

\* Quiet: a reader up to its &T, releasing data_mutex, and returning.
LEMMA ReadBeginInv ==
  ASSUME Inv, NEW t \in Threads, ReadBegin(t) PROVE Inv'
  <1>1. TypeOK'
    BY DEF Inv, TypeOK, ReadBegin, Cell!Enter, data, mutex, graceful, GracefulPC,
       Cell!PC, Cell!Method
  <1>2. Quiet(t)
    BY DEF Inv, TypeOK, ReadBegin, Cell!Enter, data, mutex, graceful, Quiet, Watched,
       Informs, InTransition, Waiting, ExceptAt
  <1>3. QED BY <1>1, <1>2, QuietInv

LEMMA ReadRelaxedBeginInv ==
  ASSUME Inv, NEW t \in Threads, ReadRelaxedBegin(t) PROVE Inv'
  <1>1. TypeOK'
    BY DEF Inv, TypeOK, ReadRelaxedBegin, Cell!Enter, data, mutex, graceful,
       GracefulPC, Cell!PC, Cell!Method
  <1>2. Quiet(t)
    BY DEF Inv, TypeOK, ReadRelaxedBegin, Cell!Enter, data, mutex, graceful, Quiet,
       Watched, Informs, InTransition, Waiting, ExceptAt
  <1>3. QED BY <1>1, <1>2, QuietInv

LEMMA ReadLookInv ==
  ASSUME Inv, NEW t \in Threads, ReadLook(t) PROVE Inv'
  <1>1. TypeOK'
    <2>1. {Ok, Err(phase, "InternalDataUnavailable"),
           Err(PHASE_READ, "InternalDataUnavailable")} \subseteq Result
      BY DEF Inv, TypeOK, Ok, Err, u8_to_phase, Result, PublicPhase, PhasedErrorKind
    <2>2. res' \in [Threads -> Result]
      BY <2>1 DEF Inv, TypeOK, ReadLook, Cell!Step, Reading
    <2>3. QED
      BY <2>2 DEF Inv, TypeOK, ReadLook, Cell!Step, Reading, data, mutex, Cell!data,
         Cell!mutex, graceful, GracefulPC, Cell!PC, Cell!Method
  <1>2. Quiet(t)
    BY DEF Inv, TypeOK, ReadLook, Cell!Step, Reading, data, mutex, graceful, Quiet,
       Watched, Informs, InTransition, Waiting, ExceptAt
  <1>3. QED BY <1>1, <1>2, QuietInv

LEMMA UnlockInv ==
  ASSUME Inv, NEW t \in Threads, Unlock(t) PROVE Inv'
  <1>1. TypeOK'
    BY DEF Inv, TypeOK, Unlock, data, graceful, GracefulPC, Cell!PC
  <1>2. Quiet(t)
    BY DEF Inv, TypeOK, Unlock, data, graceful, Quiet, Watched, Informs, InTransition,
       Waiting, ExceptAt
  <1>3. QED BY <1>1, <1>2, QuietInv

LEMMA ReturnInv ==
  ASSUME Inv, NEW t \in Threads, Return(t) PROVE Inv'
  <1>1. TypeOK'
    BY DEF Inv, TypeOK, Return, Cell!Return, Cell!data, Cell!mutex, GracefulPC,
       Cell!PC, Cell!Method, PhaseCode, Result, Cell!NoResult, NoResult
  <1>2. Quiet(t)
    BY DEF Inv, TypeOK, Return, Cell!Return, Cell!data, Cell!mutex, Quiet, Watched,
       Informs, InTransition, Waiting, ExceptAt
  <1>3. QED BY <1>1, <1>2, QuietInv

-----------------------------------------------------------------------------
(* The steps that open, publish, wait, count or notify. *)

\* transition_to_read opens: whoever waits for Read may go on waiting.
LEMMA ToReadBeginInv ==
  ASSUME Inv, NEW t \in Threads, ToReadBegin(t) PROVE Inv'
  <1>1. TypeOK'
    BY DEF Inv, TypeOK, ToReadBegin, Cell!ToReadBegin, Cell!Enter, Cell!data,
       Cell!mutex, graceful, GracefulPC, Cell!PC, Cell!Method, PhaseCode
  <1>2. GateInv'
    BY GracefulAssumption DEF Inv, TypeOK, GateInv, Waiting, ToReadBegin,
       Cell!ToReadBegin, Cell!Enter, Cell!data, Cell!mutex, graceful
  <1>3. OwnerInv'
    BY DEF Inv, TypeOK, OwnerInv, InTransition, Waiting, Via, ToReadBegin,
       Cell!ToReadBegin, Cell!Enter, Cell!data, Cell!mutex, graceful
  <1>4. CountInv'
    <2>1. Counted' = Counted /\ graceful_counter' = graceful_counter
      BY DEF Inv, TypeOK, Counted, ToReadBegin, Cell!ToReadBegin, Cell!Enter,
         Cell!data, Cell!mutex, graceful
    <2>2. QED BY <2>1 DEF Inv, CountInv, CounterBounded
  <1>5. WakeInv'
    BY GracefulAssumption DEF Inv, TypeOK, WakeInv, Informs, ToReadBegin,
       Cell!ToReadBegin, Cell!Enter, Cell!data, Cell!mutex, graceful
  <1>6. QED BY <1>1, <1>2, <1>3, <1>4, <1>5 DEF Inv

\* transition_to_read publishes: it has the readers to notify from now on.
LEMMA ToReadCommitInv ==
  ASSUME Inv, NEW t \in Threads, ToReadCommit(t) PROVE Inv'
  <1>1. TypeOK'
    BY DEF Inv, TypeOK, ToReadCommit, Cell!Step, Cell!change_phase, data, mutex,
       graceful, GracefulPC, Cell!PC, PhaseCode
  <1>2. GateInv'
    BY GracefulAssumption DEF Inv, TypeOK, GateInv, Waiting, ToReadCommit, Cell!Step,
       Cell!change_phase, data, mutex, graceful
  <1>3. OwnerInv'
    BY DEF Inv, TypeOK, OwnerInv, InTransition, Waiting, Via, ToReadCommit, Cell!Step,
       Cell!change_phase, data, mutex, graceful
  <1>4. CountInv'
    <2>1. Counted' = Counted /\ graceful_counter' = graceful_counter
      BY DEF Inv, TypeOK, Counted, ToReadCommit, Cell!Step, Cell!change_phase, data,
         mutex, graceful
    <2>2. QED BY <2>1 DEF Inv, CountInv, CounterBounded
  <1>5. WakeInv'
    BY GracefulAssumption DEF Inv, TypeOK, WakeInv, Informs, ToReadCommit, Cell!Step,
       Cell!change_phase, data, mutex, graceful
  <1>6. QED BY <1>1, <1>2, <1>3, <1>4, <1>5 DEF Inv

\* notify_read_phase leaves nobody asleep.
LEMMA notify_read_phaseInv ==
  ASSUME Inv, NEW t \in Threads, notify_read_phase(t) PROVE Inv'
  <1>1. TypeOK'
    BY DEF Inv, TypeOK, notify_read_phase, NotifyAll, Woken, data, mutex, graceful,
       GracefulPC, Cell!PC
  <1>2. GateInv'
    BY GracefulAssumption DEF Inv, TypeOK, GateInv, Waiting, notify_read_phase,
       NotifyAll, Woken, data, mutex, graceful
  <1>3. OwnerInv'
    BY DEF Inv, TypeOK, OwnerInv, InTransition, Waiting, Via, notify_read_phase,
       NotifyAll, Woken, data, mutex, graceful
  <1>4. CountInv'
    <2>1. Counted' = Counted /\ graceful_counter' = graceful_counter
      BY DEF Inv, TypeOK, Counted, notify_read_phase, NotifyAll, Woken, data, mutex,
         graceful
    <2>2. QED BY <2>1 DEF Inv, CountInv, CounterBounded
  <1>5. WakeInv'
    <2>1. \A u \in Threads : pc'[u] \notin {"wait", "asleep"}
      BY GracefulAssumption DEF Inv, TypeOK, GateInv, notify_read_phase, NotifyAll, Woken
    <2>2. QED BY <2>1 DEF WakeInv
  <1>6. QED BY <1>1, <1>2, <1>3, <1>4, <1>5 DEF Inv

\* transition_to_cleanup opens.
LEMMA ToCleanupBeginInv ==
  ASSUME Inv, NEW t \in Threads, ToCleanupBegin(t) PROVE Inv'
  <1>1. TypeOK'
    BY DEF Inv, TypeOK, ToCleanupBegin, Cell!Enter, data, mutex, graceful, GracefulPC,
       Cell!PC, Cell!Method, PhaseCode, Via
  <1>2. GateInv'
    BY GracefulAssumption DEF Inv, TypeOK, GateInv, Waiting, ToCleanupBegin,
       Cell!Enter, data, mutex, graceful
  <1>3. OwnerInv'
    BY DEF Inv, TypeOK, OwnerInv, InTransition, Waiting, Via, ToCleanupBegin,
       Cell!Enter, data, mutex, graceful
  <1>4. CountInv'
    <2>1. Counted' = Counted /\ graceful_counter' = graceful_counter
      BY DEF Inv, TypeOK, Counted, ToCleanupBegin, Cell!Enter, data, mutex, graceful
    <2>2. QED BY <2>1 DEF Inv, CountInv, CounterBounded
  <1>5. WakeInv'
    BY GracefulAssumption DEF Inv, TypeOK, WakeInv, Informs, ToCleanupBegin,
       Cell!Enter, data, mutex, graceful
  <1>6. QED BY <1>1, <1>2, <1>3, <1>4, <1>5 DEF Inv

\* A cleanup sleeps only if it has found readers.
LEMMA CleanupCheckInv ==
  ASSUME Inv, NEW t \in Threads, CleanupCheck(t) PROVE Inv'
  <1>1. TypeOK'
    BY DEF Inv, TypeOK, CleanupCheck, CleanupTurn, data, mutex, GracefulPC, Cell!PC
  <1>2. GateInv'
    BY GracefulAssumption DEF Inv, TypeOK, GateInv, Waiting, CleanupCheck,
       CleanupTurn, data, mutex
  <1>3. OwnerInv'
    BY DEF Inv, TypeOK, OwnerInv, InTransition, Waiting, Via, CleanupCheck,
       CleanupTurn, data, mutex
  <1>4. CountInv'
    <2>1. Counted' = Counted /\ graceful_counter' = graceful_counter
      BY DEF Inv, TypeOK, Counted, CleanupCheck, CleanupTurn, data, mutex
    <2>2. QED BY <2>1 DEF Inv, CountInv, CounterBounded
  <1>5. WakeInv'
    BY GracefulAssumption DEF Inv, TypeOK, WakeInv, Informs, CleanupCheck,
       CleanupTurn, data, mutex
  <1>6. QED BY <1>1, <1>2, <1>3, <1>4, <1>5 DEF Inv

\* transition_to_cleanup publishes: whoever waited for Read was to be notified before.
LEMMA ToCleanupCommitInv ==
  ASSUME Inv, NEW t \in Threads, ToCleanupCommit(t) PROVE Inv'
  <1>1. TypeOK'
    BY DEF Inv, TypeOK, ToCleanupCommit, Cell!ToCleanupCommit, Cell!Via, Cell!Step,
       Cell!change_phase, Cell!data, Cell!mutex, graceful, GracefulPC, Cell!PC,
       PhaseCode
  <1>2. GateInv'
    BY GracefulAssumption DEF Inv, TypeOK, GateInv, Waiting, ToCleanupCommit,
       Cell!ToCleanupCommit, Cell!Via, Cell!Step, Cell!change_phase, Cell!data,
       Cell!mutex, graceful
  <1>3. OwnerInv'
    BY DEF Inv, TypeOK, OwnerInv, InTransition, Waiting, Via, ToCleanupCommit,
       Cell!ToCleanupCommit, Cell!Via, Cell!Step, Cell!change_phase, Cell!data,
       Cell!mutex, graceful
  <1>4. CountInv'
    <2>1. Counted' = Counted /\ graceful_counter' = graceful_counter
      BY DEF Inv, TypeOK, Counted, ToCleanupCommit, Cell!ToCleanupCommit, Cell!Via,
         Cell!Step, Cell!change_phase, Cell!data, Cell!mutex, graceful
    <2>2. QED BY <2>1 DEF Inv, CountInv, CounterBounded
  <1>5. WakeInv'
    BY GracefulAssumption DEF Inv, TypeOK, WakeInv, Informs, ToCleanupCommit,
       Cell!ToCleanupCommit, Cell!Via, Cell!Step, Cell!change_phase, Cell!data,
       Cell!mutex, graceful
  <1>6. QED BY <1>1, <1>2, <1>3, <1>4, <1>5 DEF Inv

\* A reader sleeps only if it has found the transition in progress.
LEMMA ReadCheckInv ==
  ASSUME Inv, NEW t \in Threads, ReadCheck(t) PROVE Inv'
  <1>1. TypeOK'
    <2>1. {Err(phase, "GracefulWaitTimeout"),
           Err(phase, "CannotCallUnlessPhaseRead")} \subseteq Result
      BY DEF Inv, TypeOK, Err, u8_to_phase, Result, PublicPhase, PhasedErrorKind
    <2>2. res' \in [Threads -> Result]
      BY <2>1 DEF Inv, TypeOK, ReadCheck
    <2>3. QED
      BY <2>2 DEF Inv, TypeOK, ReadCheck, data, mutex, Cell!data, Cell!mutex,
         graceful, GracefulPC, Cell!PC, Cell!Method
  <1>2. GateInv'
    BY GracefulAssumption DEF Inv, TypeOK, GateInv, Waiting, ReadCheck, data, mutex
  <1>3. OwnerInv'
    BY DEF Inv, TypeOK, OwnerInv, InTransition, Waiting, Via, ReadCheck, data, mutex
  <1>4. CountInv'
    <2>1. Counted' = Counted /\ graceful_counter' = graceful_counter
      BY DEF Inv, TypeOK, Counted, ReadCheck, data, mutex
    <2>2. QED BY <2>1 DEF Inv, CountInv, CounterBounded
  <1>5. WakeInv'
    BY GracefulAssumption DEF Inv, TypeOK, WakeInv, Informs, ReadCheck, data, mutex
  <1>6. QED BY <1>1, <1>2, <1>3, <1>4, <1>5 DEF Inv

\* count_up: one reader more, and one more counted.
LEMMA count_upInv ==
  ASSUME Inv, NEW t \in Threads, count_up(t) PROVE Inv'
  <1>1. TypeOK'
    BY DEF Inv, TypeOK, count_up, Cell!Step, Reading, data, mutex, GracefulPC, Cell!PC
  <1>2. GateInv'
    BY GracefulAssumption DEF Inv, TypeOK, GateInv, Waiting, count_up, Cell!Step,
       Reading, data, mutex
  <1>3. OwnerInv'
    BY DEF Inv, TypeOK, OwnerInv, InTransition, Waiting, Via, count_up, Cell!Step,
       Reading, data, mutex
  <1>4. CountInv'
    <2>1. Counted' = Counted \cup {t}
      BY DEF Inv, TypeOK, Counted, count_up, Reading, Cell!Step
    <2>2. IsFiniteSet(Counted)
      BY GracefulAssumption, FS_Subset DEF Counted
    <2>3. Cardinality(Counted') = Cardinality(Counted) + 1
      BY <2>1, <2>2, FS_AddElement DEF Counted, count_up, Cell!Step
    <2>4. /\ graceful_counter \in Nat /\ CounterBounded
          /\ Misusers = {} => graceful_counter = Cardinality(Counted)
      BY DEF Inv, TypeOK, CountInv
    <2>5. graceful_counter' = graceful_counter + 1
      BY DEF count_up
    <2>6. QED BY <2>2, <2>3, <2>4, <2>5, FS_CardinalityType DEF CountInv, CounterBounded
  <1>5. WakeInv'
    BY GracefulAssumption DEF Inv, TypeOK, WakeInv, Informs, count_up, Cell!Step,
       Reading, data, mutex
  <1>6. QED BY <1>1, <1>2, <1>3, <1>4, <1>5 DEF Inv

\* finish_reading: one reader less, unless too many were uncounted already.
LEMMA finish_readingInv ==
  ASSUME Inv, NEW t \in Threads, finish_reading(t) PROVE Inv'
  <1>1. TypeOK'
    BY DEF Inv, TypeOK, finish_reading, Decrement, data, mutex, GracefulPC, Cell!PC
  <1>2. GateInv'
    BY GracefulAssumption DEF Inv, TypeOK, GateInv, Waiting, finish_reading,
       Decrement, data, mutex
  <1>3. OwnerInv'
    BY DEF Inv, TypeOK, OwnerInv, InTransition, Waiting, Via, finish_reading,
       Decrement, data, mutex
  <1>4. CountInv'
    <2>1. Counted' = Counted \ {t}
      BY DEF Inv, TypeOK, Counted, finish_reading, Decrement
    <2>2. IsFiniteSet(Counted)
      BY GracefulAssumption, FS_Subset DEF Counted
    <2>3. Cardinality(Counted') = Cardinality(Counted) - 1 /\ Cardinality(Counted) > 0
      <3>1. t \in Counted
        BY DEF finish_reading, Counted
      <3>2. Cardinality(Counted \ {t}) = Cardinality(Counted) - 1
        BY <2>2, <3>1, FS_RemoveElement
      <3>3. Cardinality(Counted) \in Nat /\ Cardinality(Counted) # 0
        BY <2>2, <3>1, FS_EmptySet, FS_CardinalityType
      <3>4. QED BY <2>1, <3>2, <3>3
    <2>4. /\ graceful_counter \in Nat /\ CounterBounded
          /\ Misusers = {} => graceful_counter = Cardinality(Counted)
      BY DEF Inv, TypeOK, CountInv
    <2>5. graceful_counter' = IF graceful_counter = 0 THEN 0 ELSE graceful_counter - 1
      BY DEF finish_reading, Decrement
    <2>6. QED BY <2>2, <2>3, <2>4, <2>5, FS_CardinalityType DEF CountInv, CounterBounded
  <1>5. WakeInv'
    BY GracefulAssumption DEF Inv, TypeOK, WakeInv, Informs, finish_reading,
       Decrement, data, mutex
  <1>6. QED BY <1>1, <1>2, <1>3, <1>4, <1>5 DEF Inv

\* A surplus finish_reading never takes the counter below zero.
LEMMA ExcessFinishReadingInv ==
  ASSUME Inv, NEW t \in Threads, ExcessFinishReading(t) PROVE Inv'
  <1>1. TypeOK'
    BY DEF Inv, TypeOK, ExcessFinishReading, Decrement, data, mutex, GracefulPC,
       Cell!PC
  <1>2. GateInv'
    BY GracefulAssumption DEF Inv, TypeOK, GateInv, Waiting, ExcessFinishReading,
       Decrement, data, mutex
  <1>3. OwnerInv'
    BY DEF Inv, TypeOK, OwnerInv, InTransition, Waiting, Via, ExcessFinishReading,
       Decrement, data, mutex
  <1>4. CountInv'
    <2>1. Counted' = Counted
      BY DEF Inv, TypeOK, Counted, ExcessFinishReading, Decrement
    <2>2. Misusers # {} /\ graceful_counter \in Nat
      BY DEF Inv, TypeOK, ExcessFinishReading
    <2>3. graceful_counter' = IF graceful_counter = 0 THEN 0 ELSE graceful_counter - 1
      BY DEF ExcessFinishReading, Decrement
    <2>4. Cardinality(Counted) \in Nat
      BY GracefulAssumption, FS_Subset, FS_CardinalityType DEF Counted
    <2>5. QED BY <2>1, <2>2, <2>3, <2>4 DEF Inv, CountInv, CounterBounded
  <1>5. WakeInv'
    BY GracefulAssumption DEF Inv, TypeOK, WakeInv, Informs, ExcessFinishReading,
       Decrement, data, mutex
  <1>6. QED BY <1>1, <1>2, <1>3, <1>4, <1>5 DEF Inv

\* The last reader leaves no cleanup asleep: one that sleeps has set the phase it tests.
LEMMA NotifyDrainedInv ==
  ASSUME Inv, NEW t \in Threads, NotifyDrained(t) PROVE Inv'
  <1>1. TypeOK'
    BY DEF Inv, TypeOK, NotifyDrained, NotifyAll, Woken, data, mutex, graceful,
       GracefulPC, Cell!PC
  <1>2. GateInv'
    BY GracefulAssumption DEF Inv, TypeOK, GateInv, Waiting, NotifyDrained, NotifyAll,
       Woken, data, mutex, graceful
  <1>3. OwnerInv'
    BY DEF Inv, TypeOK, OwnerInv, InTransition, Waiting, Via, NotifyDrained,
       NotifyAll, Woken, data, mutex, graceful
  <1>4. CountInv'
    <2>1. Counted' = Counted /\ graceful_counter' = graceful_counter
      BY DEF Inv, TypeOK, Counted, NotifyDrained, NotifyAll, Woken, data, mutex,
         graceful
    <2>2. QED BY <2>1 DEF Inv, CountInv, CounterBounded
  <1>5. WakeInv'
    <2>1. CASE phase = PHASE_READ_TO_CLEANUP
      BY <2>1, GracefulAssumption
      DEF Inv, TypeOK, GateInv, WakeInv, Informs, NotifyDrained, NotifyAll, Woken, data, mutex,
          graceful
    <2>2. CASE phase # PHASE_READ_TO_CLEANUP
      <3>1. \A u \in Threads : pc[u] \in {"wait", "asleep"} => call[u] # "transition_to_cleanup"
        BY <2>2 DEF Inv, OwnerInv, InTransition, Waiting, Via
      <3>2. QED
        BY <2>2, <3>1 DEF Inv, TypeOK, WakeInv, Informs, NotifyDrained, data, mutex, graceful
    <2>3. QED BY <2>1, <2>2
  <1>6. QED BY <1>1, <1>2, <1>3, <1>4, <1>5 DEF Inv

\* A thread that waits locks graceful_mutex.
LEMMA WaitLockInv ==
  ASSUME Inv, NEW t \in Threads, WaitLock(t) PROVE Inv'
  <1>1. TypeOK'
    BY DEF Inv, TypeOK, WaitLock, data, mutex, GracefulPC, Cell!PC
  <1>2. GateInv'
    BY GracefulAssumption DEF Inv, TypeOK, GateInv, Waiting, WaitLock, data, mutex
  <1>3. OwnerInv'
    BY DEF Inv, TypeOK, OwnerInv, InTransition, Waiting, Via, WaitLock, data, mutex
  <1>4. CountInv'
    <2>1. Counted' = Counted /\ graceful_counter' = graceful_counter
      BY DEF Inv, TypeOK, Counted, WaitLock, data, mutex
    <2>2. QED BY <2>1 DEF Inv, CountInv, CounterBounded
  <1>5. WakeInv'
    BY GracefulAssumption DEF Inv, TypeOK, WakeInv, Informs, WaitLock, data, mutex
  <1>6. QED BY <1>1, <1>2, <1>3, <1>4, <1>5 DEF Inv

\* A thread goes to sleep with what it would miss still to be told.
LEMMA WaitSleepInv ==
  ASSUME Inv, NEW t \in Threads, WaitSleep(t) PROVE Inv'
  <1>1. TypeOK'
    BY DEF Inv, TypeOK, WaitSleep, data, mutex, GracefulPC, Cell!PC
  <1>2. GateInv'
    BY GracefulAssumption DEF Inv, TypeOK, GateInv, Waiting, WaitSleep, data, mutex
  <1>3. OwnerInv'
    BY DEF Inv, TypeOK, OwnerInv, InTransition, Waiting, Via, WaitSleep, data, mutex
  <1>4. CountInv'
    <2>1. Counted' = Counted /\ graceful_counter' = graceful_counter
      BY DEF Inv, TypeOK, Counted, WaitSleep, data, mutex
    <2>2. QED BY <2>1 DEF Inv, CountInv, CounterBounded
  <1>5. WakeInv'
    BY GracefulAssumption DEF Inv, TypeOK, WakeInv, Informs, WaitSleep, data, mutex
  <1>6. QED BY <1>1, <1>2, <1>3, <1>4, <1>5 DEF Inv

\* A sleeper wakes by itself.
LEMMA WaitWakeInv ==
  ASSUME Inv, NEW t \in Threads, WaitWake(t) PROVE Inv'
  <1>1. TypeOK'
    BY DEF Inv, TypeOK, WaitWake, data, mutex, graceful, GracefulPC, Cell!PC
  <1>2. GateInv'
    BY GracefulAssumption DEF Inv, TypeOK, GateInv, Waiting, WaitWake, data, mutex,
       graceful
  <1>3. OwnerInv'
    BY DEF Inv, TypeOK, OwnerInv, InTransition, Waiting, Via, WaitWake, data, mutex,
       graceful
  <1>4. CountInv'
    <2>1. Counted' = Counted /\ graceful_counter' = graceful_counter
      BY DEF Inv, TypeOK, Counted, WaitWake, data, mutex, graceful
    <2>2. QED BY <2>1 DEF Inv, CountInv, CounterBounded
  <1>5. WakeInv'
    BY GracefulAssumption DEF Inv, TypeOK, WakeInv, Informs, WaitWake, data, mutex,
       graceful
  <1>6. QED BY <1>1, <1>2, <1>3, <1>4, <1>5 DEF Inv

-----------------------------------------------------------------------------
(* The invariant, and what follows from it *)

\* Every step of the cell preserves the invariant.
LEMMA NextInv == Inv /\ [GracefulNext]_vars => Inv'
  <1> SUFFICES ASSUME Inv, [GracefulNext]_vars PROVE Inv'
    OBVIOUS
  <1>1. ASSUME NEW t \in Threads, transition_to_read(t) PROVE Inv'
    BY <1>1, ToReadBeginInv, ToReadRefusedInv, ToReadLockInv, ToReadRunInv, ToReadSwapInv,
       ToReadCommitInv, notify_read_phaseInv
    DEF transition_to_read
  <1>2. ASSUME Inv, NEW t \in Threads, transition_to_cleanup(t) PROVE Inv'
    BY <1>2, ToCleanupBeginInv, ToCleanupRefusedInv, CleanupCheckInv, ToCleanupLockInv,
       ToCleanupRunInv, ToCleanupSwapInv, ToCleanupCommitInv
    DEF transition_to_cleanup
  <1>3. ASSUME Inv, NEW t \in Threads, lock(t) \/ try_lock(t) \/ GuardDrop(t) PROVE Inv'
    BY <1>3, LockPeekInv, LockDecideInv, LockAcquireInv, TryLockFailsInv, GuardDropInv
    DEF lock, try_lock
  <1>4. ASSUME NEW t \in Threads, read(t) \/ read_relaxed(t) PROVE Inv'
    BY <1>4, ReadBeginInv, ReadRefusedInv, ReadCheckInv, ReadLookInv, count_upInv,
       ReadRelaxedBeginInv, ReadRelaxedRefusedInv
    DEF read, read_relaxed
  <1>5. ASSUME NEW t \in Threads,
               finish_reading(t) \/ ExcessFinishReading(t) \/ NotifyDrained(t)
        PROVE  Inv'
    BY <1>5, finish_readingInv, ExcessFinishReadingInv, NotifyDrainedInv
  <1>6. ASSUME NEW t \in Threads, WaitLock(t) \/ WaitSleep(t) \/ WaitWake(t) PROVE Inv'
    BY <1>6, WaitLockInv, WaitSleepInv, WaitWakeInv
  <1>7. ASSUME NEW t \in Threads, Unlock(t) \/ Return(t) PROVE Inv'
    BY <1>7, UnlockInv, ReturnInv
  <1>8. CASE UNCHANGED vars
    <2>1. Counted' = Counted
      BY <1>8 DEF vars, cellVars, Counted
    <2>2. QED
      BY <1>8, <2>1
      DEF vars, cellVars, graceful, Inv, TypeOK, GateInv, OwnerInv, CountInv, CounterBounded,
          WakeInv, InTransition, Waiting, Informs
  <1>9. QED
    BY <1>1, <1>2, <1>3, <1>4, <1>5, <1>6, <1>7, <1>8 DEF GracefulNext

\* The invariant holds in every reachable state.
THEOREM Invariance == GracefulSpec => []Inv
  BY InitInv, NextInv, PTL DEF GracefulSpec

\* Every variable keeps to its type.
THEOREM TypeCorrect == GracefulSpec => []TypeOK
  <1>1. Inv => TypeOK BY DEF Inv
  <1>2. QED BY <1>1, Invariance, PTL

\* The counter never wraps, however many calls of finish_reading there are.
THEOREM CounterIsBounded == GracefulSpec => []CounterBounded
  <1>1. Inv => CounterBounded BY DEF Inv, CountInv
  <1>2. QED BY <1>1, Invariance, PTL

\* Whoever sleeps on the condition variable is going to be notified.
THEOREM NoWakeupIsLost == GracefulSpec => []NoLostWakeup
  <1>1. Inv => NoLostWakeup
    BY DEF Inv, WakeInv, NoLostWakeup, Informs
  <1>2. QED BY <1>1, Invariance, PTL

\* If nobody calls finish_reading without a read, a cleanup's wait ends well only when no
\* counted reader is left.
THEOREM CleanupAwaitsReaders ==
  ASSUME Misusers = {} PROVE GracefulSpec => WaitOkOnlyWhenDrained
  <1>1. ASSUME Inv, NEW t \in Threads, CleanupCheck(t), result_w[t] # "Ok", result_w'[t] = "Ok"
        PROVE  Counted = {}
    <2>1. graceful_counter = 0
      BY <1>1 DEF Inv, TypeOK, CleanupCheck, CleanupTurn
    <2>2. IsFiniteSet(Counted)
      BY GracefulAssumption, FS_Subset DEF Counted
    <2>3. QED
      BY <1>1, <2>1, <2>2, FS_EmptySet DEF Inv, CountInv
  <1>2. ASSUME Inv, NEW t \in Threads, NEW u \in Threads, CleanupCheck(u),
               result_w'[t] # result_w[t]
        PROVE  u = t
    BY <1>2 DEF Inv, TypeOK, CleanupCheck, CleanupTurn
  <1>3. ASSUME Inv, NEW t \in Threads, NEW u \in Threads, Return(u),
               result_w'[t] # result_w[t]
        PROVE  result_w'[t] = "none"
    BY <1>3 DEF Inv, TypeOK, Return
  <1>4. ASSUME Inv, [GracefulNext]_vars, ~UNCHANGED result_w
        PROVE  \E u \in Threads : CleanupCheck(u) \/ Return(u)
    BY <1>4
    DEF GracefulNext, vars, cellVars, graceful, transition_to_read, transition_to_cleanup,
        lock, try_lock, read, read_relaxed, ToReadBegin, ToReadRefused, ToReadLock, ToReadRun,
        ToReadSwap, ToReadCommit, notify_read_phase, ToCleanupBegin, ToCleanupRefused,
        ToCleanupLock, ToCleanupRun, ToCleanupSwap, ToCleanupCommit, LockPeek, LockDecide,
        LockAcquire, TryLockFails, GuardDrop, ReadBegin, ReadRefused, ReadCheck, ReadLook,
        count_up, ReadRelaxedBegin, ReadRelaxedRefused, finish_reading, ExcessFinishReading,
        Decrement, NotifyDrained, WaitLock, WaitSleep, WaitWake, Unlock
  <1>5. Inv /\ [GracefulNext]_vars =>
          \A t \in Threads : result_w[t] # "Ok" /\ result_w'[t] = "Ok" => Counted = {}
    BY <1>1, <1>2, <1>3, <1>4 DEF vars
  <1>6. QED
    BY <1>5, Invariance, PTL DEF GracefulSpec, WaitOkOnlyWhenDrained
=================================================================================
