------------------------- MODULE PhasedCellAsyncProofs -------------------------
(***************************************************************************)
(* Proofs about PhasedCellAsync, for any set of tasks and whichever        *)
(* accidents are allowed.                                                  *)
(*                                                                         *)
(* Inv is inductive (one lemma per action).  Unlike in PhasedCellSync a    *)
(* transitional phase need not have an owner: OwnerInv says that there is  *)
(* at most one, and WedgedOnlyByAccident, which is inductive with it, what *)
(* must have happened if there is none.                                    *)
(***************************************************************************)
EXTENDS PhasedCellAsync, TLAPS

\* The phase codes stand for their strings everywhere below.
USE DEF PHASE_SETUP, PHASE_READ, PHASE_CLEANUP, PHASE_SETUP_TO_READ,
        PHASE_READ_TO_CLEANUP, PHASE_SETUP_TO_CLEANUP,
        Cell!PHASE_SETUP, Cell!PHASE_READ, Cell!PHASE_CLEANUP, Cell!PHASE_SETUP_TO_READ,
        Cell!PHASE_READ_TO_CLEANUP, Cell!PHASE_SETUP_TO_CLEANUP

-----------------------------------------------------------------------------
(* Each action preserves Inv. *)

\* A new cell satisfies the invariant.
LEMMA InitInv == AsyncInit => Inv
  <1> SUFFICES ASSUME AsyncInit PROVE Inv
    OBVIOUS
  <1>1. TypeOK
    BY DEF AsyncInit, Cell!PhasedCellSyncInit, TypeOK, PhaseCode, AsyncPC, Cell!PC,
       Cell!NoResult, NoResult, Result
  <1>2. CallInv /\ MutexInv
    BY AsyncAssumption DEF AsyncInit, Cell!PhasedCellSyncInit, CallInv, MutexInv
  <1>3. OwnerInv /\ DataInv
    BY DEF AsyncInit, Cell!PhasedCellSyncInit, OwnerInv, DataInv, DataHome, InTransition, At
  <1>4. WedgedOnlyByAccident
    BY DEF AsyncInit, Cell!PhasedCellSyncInit, WedgedOnlyByAccident, Wedged, InTransit
  <1>5. QED
    BY <1>1, <1>2, <1>3, <1>4 DEF Inv

\* A step of ToReadBegin preserves the invariant.
LEMMA ToReadBeginInv ==
  ASSUME Inv, NEW t \in Tasks, NEW f \in BOOLEAN, Cell!ToReadBegin(t), As(t, f) PROVE Inv'
  <1>1. TypeOK'
    BY DEF Inv, TypeOK, Cell!ToReadBegin, Cell!Enter, Cell!data, Cell!mutex, As,
        AsyncPC, Cell!PC, Cell!Method, PhaseCode
  <1>2. CallInv'
    BY DEF Inv, TypeOK, CallInv, Cell!ToReadBegin, Cell!Enter, Cell!data,
        Cell!mutex, As
  <1>3. MutexInv'
    BY DEF Inv, TypeOK, MutexInv, Cell!ToReadBegin, Cell!Enter, Cell!data,
        Cell!mutex, As
  <1>4. OwnerInv'
    <2>1. \A u \in Tasks : ~InTransition(u)
      BY DEF Inv, OwnerInv, Via, Cell!ToReadBegin, Cell!Enter
    <2>2. \A u \in Tasks : InTransition(u)' => u = t
      BY <2>1 DEF Inv, TypeOK, InTransition, Cell!ToReadBegin, Cell!Enter
    <2>3. /\ call'[t] = "transition_to_read"
          /\ old'[t] = PHASE_SETUP /\ phase' = PHASE_SETUP_TO_READ
      BY DEF Inv, TypeOK, Via, Cell!ToReadBegin, Cell!Enter
    <2>4. QED
      BY <2>2, <2>3 DEF OwnerInv, Inv, TypeOK
  <1>5. DataInv'
    BY DEF Inv, TypeOK, DataInv, DataHome, At, Cell!ToReadBegin, Cell!Enter,
        Cell!data, Cell!mutex, As
  <1>6. WedgedOnlyByAccident'
    BY DEF Inv, TypeOK, WedgedOnlyByAccident, Wedged, InTransition, InTransit,
        Cell!ToReadBegin, Cell!Enter, Cell!data, Cell!mutex, As
  <1>7. QED BY <1>1, <1>2, <1>3, <1>4, <1>5, <1>6 DEF Inv

\* A step of ToReadRefused preserves the invariant.
LEMMA ToReadRefusedInv ==
  ASSUME Inv, NEW t \in Tasks, NEW f \in BOOLEAN, Cell!ToReadRefused(t), As(t, f) PROVE Inv'
  <1>1. TypeOK'
    BY DEF Inv, TypeOK, Cell!ToReadRefused, Cell!Refuse, Cell!Enter, Cell!data,
        Cell!mutex, As, AsyncPC, Cell!PC, Cell!Method, Cell!ToReadRefusal, Cell!Err,
        Cell!u8_to_phase, Result, PublicPhase, PhasedErrorKind
  <1>2. CallInv'
    BY DEF Inv, TypeOK, CallInv, Cell!ToReadRefused, Cell!Refuse, Cell!Enter,
        Cell!data, Cell!mutex, As
  <1>3. MutexInv'
    BY DEF Inv, TypeOK, MutexInv, Cell!ToReadRefused, Cell!Refuse, Cell!Enter,
        Cell!data, Cell!mutex, As
  <1>4. OwnerInv'
    BY DEF Inv, TypeOK, OwnerInv, InTransition, Cell!ToReadRefused, Cell!Refuse,
        Cell!Enter, Cell!data, Cell!mutex, As
  <1>5. DataInv'
    BY DEF Inv, TypeOK, DataInv, DataHome, At, Cell!ToReadRefused, Cell!Refuse,
        Cell!Enter, Cell!data, Cell!mutex, As
  <1>6. WedgedOnlyByAccident'
    BY DEF Inv, TypeOK, WedgedOnlyByAccident, Wedged, InTransition, InTransit,
        Cell!ToReadRefused, Cell!Refuse, Cell!Enter, Cell!data, Cell!mutex, As
  <1>7. QED BY <1>1, <1>2, <1>3, <1>4, <1>5, <1>6 DEF Inv

\* A step of ToReadLock preserves the invariant.
LEMMA ToReadLockInv ==
  ASSUME Inv, NEW t \in Tasks, NEW f \in BOOLEAN, Cell!ToReadLock(t), As(t, f) PROVE Inv'
  <1>1. TypeOK'
    <2>1. Cell!ToReadFault(t) \in Result
      BY DEF Inv, TypeOK, Cell!ToReadFault, Cell!NoResult, NoResult, Cell!Err, Cell!u8_to_phase,
         PublicPhase, PhasedErrorKind, Result
    <2>2. res' \in [Tasks -> Result]
      BY <2>1 DEF Inv, TypeOK, Cell!ToReadLock
    <2>3. QED
      BY <2>2 DEF Inv, TypeOK, Cell!ToReadLock, Cell!Step, Cell!data, As, AsyncPC, Cell!PC
  <1>2. CallInv'
    BY DEF Inv, TypeOK, CallInv, Cell!ToReadLock, Cell!Step, Cell!data, Cell!mutex,
        As
  <1>3. MutexInv'
    BY AsyncAssumption DEF Inv, TypeOK, MutexInv, Cell!ToReadLock, Cell!Step,
        Cell!data, Cell!mutex, As
  <1>4. OwnerInv'
    BY DEF Inv, TypeOK, OwnerInv, InTransition, Cell!ToReadLock, Cell!Step,
        Cell!data, Cell!mutex, As
  <1>5. DataInv'
    BY DEF Inv, TypeOK, DataInv, DataHome, At, Cell!ToReadLock, Cell!Step,
        Cell!data, Cell!mutex, As, Cell!ToReadFault, Cell!NoResult, Cell!Err
  <1>6. WedgedOnlyByAccident'
    BY DEF Inv, TypeOK, WedgedOnlyByAccident, Wedged, InTransition, InTransit,
        Cell!ToReadLock, Cell!Step, Cell!data, Cell!mutex, As
  <1>7. QED BY <1>1, <1>2, <1>3, <1>4, <1>5, <1>6 DEF Inv

\* A step of ToReadRun preserves the invariant.
LEMMA ToReadRunInv ==
  ASSUME Inv, NEW t \in Tasks, NEW f \in BOOLEAN, Cell!ToReadRun(t), As(t, f) PROVE Inv'
  <1>1. TypeOK'
    <2>1. {Cell!Ok, Cell!Panic,
           Cell!Err(PHASE_SETUP, "FailToRunClosureDuringTransitionToRead")} \subseteq Result
      BY DEF Cell!Ok, Cell!Panic, Cell!Err, Cell!u8_to_phase, PublicPhase, PhasedErrorKind,
         Result, Ok, Panic
    <2>2. res' \in [Tasks -> Result]
      BY <2>1 DEF Inv, TypeOK, Cell!ToReadRun
    <2>3. QED
      BY <2>2 DEF Inv, TypeOK, Cell!ToReadRun, Cell!Step, Cell!data, Cell!mutex, As, AsyncPC,
         Cell!PC
  <1>2. CallInv'
    BY DEF Inv, TypeOK, CallInv, Cell!ToReadRun, Cell!Step, Cell!data, Cell!mutex,
        As
  <1>3. MutexInv'
    BY DEF Inv, TypeOK, MutexInv, Cell!ToReadRun, Cell!Step, Cell!data, Cell!mutex,
        As
  <1>4. OwnerInv'
    <2>1. ASSUME NEW u \in Tasks, InTransition(u)'
          PROVE  InTransition(u) /\ call'[u] = call[u] /\ old'[u] = old[u]
      BY <2>1 DEF Inv, TypeOK, InTransition, Cell!ToReadRun, Cell!Step, Cell!data,
          Cell!mutex, As
    <2>2. phase' = phase
      BY DEF Cell!ToReadRun, Cell!Step, Cell!data, Cell!mutex, As
    <2>3. QED
      BY <2>1, <2>2 DEF Inv, OwnerInv
  <1>5. DataInv'
    <2>1. /\ pc[t] = "run" /\ pc'[t] \in {"swap", "commit"}
          /\ \A u \in Tasks \ {t} : pc'[u] = pc[u] /\ res'[u] = res[u]
          /\ UNCHANGED <<phase, data_mutex, data_cell, call, old, accidents>>
      BY DEF Inv, TypeOK, Cell!ToReadRun, Cell!Step, Cell!data, As
    <2>2. /\ call[t] = "transition_to_read"
          /\ pc'[t] = "swap" <=> res'[t] = Ok
          /\ data_mutex = "Some"
      BY DEF Inv, TypeOK, DataInv, DataHome, At, Cell!ToReadRun, Cell!Step, Cell!Ok,
          Ok, Cell!Panic, Cell!Err
    <2>3. QED
      BY <2>1, <2>2 DEF Inv, TypeOK, DataInv, DataHome, At
  <1>6. WedgedOnlyByAccident'
    BY DEF Inv, TypeOK, WedgedOnlyByAccident, Wedged, InTransition, InTransit,
        Cell!ToReadRun, Cell!Step, Cell!data, Cell!mutex, As
  <1>7. QED BY <1>1, <1>2, <1>3, <1>4, <1>5, <1>6 DEF Inv

\* A step of ToReadSwap preserves the invariant.
LEMMA ToReadSwapInv ==
  ASSUME Inv, NEW t \in Tasks, NEW f \in BOOLEAN, Cell!ToReadSwap(t), As(t, f) PROVE Inv'
  <1>1. TypeOK'
    BY DEF Inv, TypeOK, Cell!ToReadSwap, Cell!Step, Cell!data, Cell!mutex, As,
        AsyncPC, Cell!PC
  <1>2. CallInv'
    BY DEF Inv, TypeOK, CallInv, Cell!ToReadSwap, Cell!Step, Cell!data, Cell!mutex,
        As
  <1>3. MutexInv'
    BY DEF Inv, TypeOK, MutexInv, Cell!ToReadSwap, Cell!Step, Cell!data, Cell!mutex,
        As
  <1>4. OwnerInv'
    BY DEF Inv, TypeOK, OwnerInv, InTransition, Cell!ToReadSwap, Cell!Step,
        Cell!data, Cell!mutex, As
  <1>5. DataInv'
    BY DEF Inv, TypeOK, DataInv, DataHome, At, Cell!ToReadSwap, Cell!Step,
        Cell!data, Cell!mutex, As, MutexInv, OwnerInv, InTransition
  <1>6. WedgedOnlyByAccident'
    BY DEF Inv, TypeOK, WedgedOnlyByAccident, Wedged, InTransition, InTransit,
        Cell!ToReadSwap, Cell!Step, Cell!data, Cell!mutex, As
  <1>7. QED BY <1>1, <1>2, <1>3, <1>4, <1>5, <1>6 DEF Inv

\* A step of ToReadCommit preserves the invariant.
LEMMA ToReadCommitInv ==
  ASSUME Inv, NEW t \in Tasks, NEW f \in BOOLEAN, Cell!ToReadCommit(t), As(t, f) PROVE Inv'
  <1>1. TypeOK'
    BY DEF Inv, TypeOK, Cell!ToReadCommit, Cell!Step, Cell!change_phase, Cell!data,
        Cell!mutex, As, AsyncPC, Cell!PC, PhaseCode
  <1>2. CallInv'
    BY DEF Inv, TypeOK, CallInv, Cell!ToReadCommit, Cell!Step, Cell!change_phase,
        Cell!data, Cell!mutex, As
  <1>3. MutexInv'
    BY DEF Inv, TypeOK, MutexInv, Cell!ToReadCommit, Cell!Step, Cell!change_phase,
        Cell!data, Cell!mutex, As
  <1>4. OwnerInv'
    BY DEF Inv, TypeOK, OwnerInv, InTransition, Cell!ToReadCommit, Cell!Step,
        Cell!change_phase, Cell!data, Cell!mutex, As
  <1>5. DataInv'
    BY DEF Inv, TypeOK, DataInv, DataHome, At, Cell!ToReadCommit, Cell!Step,
        Cell!change_phase, Cell!data, Cell!mutex, As, OwnerInv, InTransition,
        Cell!Ok, Ok
  <1>6. WedgedOnlyByAccident'
    BY DEF Inv, TypeOK, WedgedOnlyByAccident, Wedged, InTransition, InTransit,
        Cell!ToReadCommit, Cell!Step, Cell!change_phase, Cell!data, Cell!mutex, As,
        OwnerInv, Cell!Ok, Ok
  <1>7. QED BY <1>1, <1>2, <1>3, <1>4, <1>5, <1>6 DEF Inv

\* A step of ToCleanupBegin preserves the invariant.
LEMMA ToCleanupBeginInv ==
  ASSUME Inv, NEW t \in Tasks, NEW f \in BOOLEAN, Cell!ToCleanupBegin(t), As(t, f)
  PROVE  Inv'
  <1>1. TypeOK'
    BY DEF Inv, TypeOK, Cell!ToCleanupBegin, Cell!Enter, Cell!data, Cell!mutex, As,
        AsyncPC, Cell!PC, Cell!Method, PhaseCode, Cell!Via
  <1>2. CallInv'
    BY DEF Inv, TypeOK, CallInv, Cell!ToCleanupBegin, Cell!Enter, Cell!data,
        Cell!mutex, As
  <1>3. MutexInv'
    BY DEF Inv, TypeOK, MutexInv, Cell!ToCleanupBegin, Cell!Enter, Cell!data,
        Cell!mutex, As
  <1>4. OwnerInv'
    <2>1. \A u \in Tasks : ~InTransition(u)
      BY DEF Inv, OwnerInv, Via, Cell!ToCleanupBegin, Cell!Enter
    <2>2. \A u \in Tasks : InTransition(u)' => u = t
      BY <2>1 DEF Inv, TypeOK, InTransition, Cell!ToCleanupBegin, Cell!Enter
    <2>3. /\ call'[t] = "transition_to_cleanup"
          /\ old'[t] \in {PHASE_SETUP, PHASE_READ} /\ phase' = Via(old'[t])
      BY DEF Inv, TypeOK, Via, Cell!Via, Cell!ToCleanupBegin, Cell!Enter
    <2>4. QED
      BY <2>2, <2>3 DEF OwnerInv, Inv, TypeOK
  <1>5. DataInv'
    BY DEF Inv, TypeOK, DataInv, DataHome, At, Cell!ToCleanupBegin, Cell!Enter,
        Cell!data, Cell!mutex, As, Cell!Via
  <1>6. WedgedOnlyByAccident'
    BY DEF Inv, TypeOK, WedgedOnlyByAccident, Wedged, InTransition, InTransit,
        Cell!ToCleanupBegin, Cell!Enter, Cell!data, Cell!mutex, As, Cell!Via
  <1>7. QED BY <1>1, <1>2, <1>3, <1>4, <1>5, <1>6 DEF Inv

\* A step of ToCleanupRefused preserves the invariant.
LEMMA ToCleanupRefusedInv ==
  ASSUME Inv, NEW t \in Tasks, NEW f \in BOOLEAN, Cell!ToCleanupRefused(t), As(t, f)
  PROVE  Inv'
  <1>1. TypeOK'
    BY DEF Inv, TypeOK, Cell!ToCleanupRefused, Cell!Refuse, Cell!Enter, Cell!data,
        Cell!mutex, As, AsyncPC, Cell!PC, Cell!Method, Cell!ToCleanupRefusal,
        Cell!Err, Cell!u8_to_phase, Result, PublicPhase, PhasedErrorKind
  <1>2. CallInv'
    BY DEF Inv, TypeOK, CallInv, Cell!ToCleanupRefused, Cell!Refuse, Cell!Enter,
        Cell!data, Cell!mutex, As
  <1>3. MutexInv'
    BY DEF Inv, TypeOK, MutexInv, Cell!ToCleanupRefused, Cell!Refuse, Cell!Enter,
        Cell!data, Cell!mutex, As
  <1>4. OwnerInv'
    BY DEF Inv, TypeOK, OwnerInv, InTransition, Cell!ToCleanupRefused, Cell!Refuse,
        Cell!Enter, Cell!data, Cell!mutex, As
  <1>5. DataInv'
    BY DEF Inv, TypeOK, DataInv, DataHome, At, Cell!ToCleanupRefused, Cell!Refuse,
        Cell!Enter, Cell!data, Cell!mutex, As
  <1>6. WedgedOnlyByAccident'
    BY DEF Inv, TypeOK, WedgedOnlyByAccident, Wedged, InTransition, InTransit,
        Cell!ToCleanupRefused, Cell!Refuse, Cell!Enter, Cell!data, Cell!mutex, As
  <1>7. QED BY <1>1, <1>2, <1>3, <1>4, <1>5, <1>6 DEF Inv

\* A step of ToCleanupLock preserves the invariant.
LEMMA ToCleanupLockInv ==
  ASSUME Inv, NEW t \in Tasks, NEW f \in BOOLEAN, Cell!ToCleanupLock(t), As(t, f) PROVE Inv'
  <1>1. TypeOK'
    <2>1. Cell!ToCleanupFault(t) \in Result
      BY DEF Inv, TypeOK, Cell!ToCleanupFault, Cell!NoResult, NoResult, Cell!Err, Cell!u8_to_phase,
         PublicPhase, PhasedErrorKind, Result
    <2>2. res' \in [Tasks -> Result]
      BY <2>1 DEF Inv, TypeOK, Cell!ToCleanupLock
    <2>3. QED
      BY <2>2 DEF Inv, TypeOK, Cell!ToCleanupLock, Cell!Step, Cell!data, As, AsyncPC, Cell!PC
  <1>2. CallInv'
    BY DEF Inv, TypeOK, CallInv, Cell!ToCleanupLock, Cell!Step, Cell!data,
        Cell!mutex, As
  <1>3. MutexInv'
    BY AsyncAssumption DEF Inv, TypeOK, MutexInv, Cell!ToCleanupLock, Cell!Step,
        Cell!data, Cell!mutex, As
  <1>4. OwnerInv'
    BY DEF Inv, TypeOK, OwnerInv, InTransition, Cell!ToCleanupLock, Cell!Step,
        Cell!data, Cell!mutex, As
  <1>5. DataInv'
    BY DEF Inv, TypeOK, DataInv, DataHome, At, Cell!ToCleanupLock, Cell!Step,
        Cell!data, Cell!mutex, As, OwnerInv, InTransition, Via, Cell!ToCleanupFault,
        Cell!NoResult
  <1>6. WedgedOnlyByAccident'
    BY DEF Inv, TypeOK, WedgedOnlyByAccident, Wedged, InTransition, InTransit,
        Cell!ToCleanupLock, Cell!Step, Cell!data, Cell!mutex, As
  <1>7. QED BY <1>1, <1>2, <1>3, <1>4, <1>5, <1>6 DEF Inv

\* A step of ToCleanupRun preserves the invariant.
LEMMA ToCleanupRunInv ==
  ASSUME Inv, NEW t \in Tasks, NEW f \in BOOLEAN, Cell!ToCleanupRun(t), As(t, f) PROVE Inv'
  <1>1. TypeOK'
    <2>1. {Cell!Ok, Cell!Panic,
           Cell!Err(PHASE_CLEANUP, "FailToRunClosureDuringTransitionToCleanup")} \subseteq Result
      BY DEF Cell!Ok, Cell!Panic, Cell!Err, Cell!u8_to_phase, PublicPhase, PhasedErrorKind,
         Result, Ok, Panic
    <2>2. res' \in [Tasks -> Result]
      BY <2>1 DEF Inv, TypeOK, Cell!ToCleanupRun
    <2>3. QED
      BY <2>2 DEF Inv, TypeOK, Cell!ToCleanupRun, Cell!Step, Cell!data, Cell!mutex, As, AsyncPC,
         Cell!PC
  <1>2. CallInv'
    BY DEF Inv, TypeOK, CallInv, Cell!ToCleanupRun, Cell!Step, Cell!data,
        Cell!mutex, As
  <1>3. MutexInv'
    BY DEF Inv, TypeOK, MutexInv, Cell!ToCleanupRun, Cell!Step, Cell!data,
        Cell!mutex, As
  <1>4. OwnerInv'
    BY DEF Inv, TypeOK, OwnerInv, InTransition, Cell!ToCleanupRun, Cell!Step,
        Cell!data, Cell!mutex, As
  <1>5. DataInv'
    <2>1. /\ pc[t] = "run" /\ pc'[t] \in {"swap", "commit"}
          /\ \A u \in Tasks \ {t} : pc'[u] = pc[u] /\ res'[u] = res[u]
          /\ UNCHANGED <<phase, data_mutex, data_cell, call, old, accidents>>
      BY DEF Inv, TypeOK, Cell!ToCleanupRun, Cell!Step, Cell!data, As
    <2>2. /\ call[t] = "transition_to_cleanup"
          /\ pc'[t] = "swap" <=> old[t] = PHASE_READ
          /\ old[t] = PHASE_SETUP => phase = PHASE_SETUP_TO_CLEANUP
          /\ old[t] \in {PHASE_SETUP, PHASE_READ}
      BY DEF Inv, TypeOK, OwnerInv, InTransition, Via, Cell!ToCleanupRun, Cell!Step
    <2>3. QED
      BY <2>1, <2>2 DEF Inv, TypeOK, DataInv, DataHome, At
  <1>6. WedgedOnlyByAccident'
    BY DEF Inv, TypeOK, WedgedOnlyByAccident, Wedged, InTransition, InTransit,
        Cell!ToCleanupRun, Cell!Step, Cell!data, Cell!mutex, As
  <1>7. QED BY <1>1, <1>2, <1>3, <1>4, <1>5, <1>6 DEF Inv

\* A step of ToCleanupSwap preserves the invariant.
LEMMA ToCleanupSwapInv ==
  ASSUME Inv, NEW t \in Tasks, NEW f \in BOOLEAN, Cell!ToCleanupSwap(t), As(t, f) PROVE Inv'
  <1>1. TypeOK'
    BY DEF Inv, TypeOK, Cell!ToCleanupSwap, Cell!Step, Cell!data, Cell!mutex, As,
        AsyncPC, Cell!PC
  <1>2. CallInv'
    BY DEF Inv, TypeOK, CallInv, Cell!ToCleanupSwap, Cell!Step, Cell!data,
        Cell!mutex, As
  <1>3. MutexInv'
    BY DEF Inv, TypeOK, MutexInv, Cell!ToCleanupSwap, Cell!Step, Cell!data,
        Cell!mutex, As
  <1>4. OwnerInv'
    BY DEF Inv, TypeOK, OwnerInv, InTransition, Cell!ToCleanupSwap, Cell!Step,
        Cell!data, Cell!mutex, As
  <1>5. DataInv'
    BY DEF Inv, TypeOK, DataInv, DataHome, At, Cell!ToCleanupSwap, Cell!Step,
        Cell!data, Cell!mutex, As, OwnerInv, MutexInv, InTransition, Via
  <1>6. WedgedOnlyByAccident'
    BY DEF Inv, TypeOK, WedgedOnlyByAccident, Wedged, InTransition, InTransit,
        Cell!ToCleanupSwap, Cell!Step, Cell!data, Cell!mutex, As
  <1>7. QED BY <1>1, <1>2, <1>3, <1>4, <1>5, <1>6 DEF Inv

\* A step of ToCleanupCommit preserves the invariant.
LEMMA ToCleanupCommitInv ==
  ASSUME Inv, NEW t \in Tasks, NEW f \in BOOLEAN, Cell!ToCleanupCommit(t), As(t, f)
  PROVE  Inv'
  <1>1. TypeOK'
    BY DEF Inv, TypeOK, Cell!ToCleanupCommit, Cell!Step, Cell!change_phase,
        Cell!data, Cell!mutex, As, AsyncPC, Cell!PC, PhaseCode
  <1>2. CallInv'
    BY DEF Inv, TypeOK, CallInv, Cell!ToCleanupCommit, Cell!Step, Cell!change_phase,
        Cell!data, Cell!mutex, As
  <1>3. MutexInv'
    BY DEF Inv, TypeOK, MutexInv, Cell!ToCleanupCommit, Cell!Step,
        Cell!change_phase, Cell!data, Cell!mutex, As
  <1>4. OwnerInv'
    BY DEF Inv, TypeOK, OwnerInv, InTransition, Cell!ToCleanupCommit, Cell!Step,
        Cell!change_phase, Cell!data, Cell!mutex, As
  <1>5. DataInv'
    BY DEF Inv, TypeOK, DataInv, DataHome, At, Cell!ToCleanupCommit, Cell!Step,
        Cell!change_phase, Cell!data, Cell!mutex, As, OwnerInv, InTransition
  <1>6. WedgedOnlyByAccident'
    BY DEF Inv, TypeOK, WedgedOnlyByAccident, Wedged, InTransition, InTransit,
        Cell!ToCleanupCommit, Cell!Step, Cell!change_phase, Cell!data, Cell!mutex,
        As, OwnerInv, Via, Cell!Via
  <1>7. QED BY <1>1, <1>2, <1>3, <1>4, <1>5, <1>6 DEF Inv

\* A step of PanicEarly preserves the invariant.
LEMMA PanicEarlyInv ==
  ASSUME Inv, NEW t \in Tasks, PanicEarly(t) PROVE Inv'
  <1>1. TypeOK'
    BY DEF Inv, TypeOK, PanicEarly, data, AsyncPC, Cell!PC, Result
  <1>2. CallInv'
    BY DEF Inv, TypeOK, CallInv, PanicEarly, data
  <1>3. MutexInv'
    BY AsyncAssumption DEF Inv, TypeOK, MutexInv, PanicEarly, data
  <1>4. OwnerInv'
    BY DEF Inv, TypeOK, OwnerInv, InTransition, PanicEarly, data
  <1>5. DataInv'
    BY DEF Inv, TypeOK, DataInv, DataHome, At, PanicEarly, data
  <1>6. WedgedOnlyByAccident'
    BY DEF Inv, TypeOK, WedgedOnlyByAccident, Wedged, InTransition, InTransit,
        PanicEarly, data
  <1>7. QED BY <1>1, <1>2, <1>3, <1>4, <1>5, <1>6 DEF Inv

\* A step of Cancel preserves the invariant.
LEMMA CancelInv ==
  ASSUME Inv, NEW t \in Tasks, Cancel(t) PROVE Inv'
  <1>1. TypeOK'
    BY DEF Inv, TypeOK, Cancel, data, AsyncPC, Cell!PC, Cell!Method, PhaseCode,
        Result
  <1>2. CallInv'
    BY DEF Inv, TypeOK, CallInv, Cancel, data
  <1>3. MutexInv'
    BY AsyncAssumption DEF Inv, TypeOK, MutexInv, Cancel, data
  <1>4. OwnerInv'
    BY DEF Inv, TypeOK, OwnerInv, InTransition, Cancel, data
  <1>5. DataInv'
    BY DEF Inv, TypeOK, DataInv, DataHome, At, Cancel, data
  <1>6. WedgedOnlyByAccident'
    BY DEF Inv, TypeOK, WedgedOnlyByAccident, Wedged, InTransition, InTransit,
        Cancel, data, CallInv
  <1>7. QED BY <1>1, <1>2, <1>3, <1>4, <1>5, <1>6 DEF Inv

\* A step of ForceFails preserves the invariant.
LEMMA ForceFailsInv ==
  ASSUME Inv, NEW t \in Tasks, ForceFails(t) PROVE Inv'
  <1>1. TypeOK'
    BY DEF Inv, TypeOK, ForceFails, Cell!Step, data, mutex, AsyncPC, Cell!PC, Err,
        u8_to_phase, Result, PublicPhase, PhasedErrorKind
  <1>2. CallInv'
    BY DEF Inv, TypeOK, CallInv, ForceFails, Cell!Step, data, mutex
  <1>3. MutexInv'
    BY DEF Inv, TypeOK, MutexInv, ForceFails, Cell!Step, data, mutex
  <1>4. OwnerInv'
    BY DEF Inv, TypeOK, OwnerInv, InTransition, ForceFails, Cell!Step, data, mutex
  <1>5. DataInv'
    BY DEF Inv, TypeOK, DataInv, DataHome, At, ForceFails, Cell!Step, data, mutex
  <1>6. WedgedOnlyByAccident'
    BY DEF Inv, TypeOK, WedgedOnlyByAccident, Wedged, InTransition, InTransit,
        ForceFails, Cell!Step, data, mutex
  <1>7. QED BY <1>1, <1>2, <1>3, <1>4, <1>5, <1>6 DEF Inv

\* A step of ForceGivesUp preserves the invariant.
LEMMA ForceGivesUpInv ==
  ASSUME Inv, NEW t \in Tasks, ForceGivesUp(t) PROVE Inv'
  <1>1. TypeOK'
    BY DEF Inv, TypeOK, ForceGivesUp, Cell!change_phase, data, mutex, extra,
        AsyncPC, Cell!PC, PhaseCode
  <1>2. CallInv'
    BY DEF Inv, TypeOK, CallInv, ForceGivesUp, Cell!change_phase, data, mutex, extra
  <1>3. MutexInv'
    BY DEF Inv, TypeOK, MutexInv, ForceGivesUp, Cell!change_phase, data, mutex,
        extra
  <1>4. OwnerInv'
    <2>1. InTransition(t)
      BY DEF Inv, CallInv, InTransition, ForceGivesUp
    <2>2. \A u \in Tasks : ~InTransition(u)'
      BY <2>1 DEF Inv, TypeOK, OwnerInv, InTransition, ForceGivesUp
    <2>3. QED
      BY <2>2 DEF OwnerInv
  <1>5. DataInv'
    BY DEF Inv, TypeOK, DataInv, DataHome, At, ForceGivesUp, Cell!change_phase,
        data, mutex, extra, OwnerInv, CallInv, InTransition
  <1>6. WedgedOnlyByAccident'
    BY DEF Inv, TypeOK, WedgedOnlyByAccident, Wedged, InTransition, InTransit,
        ForceGivesUp, Cell!change_phase, data, mutex, extra, OwnerInv, CallInv, Via
  <1>7. QED BY <1>1, <1>2, <1>3, <1>4, <1>5, <1>6 DEF Inv

\* A step of LockBegin preserves the invariant.
LEMMA LockBeginInv ==
  ASSUME Inv, NEW t \in Tasks, LockBegin(t) PROVE Inv'
  <1>1. TypeOK'
    BY DEF Inv, TypeOK, LockBegin, Cell!LockBegin, Cell!TryLockBegin, Cell!Enter,
        Cell!data, Cell!mutex, extra, AsyncPC, Cell!PC, Cell!Method
  <1>2. CallInv'
    BY DEF Inv, TypeOK, CallInv, LockBegin, Cell!LockBegin, Cell!TryLockBegin,
        Cell!Enter, Cell!data, Cell!mutex, extra
  <1>3. MutexInv'
    BY DEF Inv, TypeOK, MutexInv, LockBegin, Cell!LockBegin, Cell!TryLockBegin,
        Cell!Enter, Cell!data, Cell!mutex, extra
  <1>4. OwnerInv'
    <2>1. ASSUME NEW u \in Tasks, InTransition(u)'
          PROVE  InTransition(u) /\ call'[u] = call[u] /\ old'[u] = old[u]
      BY <2>1 DEF Inv, TypeOK, InTransition, LockBegin, Cell!LockBegin,
          Cell!TryLockBegin, Cell!Enter
    <2>2. phase' = phase
      BY DEF LockBegin, Cell!LockBegin, Cell!TryLockBegin, Cell!Enter
    <2>3. QED
      BY <2>1, <2>2 DEF Inv, OwnerInv
  <1>5. DataInv'
    <2>1. /\ pc[t] = "idle" /\ call'[t] \in {"lock", "try_lock"} /\ pc'[t] \in {"lock", "ret"}
          /\ \A u \in Tasks \ {t} : /\ pc'[u] = pc[u] /\ call'[u] = call[u]
                                  /\ old'[u] = old[u] /\ res'[u] = res[u]
          /\ UNCHANGED <<phase, data_mutex, data_cell, accidents>>
      BY DEF Inv, TypeOK, LockBegin, Cell!LockBegin, Cell!TryLockBegin, Cell!Enter,
          Cell!data, Cell!mutex, extra
    <2>2. QED
      BY <2>1 DEF Inv, TypeOK, DataInv, DataHome, At
  <1>6. WedgedOnlyByAccident'
    BY DEF Inv, TypeOK, WedgedOnlyByAccident, Wedged, InTransition, InTransit,
        LockBegin, Cell!LockBegin, Cell!TryLockBegin, Cell!Enter, Cell!data,
        Cell!mutex, extra
  <1>7. QED BY <1>1, <1>2, <1>3, <1>4, <1>5, <1>6 DEF Inv

\* A step of LockRefused preserves the invariant.
LEMMA LockRefusedInv ==
  ASSUME Inv, NEW t \in Tasks, LockRefused(t) PROVE Inv'
  <1>1. TypeOK'
    <2>1. Cell!LockRefusal(phase) \in Result
      BY DEF Inv, TypeOK, PhaseCode, Cell!LockRefusal, Cell!Err, Cell!u8_to_phase,
         PublicPhase, PhasedErrorKind, Result
    <2>2. res' \in [Tasks -> Result]
      BY <2>1 DEF Inv, TypeOK, LockRefused, Cell!LockRefused, Cell!Refuse
    <2>3. PICK m \in {"lock", "try_lock"} : Cell!Enter(t, m, "ret")
      BY DEF LockRefused, Cell!LockRefused, Cell!Refuse
    <2>4. /\ pc' \in [Tasks -> AsyncPC]
          /\ call' \in [Tasks -> Cell!Method \cup {"none"}]
          /\ old' \in [Tasks -> PhaseCode]
      BY <2>3 DEF Inv, TypeOK, Cell!Enter, AsyncPC, Cell!PC, Cell!Method
    <2>5. UNCHANGED <<phase, data, mutex, extra>>
      BY DEF LockRefused, Cell!LockRefused, Cell!Refuse, data, mutex, Cell!data, Cell!mutex
    <2>6. QED
      BY <2>2, <2>4, <2>5 DEF Inv, TypeOK, data, mutex, extra
  <1>2. CallInv'
    BY DEF Inv, TypeOK, CallInv, LockRefused, Cell!LockRefused, Cell!Refuse,
        Cell!Enter, Cell!data, Cell!mutex, extra
  <1>3. MutexInv'
    BY DEF Inv, TypeOK, MutexInv, LockRefused, Cell!LockRefused, Cell!Refuse,
        Cell!Enter, Cell!data, Cell!mutex, extra
  <1>4. OwnerInv'
    <2>1. ASSUME NEW u \in Tasks, InTransition(u)'
          PROVE  InTransition(u) /\ call'[u] = call[u] /\ old'[u] = old[u]
      BY <2>1 DEF Inv, TypeOK, InTransition, LockRefused, Cell!LockRefused,
          Cell!Refuse, Cell!Enter
    <2>2. phase' = phase
      BY DEF LockRefused, Cell!LockRefused, Cell!Refuse, Cell!Enter
    <2>3. QED
      BY <2>1, <2>2 DEF Inv, OwnerInv
  <1>5. DataInv'
    <2>1. /\ pc[t] = "idle" /\ call'[t] \in {"lock", "try_lock"} /\ pc'[t] \in {"lock", "ret"}
          /\ \A u \in Tasks \ {t} : /\ pc'[u] = pc[u] /\ call'[u] = call[u]
                                  /\ old'[u] = old[u] /\ res'[u] = res[u]
          /\ UNCHANGED <<phase, data_mutex, data_cell, accidents>>
      BY DEF Inv, TypeOK, LockRefused, Cell!LockRefused, Cell!Refuse, Cell!Enter,
          Cell!data, Cell!mutex, extra
    <2>2. QED
      BY <2>1 DEF Inv, TypeOK, DataInv, DataHome, At
  <1>6. WedgedOnlyByAccident'
    BY DEF Inv, TypeOK, WedgedOnlyByAccident, Wedged, InTransition, InTransit,
        LockRefused, Cell!LockRefused, Cell!Refuse, Cell!Enter, Cell!data,
        Cell!mutex, extra
  <1>7. QED BY <1>1, <1>2, <1>3, <1>4, <1>5, <1>6 DEF Inv

\* A step of LockAcquire preserves the invariant.
LEMMA LockAcquireInv ==
  ASSUME Inv, NEW t \in Tasks, LockAcquire(t) PROVE Inv'
  <1>1. TypeOK'
    BY DEF Inv, TypeOK, LockAcquire, Cell!Step, data, extra, AsyncPC, Cell!PC,
        LockFault, Err, u8_to_phase, Result, PublicPhase, PhasedErrorKind
  <1>2. CallInv'
    BY DEF Inv, TypeOK, CallInv, LockAcquire, Cell!Step, data, extra
  <1>3. MutexInv'
    BY AsyncAssumption DEF Inv, TypeOK, MutexInv, LockAcquire, Cell!Step, data,
        extra
  <1>4. OwnerInv'
    BY DEF Inv, TypeOK, OwnerInv, InTransition, LockAcquire, Cell!Step, data, extra
  <1>5. DataInv'
    BY DEF Inv, TypeOK, DataInv, DataHome, At, LockAcquire, Cell!Step, data, extra,
        LockFault, NoResult, Err
  <1>6. WedgedOnlyByAccident'
    BY DEF Inv, TypeOK, WedgedOnlyByAccident, Wedged, InTransition, InTransit,
        LockAcquire, Cell!Step, data, extra
  <1>7. QED BY <1>1, <1>2, <1>3, <1>4, <1>5, <1>6 DEF Inv

\* A step of TryLockFails preserves the invariant.
LEMMA TryLockFailsInv ==
  ASSUME Inv, NEW t \in Tasks, TryLockFails(t) PROVE Inv'
  <1>1. TypeOK'
    BY DEF Inv, TypeOK, TryLockFails, Cell!TryLockFails, Cell!Step, Cell!data,
        Cell!mutex, extra, AsyncPC, Cell!PC, Cell!Err, Cell!u8_to_phase, Result,
        PublicPhase, PhasedErrorKind
  <1>2. CallInv'
    BY DEF Inv, TypeOK, CallInv, TryLockFails, Cell!TryLockFails, Cell!Step,
        Cell!data, Cell!mutex, extra
  <1>3. MutexInv'
    BY DEF Inv, TypeOK, MutexInv, TryLockFails, Cell!TryLockFails, Cell!Step,
        Cell!data, Cell!mutex, extra
  <1>4. OwnerInv'
    BY DEF Inv, TypeOK, OwnerInv, InTransition, TryLockFails, Cell!TryLockFails,
        Cell!Step, Cell!data, Cell!mutex, extra
  <1>5. DataInv'
    BY DEF Inv, TypeOK, DataInv, DataHome, At, TryLockFails, Cell!TryLockFails,
        Cell!Step, Cell!data, Cell!mutex, extra
  <1>6. WedgedOnlyByAccident'
    BY DEF Inv, TypeOK, WedgedOnlyByAccident, Wedged, InTransition, InTransit,
        TryLockFails, Cell!TryLockFails, Cell!Step, Cell!data, Cell!mutex, extra
  <1>7. QED BY <1>1, <1>2, <1>3, <1>4, <1>5, <1>6 DEF Inv

\* A step of GuardDrop preserves the invariant.
LEMMA GuardDropInv ==
  ASSUME Inv, NEW t \in Tasks, GuardDrop(t) PROVE Inv'
  <1>1. TypeOK'
    BY DEF Inv, TypeOK, GuardDrop, data, extra, AsyncPC, Cell!PC, Result
  <1>2. CallInv'
    BY DEF Inv, TypeOK, CallInv, GuardDrop, data, extra
  <1>3. MutexInv'
    BY AsyncAssumption DEF Inv, TypeOK, MutexInv, GuardDrop, data, extra
  <1>4. OwnerInv'
    BY DEF Inv, TypeOK, OwnerInv, InTransition, GuardDrop, data, extra
  <1>5. DataInv'
    BY DEF Inv, TypeOK, DataInv, DataHome, At, GuardDrop, data, extra
  <1>6. WedgedOnlyByAccident'
    BY DEF Inv, TypeOK, WedgedOnlyByAccident, Wedged, InTransition, InTransit,
        GuardDrop, data, extra
  <1>7. QED BY <1>1, <1>2, <1>3, <1>4, <1>5, <1>6 DEF Inv

\* A step of ReadBegin preserves the invariant.
LEMMA ReadBeginInv ==
  ASSUME Inv, NEW t \in Tasks, Cell!ReadBegin(t), UNCHANGED extra PROVE Inv'
  <1>1. TypeOK'
    BY DEF Inv, TypeOK, Cell!ReadBegin, Cell!Enter, Cell!data, Cell!mutex, extra,
        AsyncPC, Cell!PC, Cell!Method
  <1>2. CallInv'
    BY DEF Inv, TypeOK, CallInv, Cell!ReadBegin, Cell!Enter, Cell!data, Cell!mutex,
        extra
  <1>3. MutexInv'
    BY DEF Inv, TypeOK, MutexInv, Cell!ReadBegin, Cell!Enter, Cell!data, Cell!mutex,
        extra
  <1>4. OwnerInv'
    BY DEF Inv, TypeOK, OwnerInv, InTransition, Cell!ReadBegin, Cell!Enter,
        Cell!data, Cell!mutex, extra
  <1>5. DataInv'
    BY DEF Inv, TypeOK, DataInv, DataHome, At, Cell!ReadBegin, Cell!Enter,
        Cell!data, Cell!mutex, extra
  <1>6. WedgedOnlyByAccident'
    BY DEF Inv, TypeOK, WedgedOnlyByAccident, Wedged, InTransition, InTransit,
        Cell!ReadBegin, Cell!Enter, Cell!data, Cell!mutex, extra
  <1>7. QED BY <1>1, <1>2, <1>3, <1>4, <1>5, <1>6 DEF Inv

\* A step of ReadRefused preserves the invariant.
LEMMA ReadRefusedInv ==
  ASSUME Inv, NEW t \in Tasks, Cell!ReadRefused(t), UNCHANGED extra PROVE Inv'
  <1>1. TypeOK'
    BY DEF Inv, TypeOK, Cell!ReadRefused, Cell!Refuse, Cell!Enter, Cell!data,
        Cell!mutex, extra, AsyncPC, Cell!PC, Cell!Method, Cell!Err,
        Cell!u8_to_phase, Result, PublicPhase, PhasedErrorKind
  <1>2. CallInv'
    BY DEF Inv, TypeOK, CallInv, Cell!ReadRefused, Cell!Refuse, Cell!Enter,
        Cell!data, Cell!mutex, extra
  <1>3. MutexInv'
    BY DEF Inv, TypeOK, MutexInv, Cell!ReadRefused, Cell!Refuse, Cell!Enter,
        Cell!data, Cell!mutex, extra
  <1>4. OwnerInv'
    BY DEF Inv, TypeOK, OwnerInv, InTransition, Cell!ReadRefused, Cell!Refuse,
        Cell!Enter, Cell!data, Cell!mutex, extra
  <1>5. DataInv'
    BY DEF Inv, TypeOK, DataInv, DataHome, At, Cell!ReadRefused, Cell!Refuse,
        Cell!Enter, Cell!data, Cell!mutex, extra
  <1>6. WedgedOnlyByAccident'
    BY DEF Inv, TypeOK, WedgedOnlyByAccident, Wedged, InTransition, InTransit,
        Cell!ReadRefused, Cell!Refuse, Cell!Enter, Cell!data, Cell!mutex, extra
  <1>7. QED BY <1>1, <1>2, <1>3, <1>4, <1>5, <1>6 DEF Inv

\* A step of ReadLook preserves the invariant.
LEMMA ReadLookInv ==
  ASSUME Inv, NEW t \in Tasks, Cell!ReadLook(t), UNCHANGED extra PROVE Inv'
  <1>1. TypeOK'
    BY DEF Inv, TypeOK, Cell!ReadLook, Cell!Step, Cell!data, Cell!mutex, extra,
        AsyncPC, Cell!PC, Cell!Ok, Ok, Cell!Err, Cell!u8_to_phase, Result,
        PublicPhase, PhasedErrorKind
  <1>2. CallInv'
    BY DEF Inv, TypeOK, CallInv, Cell!ReadLook, Cell!Step, Cell!data, Cell!mutex,
        extra
  <1>3. MutexInv'
    BY DEF Inv, TypeOK, MutexInv, Cell!ReadLook, Cell!Step, Cell!data, Cell!mutex,
        extra
  <1>4. OwnerInv'
    BY DEF Inv, TypeOK, OwnerInv, InTransition, Cell!ReadLook, Cell!Step, Cell!data,
        Cell!mutex, extra
  <1>5. DataInv'
    BY DEF Inv, TypeOK, DataInv, DataHome, At, Cell!ReadLook, Cell!Step, Cell!data,
        Cell!mutex, extra
  <1>6. WedgedOnlyByAccident'
    BY DEF Inv, TypeOK, WedgedOnlyByAccident, Wedged, InTransition, InTransit,
        Cell!ReadLook, Cell!Step, Cell!data, Cell!mutex, extra
  <1>7. QED BY <1>1, <1>2, <1>3, <1>4, <1>5, <1>6 DEF Inv

\* A step of ReadEnd preserves the invariant.
LEMMA ReadEndInv ==
  ASSUME Inv, NEW t \in Tasks, Cell!ReadEnd(t), UNCHANGED extra PROVE Inv'
  <1>1. TypeOK'
    BY DEF Inv, TypeOK, Cell!ReadEnd, Cell!Step, Cell!data, Cell!mutex, extra,
        AsyncPC, Cell!PC
  <1>2. CallInv'
    BY DEF Inv, TypeOK, CallInv, Cell!ReadEnd, Cell!Step, Cell!data, Cell!mutex,
        extra
  <1>3. MutexInv'
    BY DEF Inv, TypeOK, MutexInv, Cell!ReadEnd, Cell!Step, Cell!data, Cell!mutex,
        extra
  <1>4. OwnerInv'
    BY DEF Inv, TypeOK, OwnerInv, InTransition, Cell!ReadEnd, Cell!Step, Cell!data,
        Cell!mutex, extra
  <1>5. DataInv'
    BY DEF Inv, TypeOK, DataInv, DataHome, At, Cell!ReadEnd, Cell!Step, Cell!data,
        Cell!mutex, extra
  <1>6. WedgedOnlyByAccident'
    BY DEF Inv, TypeOK, WedgedOnlyByAccident, Wedged, InTransition, InTransit,
        Cell!ReadEnd, Cell!Step, Cell!data, Cell!mutex, extra
  <1>7. QED BY <1>1, <1>2, <1>3, <1>4, <1>5, <1>6 DEF Inv

\* A step of Unlock preserves the invariant.
LEMMA UnlockInv ==
  ASSUME Inv, NEW t \in Tasks, Unlock(t) PROVE Inv'
  <1>1. TypeOK'
    BY DEF Inv, TypeOK, Unlock, Cell!Unlock, Cell!data, extra, AsyncPC, Cell!PC
  <1>2. CallInv'
    BY DEF Inv, TypeOK, CallInv, Unlock, Cell!Unlock, Cell!data, extra
  <1>3. MutexInv'
    BY AsyncAssumption DEF Inv, TypeOK, MutexInv, Unlock, Cell!Unlock, Cell!data,
        extra
  <1>4. OwnerInv'
    BY DEF Inv, TypeOK, OwnerInv, InTransition, Unlock, Cell!Unlock, Cell!data,
        extra
  <1>5. DataInv'
    BY DEF Inv, TypeOK, DataInv, DataHome, At, Unlock, Cell!Unlock, Cell!data, extra
  <1>6. WedgedOnlyByAccident'
    BY DEF Inv, TypeOK, WedgedOnlyByAccident, Wedged, InTransition, InTransit,
        Unlock, Cell!Unlock, Cell!data, extra
  <1>7. QED BY <1>1, <1>2, <1>3, <1>4, <1>5, <1>6 DEF Inv

\* A step of Return preserves the invariant.
LEMMA ReturnInv ==
  ASSUME Inv, NEW t \in Tasks, Return(t) PROVE Inv'
  <1>1. TypeOK'
    BY DEF Inv, TypeOK, Return, Cell!Return, Cell!data, Cell!mutex, AsyncPC,
        Cell!PC, Cell!Method, PhaseCode, Cell!NoResult, NoResult, Result
  <1>2. CallInv'
    BY DEF Inv, TypeOK, CallInv, Return, Cell!Return, Cell!data, Cell!mutex
  <1>3. MutexInv'
    BY DEF Inv, TypeOK, MutexInv, Return, Cell!Return, Cell!data, Cell!mutex
  <1>4. OwnerInv'
    BY DEF Inv, TypeOK, OwnerInv, InTransition, Return, Cell!Return, Cell!data,
        Cell!mutex
  <1>5. DataInv'
    BY DEF Inv, TypeOK, DataInv, DataHome, At, Return, Cell!Return, Cell!data,
        Cell!mutex
  <1>6. WedgedOnlyByAccident'
    BY DEF Inv, TypeOK, WedgedOnlyByAccident, Wedged, InTransition, InTransit,
        Return, Cell!Return, Cell!data, Cell!mutex
  <1>7. QED BY <1>1, <1>2, <1>3, <1>4, <1>5, <1>6 DEF Inv

\* Every step of the cell preserves the invariant.
LEMMA NextInv == Inv /\ [AsyncNext]_vars => Inv'
  <1> SUFFICES ASSUME Inv, [AsyncNext]_vars PROVE Inv'
    OBVIOUS
  <1>1. ASSUME NEW t \in Tasks, transition_to_read_async(t) \/ force_to_read(t) PROVE Inv'
    BY <1>1, ToReadBeginInv, ToReadRefusedInv, ToReadLockInv, ToReadRunInv,
       ToReadSwapInv, ToReadCommitInv
    DEF transition_to_read_async, force_to_read, Cell!transition_to_read
  <1>2. ASSUME NEW t \in Tasks, transition_to_cleanup_async(t) \/ force_to_cleanup(t)
        PROVE  Inv'
    BY <1>2, ToCleanupBeginInv, ToCleanupRefusedInv, ToCleanupLockInv, ToCleanupRunInv,
       ToCleanupSwapInv, ToCleanupCommitInv
    DEF transition_to_cleanup_async, force_to_cleanup, Cell!transition_to_cleanup
  <1>3. ASSUME NEW t \in Tasks,
               PanicEarly(t) \/ Cancel(t) \/ ForceFails(t) \/ ForceGivesUp(t)
        PROVE  Inv'
    BY <1>3, PanicEarlyInv, CancelInv, ForceFailsInv, ForceGivesUpInv
  <1>4. ASSUME NEW t \in Tasks, lock(t) PROVE Inv'
    BY <1>4, LockBeginInv, LockRefusedInv, LockAcquireInv, TryLockFailsInv, GuardDropInv
    DEF lock
  <1>5. ASSUME NEW t \in Tasks, read(t) \/ ReadEnd(t) PROVE Inv'
    BY <1>5, ReadBeginInv, ReadRefusedInv, ReadLookInv, ReadEndInv
    DEF read, ReadEnd, Cell!read
  <1>6. ASSUME NEW t \in Tasks, Unlock(t) \/ Return(t) PROVE Inv'
    BY <1>6, UnlockInv, ReturnInv
  <1>7. CASE UNCHANGED vars
    BY <1>7 DEF vars, cellVars, Inv, TypeOK, CallInv, MutexInv, OwnerInv, DataInv, DataHome,
       WedgedOnlyByAccident, Wedged, InTransition, At
  <1>8. QED BY <1>1, <1>2, <1>3, <1>4, <1>5, <1>6, <1>7 DEF AsyncNext

\* The invariant holds in every reachable state.
THEOREM Invariance == AsyncSpec => []Inv
  BY InitInv, NextInv, PTL DEF AsyncSpec

-----------------------------------------------------------------------------
(* Safety properties *)

\* Every variable keeps to its type.
THEOREM TypeCorrect == AsyncSpec => []TypeOK
  <1>1. Inv => TypeOK BY DEF Inv
  <1>2. QED BY <1>1, Invariance, PTL

\* Closures and guards never overlap, whatever was forced or cancelled.
THEOREM ExclusiveAccess == AsyncSpec => []ExclusiveMut
  <1>1. Inv => ExclusiveMut
    BY DEF Inv, MutexInv, ExclusiveMut, Cell!ExclusiveMut, Cell!Mutating
  <1>2. QED BY <1>1, Invariance, PTL

\* Nobody can change the data while the cell shows Read.
THEOREM ReadIsImmutable == AsyncSpec => []ReadPhaseIsImmutable
  <1>1. Inv => ReadPhaseIsImmutable
    BY DEF Inv, CallInv, OwnerInv, DataInv, DataHome, ReadPhaseIsImmutable,
       Cell!ReadPhaseIsImmutable, Cell!Mutating, InTransition, Via
  <1>2. QED BY <1>1, Invariance, PTL

\* The data is where its phase looks for it, but for a cleanup forced past a lock.
THEOREM DataStaysHome == AsyncSpec => []DataHome
  <1>1. Inv => DataHome BY DEF Inv, DataInv
  <1>2. QED BY <1>1, Invariance, PTL

\* Who holds the mutex has a use for it: nobody who was cancelled does.
THEOREM MutexIsReleased == AsyncSpec => []MutexReleased
  <1>1. Inv => MutexReleased BY DEF Inv, MutexInv, MutexReleased
  <1>2. QED BY <1>1, Invariance, PTL

\* Only a cancelled or unwound transition, or a cleanup forced past a lock from Setup,
\* leaves the cell in a transition that nobody is carrying out.
THEOREM WedgesAreAccidents == AsyncSpec => []WedgedOnlyByAccident
  <1>1. Inv => WedgedOnlyByAccident BY DEF Inv
  <1>2. QED BY <1>1, Invariance, PTL

-----------------------------------------------------------------------------
(* Refinement of the abstract lifecycle whose owners may vanish *)

\* The one task in its transition is the owner.
LEMMA OwnerIs ==
  ASSUME Inv, NEW t \in Tasks, InTransition(t) PROVE TransitionOwner = t
  BY DEF Inv, OwnerInv, TransitionOwner

\* A step that moves nobody into or out of a transition keeps its owner.
LEMMA OwnerKept ==
  ASSUME Inv, Inv', \A t \in Tasks : InTransition(t)' <=> InTransition(t)
  PROVE  TransitionOwner' = TransitionOwner
  <1>1. CASE \E t \in Tasks : InTransition(t)
    <2>1. PICK t \in Tasks : InTransition(t) BY <1>1
    <2>2. TransitionOwner = t BY <2>1, OwnerIs
    <2>3. TransitionOwner' = t BY <2>1 DEF Inv, OwnerInv, TransitionOwner
    <2>4. QED BY <2>2, <2>3
  <1>2. CASE ~\E t \in Tasks : InTransition(t)
    BY <1>2 DEF TransitionOwner
  <1>3. QED BY <1>1, <1>2

\* A step by which the owner leaves its transition leaves no owner.
LEMMA OwnerLeaves ==
  ASSUME Inv, NEW t \in Tasks, InTransition(t), ~InTransition(t)',
         \A u \in Tasks \ {t} : pc'[u] = pc[u] /\ call'[u] = call[u]
  PROVE  TransitionOwner = t /\ TransitionOwner' = Nobody
  <1>1. TransitionOwner = t
    BY OwnerIs
  <1>2. \A u \in Tasks : ~InTransition(u)'
    BY DEF Inv, OwnerInv, InTransition
  <1>3. QED BY <1>1, <1>2 DEF TransitionOwner

\* Opening a transition is the abstract BeginRead or BeginCleanup.
LEMMA BeginMaps ==
  ASSUME Inv, Inv', NEW t \in Tasks, Cell!ToReadBegin(t) \/ Cell!ToCleanupBegin(t)
  PROVE  L!AbandonableNext
  <1>1. InTransition(t)'
    BY DEF Inv, TypeOK, Cell!ToReadBegin, Cell!ToCleanupBegin, Cell!Enter, InTransition
  <1>2. TransitionOwner' = t
    BY <1>1 DEF Inv, OwnerInv, TransitionOwner
  <1>3. L!BeginRead(t) \/ L!BeginCleanup(t)
    BY <1>2 DEF Cell!ToReadBegin, Cell!ToCleanupBegin, Cell!Via, L!BeginRead, L!BeginCleanup,
       L!Via, L!PHASE_SETUP, L!PHASE_READ, L!PHASE_SETUP_TO_READ, L!PHASE_READ_TO_CLEANUP,
       L!PHASE_SETUP_TO_CLEANUP
  <1>4. QED BY <1>3 DEF L!AbandonableNext, L!LifecycleNext

\* Publishing its outcome is the abstract EndRead or EndCleanup.
LEMMA CommitMaps ==
  ASSUME Inv, NEW t \in Tasks, Cell!ToReadCommit(t) \/ Cell!ToCleanupCommit(t)
  PROVE  L!AbandonableNext
  <1>1. InTransition(t) /\ ~InTransition(t)'
    BY DEF Inv, TypeOK, Cell!ToReadCommit, Cell!ToCleanupCommit, Cell!Step, InTransition
  <1>2. TransitionOwner = t /\ TransitionOwner' = Nobody
    BY <1>1, OwnerLeaves DEF Inv, TypeOK, Cell!ToReadCommit, Cell!ToCleanupCommit, Cell!Step
  <1>3. CASE Cell!ToReadCommit(t)
    <2>1. L!EndRead(t)
      BY <1>1, <1>2, <1>3
      DEF Inv, OwnerInv, Cell!ToReadCommit, Cell!Step, Cell!change_phase, L!EndRead,
          L!PHASE_SETUP, L!PHASE_READ, L!PHASE_SETUP_TO_READ
    <2>2. QED BY <2>1 DEF L!AbandonableNext, L!LifecycleNext
  <1>4. CASE Cell!ToCleanupCommit(t)
    <2>1. L!EndCleanup(t)
      BY <1>1, <1>2, <1>4
      DEF Inv, OwnerInv, Cell!ToCleanupCommit, Cell!Step, Cell!change_phase, Via, Cell!Via,
          L!EndCleanup, L!PHASE_CLEANUP, L!PHASE_READ_TO_CLEANUP, L!PHASE_SETUP_TO_CLEANUP
    <2>2. QED BY <2>1 DEF L!AbandonableNext, L!LifecycleNext
  <1>5. QED BY <1>3, <1>4

\* A forced transition that gives up has gone back to Setup, or on to Cleanup, or has
\* abandoned its transition from Setup to Cleanup.
LEMMA GiveUpMaps ==
  ASSUME Inv, NEW t \in Tasks, ForceGivesUp(t) PROVE L!AbandonableNext
  <1>1. InTransition(t) /\ ~InTransition(t)'
    BY DEF Inv, TypeOK, CallInv, ForceGivesUp, InTransition
  <1>2. TransitionOwner = t /\ TransitionOwner' = Nobody
    BY <1>1, OwnerLeaves DEF Inv, TypeOK, ForceGivesUp
  <1>3. L!EndRead(t) \/ L!EndCleanup(t) \/ L!Abandon(t)
    BY <1>1, <1>2
    DEF Inv, OwnerInv, Via, ForceGivesUp, Cell!change_phase, L!EndRead, L!EndCleanup,
        L!Abandon, L!InTransit, L!PHASE_SETUP, L!PHASE_READ, L!PHASE_CLEANUP,
        L!PHASE_SETUP_TO_READ, L!PHASE_READ_TO_CLEANUP, L!PHASE_SETUP_TO_CLEANUP
  <1>4. QED BY <1>3 DEF L!AbandonableNext, L!LifecycleNext

\* A transition that is cancelled, or unwound, is abandoned; a lock that is cancelled
\* stutters.
LEMMA AccidentMaps ==
  ASSUME Inv, Inv', NEW t \in Tasks, PanicEarly(t) \/ Cancel(t)
  PROVE  L!AbandonableNext \/ UNCHANGED L!lifecycleVars
  <1>1. /\ phase' = phase /\ ~InTransition(t)'
        /\ \A u \in Tasks \ {t} : pc'[u] = pc[u] /\ call'[u] = call[u]
    BY DEF Inv, TypeOK, PanicEarly, Cancel, InTransition
  <1>2. CASE InTransition(t)
    <2>1. TransitionOwner = t /\ TransitionOwner' = Nobody
      BY <1>1, <1>2, OwnerLeaves
    <2>2. L!Abandon(t)
      BY <1>1, <1>2, <2>1 DEF Inv, OwnerInv, Via, L!Abandon, L!InTransit
    <2>3. QED BY <2>2 DEF L!AbandonableNext
  <1>3. CASE ~InTransition(t)
    <2>1. \A u \in Tasks : InTransition(u)' <=> InTransition(u)
      BY <1>1, <1>3 DEF InTransition
    <2>2. QED BY <1>1, <2>1, OwnerKept DEF L!lifecycleVars
  <1>4. QED BY <1>2, <1>3

\* What goes on inside a transition, and every other method, stutters.
LEMMA OthersStutter ==
  ASSUME Inv, Inv', NEW t \in Tasks,
         \/ Cell!ToReadRefused(t) \/ Cell!ToReadLock(t) \/ Cell!ToReadRun(t)
         \/ Cell!ToReadSwap(t) \/ Cell!ToCleanupRefused(t) \/ Cell!ToCleanupLock(t)
         \/ Cell!ToCleanupRun(t) \/ Cell!ToCleanupSwap(t)
         \/ ForceFails(t) \/ lock(t) \/ read(t) \/ ReadEnd(t) \/ Unlock(t) \/ Return(t)
  PROVE  UNCHANGED L!lifecycleVars
  <1>1. phase' = phase
    BY DEF Cell!ToReadRefused, Cell!ToReadLock, Cell!ToReadRun, Cell!ToReadSwap,
       Cell!ToCleanupRefused, Cell!ToCleanupLock, Cell!ToCleanupRun, Cell!ToCleanupSwap,
       Cell!Refuse, ForceFails, lock, LockBegin, Cell!LockBegin, Cell!TryLockBegin, LockRefused,
       Cell!LockRefused, LockAcquire, TryLockFails, Cell!TryLockFails, GuardDrop, read,
       Cell!read, Cell!ReadBegin, Cell!ReadRefused, Cell!ReadLook, ReadEnd, Cell!ReadEnd,
       Unlock, Cell!Unlock, Return, Cell!Return
  <1>2. ASSUME NEW u \in Tasks PROVE InTransition(u)' <=> InTransition(u)
    <2>1. CASE \/ Cell!ToReadRefused(t) \/ Cell!ToReadLock(t) \/ Cell!ToReadRun(t)
               \/ Cell!ToReadSwap(t)
      BY <2>1 DEF Inv, TypeOK, InTransition, Cell!ToReadRefused, Cell!ToReadLock,
         Cell!ToReadRun, Cell!ToReadSwap, Cell!Refuse, Cell!Enter, Cell!Step
    <2>2. CASE \/ Cell!ToCleanupRefused(t) \/ Cell!ToCleanupLock(t) \/ Cell!ToCleanupRun(t)
               \/ Cell!ToCleanupSwap(t)
      BY <2>2 DEF Inv, TypeOK, InTransition, Cell!ToCleanupRefused, Cell!ToCleanupLock,
         Cell!ToCleanupRun, Cell!ToCleanupSwap, Cell!Refuse, Cell!Enter, Cell!Step
    <2>3. CASE ForceFails(t)
      BY <2>3 DEF Inv, TypeOK, InTransition, ForceFails, Cell!Step
    <2>4. CASE lock(t)
      BY <2>4 DEF Inv, TypeOK, InTransition, lock, LockBegin, Cell!LockBegin,
         Cell!TryLockBegin, LockRefused, Cell!LockRefused, LockAcquire, TryLockFails,
         Cell!TryLockFails, GuardDrop, Cell!Refuse, Cell!Enter, Cell!Step
    <2>5. CASE read(t) \/ ReadEnd(t)
      BY <2>5 DEF Inv, TypeOK, InTransition, read, Cell!read, Cell!ReadBegin,
         Cell!ReadRefused, Cell!ReadLook, ReadEnd, Cell!ReadEnd, Cell!Refuse, Cell!Enter,
         Cell!Step
    <2>6. CASE Unlock(t) \/ Return(t)
      BY <2>6 DEF Inv, TypeOK, InTransition, Unlock, Cell!Unlock, Return, Cell!Return
    <2>7. QED BY <2>1, <2>2, <2>3, <2>4, <2>5, <2>6
  <1>3. QED BY <1>1, <1>2, OwnerKept DEF L!lifecycleVars

\* Whatever is cancelled, unwound or forced, PhasedCellAsync implements the lifecycle
\* whose owners may vanish.
THEOREM RefinesAbandonableLifecycle == AsyncSpec => ImplementsAbandonableLifecycle
  <1>1. AsyncInit => L!LifecycleInit
    BY DEF AsyncInit, Cell!PhasedCellSyncInit, L!LifecycleInit, L!PHASE_SETUP,
       TransitionOwner, InTransition
  <1>2. Inv /\ Inv' /\ [AsyncNext]_vars => [L!AbandonableNext]_(L!lifecycleVars)
    <2> SUFFICES ASSUME Inv, Inv', [AsyncNext]_vars
                 PROVE  L!AbandonableNext \/ UNCHANGED L!lifecycleVars
      OBVIOUS
    <2>1. CASE UNCHANGED vars
      BY <2>1 DEF vars, cellVars, L!lifecycleVars, TransitionOwner, InTransition
    <2>2. ASSUME NEW t \in Tasks,
                 \/ Cell!transition_to_read(t) \/ Cell!transition_to_cleanup(t)
                 \/ PanicEarly(t) \/ Cancel(t) \/ ForceFails(t) \/ ForceGivesUp(t)
                 \/ lock(t) \/ read(t) \/ ReadEnd(t) \/ Unlock(t) \/ Return(t)
          PROVE  L!AbandonableNext \/ UNCHANGED L!lifecycleVars
      BY <2>2, BeginMaps, CommitMaps, GiveUpMaps, AccidentMaps, OthersStutter
      DEF Cell!transition_to_read, Cell!transition_to_cleanup
    <2>3. QED
      BY <2>1, <2>2 DEF AsyncNext, transition_to_read_async, transition_to_cleanup_async,
         force_to_read, force_to_cleanup
  <1>3. QED
    BY <1>1, <1>2, Invariance, PTL
    DEF AsyncSpec, ImplementsAbandonableLifecycle, L!AbandonableSpec

-----------------------------------------------------------------------------
(* What the cell inherits from the lifecycle *)

LP == INSTANCE LifecycleProofs WITH Threads <- Tasks, owner <- TransitionOwner

\* The two instances of Lifecycle are the same.
LEMMA SameLifecycle ==
  /\ L!LifecycleInit <=> LP!LifecycleInit
  /\ [L!AbandonableNext]_(L!lifecycleVars) <=> [LP!AbandonableNext]_(LP!lifecycleVars)
  BY DEF L!LifecycleInit, L!AbandonableNext, L!LifecycleNext, L!lifecycleVars, L!BeginRead,
     L!BeginCleanup, L!EndRead, L!EndCleanup, L!Abandon, L!Via, L!InTransit, L!PHASE_SETUP,
     L!PHASE_READ, L!PHASE_CLEANUP, L!PHASE_SETUP_TO_READ, L!PHASE_READ_TO_CLEANUP,
     L!PHASE_SETUP_TO_CLEANUP, LP!LifecycleInit, LP!AbandonableNext, LP!LifecycleNext,
     LP!lifecycleVars, LP!BeginRead, LP!BeginCleanup, LP!EndRead, LP!EndCleanup, LP!Abandon,
     LP!Via, LP!InTransit, LP!PHASE_SETUP, LP!PHASE_READ, LP!PHASE_CLEANUP,
     LP!PHASE_SETUP_TO_READ, LP!PHASE_READ_TO_CLEANUP, LP!PHASE_SETUP_TO_CLEANUP

LEMMA SeenAsLifecycle == AsyncSpec => LP!AbandonableSpec
  BY RefinesAbandonableLifecycle, SameLifecycle, PTL
  DEF ImplementsAbandonableLifecycle, L!AbandonableSpec, LP!AbandonableSpec

\* Whatever is cancelled, unwound or forced, the phase only moves along the edges of the
\* lifecycle, what `phase()` shows never goes back, and no task closes a transition that
\* another has opened.
THEOREM KeepsToTheLifecycle ==
  AsyncSpec => LP!FollowsTheGraph /\ LP!NeverGoesBack /\ LP!NeverTakenOver
  BY SeenAsLifecycle, LP!PhaseFollowsTheGraph, LP!PhaseNeverGoesBack, LP!OwnersAreKept, PTL

\* A cell that is stuck is stuck for good: no method, called by whom ever, gets it out of the
\* phase it was left in.
THEOREM WedgesAreForEver == AsyncSpec => WedgedForEver
  <1>1. Nobody \notin Tasks
    BY AsyncAssumption
  <1>2. Wedged <=> phase \in LP!InTransit /\ TransitionOwner = Nobody
    BY <1>1 DEF Wedged, TransitionOwner, InTransit, LP!InTransit
  <1>3. Wedged' <=> phase' \in LP!InTransit /\ TransitionOwner' = Nobody
    BY <1>1 DEF Wedged, TransitionOwner, InTransit, LP!InTransit
  <1>4. [TransitionOwner = Nobody /\ phase \in LP!InTransit
            => UNCHANGED LP!lifecycleVars]_(LP!lifecycleVars)
        => [Wedged => Wedged' /\ UNCHANGED phase]_vars
    BY <1>2, <1>3 DEF LP!lifecycleVars, LP!InTransit
  <1>5. QED
    BY <1>1, <1>4, SeenAsLifecycle, LP!AbandonedStaysOpen, PTL
    DEF WedgedForEver, LP!AbandonedForEver

-----------------------------------------------------------------------------
(* Readers *)

\* Whoever looks at the data, or has a &T, came when the cell showed Read: it does no more
\* show Setup.
ReaderInv ==
    \A t \in Tasks : pc[t] \in {"look", "reading"} =>
        phase \in {PHASE_READ, PHASE_READ_TO_CLEANUP, PHASE_CLEANUP}

\* A task gets to look only when the cell shows Read.
LEMMA LookersComeInRead ==
  ASSUME Inv, [AsyncNext]_vars, NEW u \in Tasks, pc'[u] \in {"look", "reading"}
  PROVE  pc[u] \in {"look", "reading"} \/ phase = PHASE_READ
  <1>1. ASSUME NEW t \in Tasks, Cell!transition_to_read(t) \/ Cell!transition_to_cleanup(t)
        PROVE  pc'[u] = pc[u] \/ pc'[u] \in {"lock", "run", "swap", "commit", "unlock", "ret"}
    BY <1>1
    DEF Inv, TypeOK, Cell!transition_to_read, Cell!ToReadBegin, Cell!ToReadRefused,
        Cell!ToReadLock, Cell!ToReadRun, Cell!ToReadSwap, Cell!ToReadCommit,
        Cell!transition_to_cleanup, Cell!ToCleanupBegin, Cell!ToCleanupRefused,
        Cell!ToCleanupLock, Cell!ToCleanupRun, Cell!ToCleanupSwap, Cell!ToCleanupCommit,
        Cell!Refuse, Cell!Enter, Cell!Step
  <1>2. ASSUME NEW t \in Tasks, PanicEarly(t) \/ Cancel(t) \/ ForceFails(t) \/ ForceGivesUp(t)
        PROVE  pc'[u] = pc[u] \/ pc'[u] \in {"idle", "give up", "ret"}
    BY <1>2 DEF Inv, TypeOK, PanicEarly, Cancel, ForceFails, ForceGivesUp, Cell!Step
  <1>3. ASSUME NEW t \in Tasks, lock(t)
        PROVE  pc'[u] = pc[u] \/ pc'[u] \in {"lock", "guard", "unlock", "ret"}
    BY <1>3
    DEF Inv, TypeOK, lock, LockBegin, Cell!LockBegin, Cell!TryLockBegin, LockRefused,
        Cell!LockRefused, LockAcquire, TryLockFails, Cell!TryLockFails, GuardDrop, Cell!Refuse,
        Cell!Enter, Cell!Step
  <1>4. ASSUME NEW t \in Tasks, read(t) \/ ReadEnd(t)
        PROVE  pc'[u] = pc[u] \/ pc[u] = "look" \/ phase = PHASE_READ
    BY <1>4
    DEF Inv, TypeOK, read, Cell!read, Cell!ReadBegin, Cell!ReadRefused, Cell!ReadLook, ReadEnd,
        Cell!ReadEnd, Cell!Refuse, Cell!Enter, Cell!Step
  <1>5. ASSUME NEW t \in Tasks, Unlock(t) \/ Return(t)
        PROVE  pc'[u] = pc[u] \/ pc'[u] \in {"idle", "ret"}
    BY <1>5 DEF Inv, TypeOK, Unlock, Cell!Unlock, Return, Cell!Return
  <1>6. QED
    BY <1>1, <1>2, <1>3, <1>4, <1>5
    DEF AsyncNext, transition_to_read_async, transition_to_cleanup_async, force_to_read,
        force_to_cleanup, vars, cellVars

LEMMA ReaderInvariance == AsyncSpec => []ReaderInv
  <1>1. AsyncInit => ReaderInv
    BY DEF AsyncInit, Cell!PhasedCellSyncInit, ReaderInv
  <1>2. /\ Inv /\ ReaderInv /\ [AsyncNext]_vars
        /\ [phase' \in LP!Successor(phase)]_phase
        => ReaderInv'
    BY LookersComeInRead
    DEF ReaderInv, LP!Successor, LP!PHASE_SETUP, LP!PHASE_READ, LP!PHASE_CLEANUP,
        LP!PHASE_SETUP_TO_READ, LP!PHASE_READ_TO_CLEANUP, LP!PHASE_SETUP_TO_CLEANUP
  <1>3. QED
    BY <1>1, <1>2, Invariance, KeepsToTheLifecycle, PTL DEF AsyncSpec, LP!FollowsTheGraph

\* A reader with its &T meets nobody who changes the data but a cleanup, forced or not, and
\* what comes after one.
THEOREM ReadersMeetCleanups == AsyncSpec => []ReadersMeetOnlyCleanup
  <1>1. ReaderInv /\ ReadPhaseIsImmutable => ReadersMeetOnlyCleanup
    BY DEF ReaderInv, ReadPhaseIsImmutable, Cell!ReadPhaseIsImmutable, ReadersMeetOnlyCleanup,
       Cell!ReadersMeetOnlyCleanup
  <1>2. QED
    BY <1>1, ReaderInvariance, ReadIsImmutable, PTL
\* Once the phase has left Read no reader gets in, whatever is cancelled or forced.
THEOREM NoNewReaders == AsyncSpec => Cell!ReadersOnlyLeave
  <1>1. Inv /\ [AsyncNext]_vars =>
          [(phase # PHASE_READ) => Cell!Readers' \subseteq Cell!Readers]_(Cell!vars)
    BY LookersComeInRead DEF Inv, Cell!Readers
  <1>2. QED BY <1>1, Invariance, PTL DEF AsyncSpec, Cell!ReadersOnlyLeave

-----------------------------------------------------------------------------
(* How an open transition winds down *)

\* Task t stays where it is, goes from its place at data_mutex to a later one, or leaves it.
GoesOn(t) ==
    \/ pc'[t] = pc[t]
    \/ pc[t] = "lock"   /\ pc'[t] \in {"run", "commit", "guard", "unlock"}
    \/ pc[t] = "run"    /\ pc'[t] \in {"swap", "commit"}
    \/ pc[t] = "swap"   /\ pc'[t] = "commit"
    \/ pc[t] = "commit" /\ pc'[t] = "unlock"
    \/ pc'[t] \notin {"lock", "run", "swap", "commit", "unlock", "guard"}

\* A task at data_mutex goes on there or leaves, and while the phase is transitional no
\* method brings another one in.
LEMMA EverybodyGoesOn ==
  ASSUME TypeOK, phase \in InTransit, [AsyncNext]_vars, NEW u \in Tasks
  PROVE  GoesOn(u)
  <1>1. ASSUME NEW t \in Tasks, Cell!transition_to_read(t) PROVE GoesOn(u)
    BY <1>1
    DEF TypeOK, InTransit, GoesOn, Cell!transition_to_read, Cell!ToReadBegin,
        Cell!ToReadRefused, Cell!ToReadLock, Cell!ToReadRun, Cell!ToReadSwap,
        Cell!ToReadCommit, Cell!Refuse, Cell!Enter, Cell!Step
  <1>2. ASSUME NEW t \in Tasks, Cell!transition_to_cleanup(t) PROVE GoesOn(u)
    BY <1>2
    DEF TypeOK, InTransit, GoesOn, Cell!transition_to_cleanup, Cell!ToCleanupBegin,
        Cell!ToCleanupRefused, Cell!ToCleanupLock, Cell!ToCleanupRun, Cell!ToCleanupSwap,
        Cell!ToCleanupCommit, Cell!Refuse, Cell!Enter, Cell!Step
  <1>3. ASSUME NEW t \in Tasks, PanicEarly(t) \/ Cancel(t) \/ ForceFails(t) \/ ForceGivesUp(t)
        PROVE  GoesOn(u)
    BY <1>3 DEF TypeOK, GoesOn, PanicEarly, Cancel, ForceFails, ForceGivesUp, Cell!Step
  <1>4. ASSUME NEW t \in Tasks, lock(t) PROVE GoesOn(u)
    BY <1>4
    DEF TypeOK, InTransit, GoesOn, lock, LockBegin, Cell!LockBegin, Cell!TryLockBegin,
        Cell!Lockable, LockRefused, Cell!LockRefused, LockAcquire, TryLockFails,
        Cell!TryLockFails, GuardDrop, Cell!Refuse, Cell!Enter, Cell!Step
  <1>5. ASSUME NEW t \in Tasks, read(t) \/ ReadEnd(t) \/ Unlock(t) \/ Return(t)
        PROVE  GoesOn(u)
    BY <1>5
    DEF TypeOK, InTransit, GoesOn, read, Cell!read, Cell!ReadBegin, Cell!ReadRefused,
        Cell!ReadLook, ReadEnd, Cell!ReadEnd, Unlock, Cell!Unlock, Return, Cell!Return,
        Cell!Refuse, Cell!Enter, Cell!Step
  <1>6. CASE UNCHANGED vars
    BY <1>6 DEF vars, cellVars, GoesOn
  <1>7. QED
    BY <1>1, <1>2, <1>3, <1>4, <1>5, <1>6
    DEF AsyncNext, transition_to_read_async, transition_to_cleanup_async, force_to_read,
        force_to_cleanup

\* While a transition is open, or abandoned, nobody new comes to data_mutex, and whoever is
\* at it only goes on or is cancelled.
THEOREM OpenTransitionsWindDown == AsyncSpec => TransitionsWindDown
  <1>1. ASSUME NEW t \in Tasks, GoesOn(t), Cell!StepsLeft(t) > 0 \/ Cell!StepsLeft(t)' > 0
        PROVE  pc'[t] = pc[t] \/ Cell!StepsLeft(t)' < Cell!StepsLeft(t)
    BY <1>1 DEF GoesOn, Cell!StepsLeft
  <1>2. Inv /\ [AsyncNext]_vars =>
          [(phase \in Cell!InTransit) =>
              \A t \in Tasks : Cell!StepsLeft(t) > 0 \/ Cell!StepsLeft(t)' > 0 =>
                  pc'[t] = pc[t] \/ Cell!StepsLeft(t)' < Cell!StepsLeft(t)]_(Cell!vars)
    BY <1>1, EverybodyGoesOn DEF Inv, InTransit, Cell!InTransit
  <1>3. QED
    BY <1>2, Invariance, PTL DEF AsyncSpec, TransitionsWindDown, Cell!TransitionsWindDown
-----------------------------------------------------------------------------
(* Results *)

\* Data that is not where the methods of Setup look for it has been moved by a transition to
\* Read that still has the mutex.
MovedInv ==
    phase = PHASE_SETUP_TO_READ /\ data_mutex = "None"
        => \E t \in Tasks : At(t, "transition_to_read", {"commit"})

\* How the result of t's call comes about, from the closure or the failed try_lock (the one
\* place that PhasedCellSync does not have) to the return.
AnswerAt(t) ==
    /\ pc[t] \in {"swap", "commit"} => res[t].kind \in
          {"Ok", "Panic", "FailToRunClosureDuringTransitionToRead",
           "FailToRunClosureDuringTransitionToCleanup"}
    /\ pc[t] \notin Cell!PC => res[t].kind = "MutexTryLockFailed"
    /\ pc[t] = "guard" => call[t] \in {"lock", "try_lock"}
    /\ pc[t] = "reading" => res[t].kind = "Ok" /\ call[t] = "read"
    /\ pc[t] \in {"unlock", "ret"} => Truthful(t)

AnswerInv == \A t \in Tasks : AnswerAt(t)

\* Which phases have reached Read, and which Cleanup.
LEMMA ReachedCodes ==
  ASSUME NEW c \in PhaseCode
  PROVE  /\ Cell!Rank(Cell!u8_to_phase(c)) >= 1
              <=> c \in {"READ", "CLEANUP", "READ_TO_CLEANUP", "SETUP_TO_CLEANUP"}
         /\ Cell!Rank(Cell!u8_to_phase(c)) >= 2
              <=> c \in {"CLEANUP", "READ_TO_CLEANUP", "SETUP_TO_CLEANUP"}
  <1>1. CASE c \in {"SETUP", "SETUP_TO_READ"}
    BY <1>1 DEF Cell!Rank, Cell!u8_to_phase
  <1>2. CASE c = "READ"
    BY <1>2 DEF Cell!Rank, Cell!u8_to_phase
  <1>3. CASE c \in {"CLEANUP", "READ_TO_CLEANUP", "SETUP_TO_CLEANUP"}
    BY <1>3 DEF Cell!Rank, Cell!u8_to_phase
  <1>4. QED BY <1>1, <1>2, <1>3 DEF PhaseCode

\* What a phase step is: to itself or along an edge of the lifecycle.
PhaseStep == [phase' \in LP!Successor(phase)]_phase

\* What a result says stays true along the lifecycle.
LEMMA TruthLasts ==
  ASSUME TypeOK, TypeOK', PhaseStep, accidents \subseteq accidents', NEW u \in Tasks,
         call'[u] = call[u], res'[u] = res[u], Truthful(u)
  PROVE  Truthful(u)'
  <1>1. /\ phase = PHASE_CLEANUP => phase' = PHASE_CLEANUP
        /\ phase = PHASE_SETUP_TO_CLEANUP => phase' \in {PHASE_SETUP_TO_CLEANUP, PHASE_CLEANUP}
        /\ phase \in {"CLEANUP", "READ_TO_CLEANUP", "SETUP_TO_CLEANUP"}
             => phase' \in {"CLEANUP", "READ_TO_CLEANUP", "SETUP_TO_CLEANUP"}
        /\ phase = "READ" => phase' \in {"READ", "READ_TO_CLEANUP"}
    BY DEF PhaseStep, LP!Successor, LP!PHASE_SETUP, LP!PHASE_READ, LP!PHASE_CLEANUP,
       LP!PHASE_SETUP_TO_READ, LP!PHASE_READ_TO_CLEANUP, LP!PHASE_SETUP_TO_CLEANUP
  <1>2. /\ Cell!Reached(1) => Cell!Reached(1)'
        /\ Cell!Reached(2) => Cell!Reached(2)'
    BY <1>1, ReachedCodes DEF TypeOK, Cell!Reached
  <1>3. QED BY <1>1, <1>2 DEF Truthful

\* So a task that takes no step keeps its answer.
LEMMA OthersAnswer ==
  ASSUME TypeOK, TypeOK', PhaseStep, accidents \subseteq accidents', NEW u \in Tasks,
         pc'[u] = pc[u], call'[u] = call[u], res'[u] = res[u], AnswerAt(u)
  PROVE  AnswerAt(u)'
  BY TruthLasts DEF AnswerAt, Cell!PC

\* What transition_to_read tells its caller.
LEMMA ToReadAnswers ==
  ASSUME Inv, AnswerInv, PhaseStep, NEW t \in Tasks, Cell!transition_to_read(t),
         UNCHANGED accidents
  PROVE  AnswerAt(t)'
  <1>1. CASE Cell!ToReadBegin(t)
    BY <1>1 DEF Inv, TypeOK, AnswerAt, Cell!ToReadBegin, Cell!Enter, Cell!PC
  <1>2. CASE Cell!ToReadRefused(t)
    <2>1. /\ pc'[t] = "ret" /\ call'[t] = "transition_to_read" /\ phase' = phase
          /\ phase # PHASE_SETUP /\ phase \in PhaseCode
          /\ res'[t] = Cell!ToReadRefusal(phase)
      BY <1>2 DEF Inv, TypeOK, Cell!ToReadRefused, Cell!Refuse, Cell!Enter
    <2>2. Truthful(t)'
      BY <2>1, ReachedCodes
      DEF Truthful, Cell!Reached, Cell!ToReadRefusal, Cell!Err, PhaseCode
    <2>3. QED BY <2>1, <2>2 DEF AnswerAt, Cell!PC
  <1>3. CASE Cell!ToReadLock(t)
    <2>1. data_mutex = "Some" /\ poisoned = FALSE
      BY <1>3 DEF Inv, TypeOK, DataInv, At, Cell!ToReadLock, Cell!Step
    <2>2. pc'[t] = "run"
      BY <1>3, <2>1 DEF Inv, TypeOK, Cell!ToReadLock, Cell!Step, Cell!ToReadFault
    <2>3. QED BY <2>2 DEF AnswerAt, Cell!PC
  <1>4. CASE Cell!ToReadRun(t)
    <2>1. /\ pc'[t] \in {"swap", "commit"}
          /\ res'[t].kind \in {"Ok", "Panic", "FailToRunClosureDuringTransitionToRead"}
      BY <1>4 DEF Inv, TypeOK, Cell!ToReadRun, Cell!Step, Cell!Ok, Cell!Panic, Cell!Err
    <2>2. QED BY <2>1 DEF AnswerAt, Cell!PC
  <1>5. CASE Cell!ToReadSwap(t)
    BY <1>5 DEF Inv, TypeOK, AnswerInv, AnswerAt, Cell!ToReadSwap, Cell!Step, Cell!PC
  <1>6. CASE Cell!ToReadCommit(t)
    <2>1. /\ pc[t] = "commit" /\ pc'[t] = "unlock"
          /\ call'[t] = "transition_to_read" /\ res'[t] = res[t]
      BY <1>6 DEF Inv, TypeOK, Cell!ToReadCommit, Cell!Step
    <2>2. phase = PHASE_SETUP_TO_READ
      BY <1>6, Zenon DEF Inv, OwnerInv, InTransition, Cell!ToReadCommit, Cell!Step
    <2>3. res[t].kind = "Ok" => res[t] = Cell!Ok
      BY DEF Inv, TypeOK, Result, Cell!Ok, Ok, Panic, NoResult, PhasedErrorKind
    <2>4. res[t].kind = "Ok" => phase' = PHASE_READ
      BY <1>6, <2>2, <2>3 DEF Cell!ToReadCommit, Cell!change_phase
    <2>5. Truthful(t)'
      BY <2>1, <2>4, ReachedCodes DEF AnswerInv, AnswerAt, Truthful, Cell!Reached, PhaseCode
    <2>6. QED BY <2>1, <2>5 DEF AnswerAt, Cell!PC
  <1>7. QED
    BY <1>1, <1>2, <1>3, <1>4, <1>5, <1>6 DEF Cell!transition_to_read

\* What transition_to_cleanup tells its caller.
LEMMA ToCleanupAnswers ==
  ASSUME Inv, AnswerInv, PhaseStep, NEW t \in Tasks, Cell!transition_to_cleanup(t),
         UNCHANGED accidents
  PROVE  AnswerAt(t)'
  <1>1. CASE Cell!ToCleanupBegin(t)
    BY <1>1 DEF Inv, TypeOK, AnswerAt, Cell!ToCleanupBegin, Cell!Enter, Cell!PC
  <1>2. CASE Cell!ToCleanupRefused(t)
    <2>1. /\ pc'[t] = "ret" /\ call'[t] = "transition_to_cleanup" /\ phase' = phase
          /\ phase \notin {PHASE_SETUP, PHASE_READ} /\ phase \in PhaseCode
          /\ res'[t] = Cell!ToCleanupRefusal(phase)
      BY <1>2 DEF Inv, TypeOK, Cell!ToCleanupRefused, Cell!Refuse, Cell!Enter
    <2>2. Truthful(t)'
      BY <2>1, ReachedCodes
      DEF Truthful, Cell!Reached, Cell!ToCleanupRefusal, Cell!Err, PhaseCode
    <2>3. QED BY <2>1, <2>2 DEF AnswerAt, Cell!PC
  <1>3. CASE Cell!ToCleanupLock(t)
    <2>1. At(t, "transition_to_cleanup", {"lock"}) /\ poisoned = FALSE
      BY <1>3 DEF Inv, TypeOK, At, Cell!ToCleanupLock, Cell!Step
    <2>2. \/ old[t] = PHASE_READ
          \/ old[t] = PHASE_SETUP /\ phase = PHASE_SETUP_TO_CLEANUP
      BY <2>1, Zenon DEF Inv, OwnerInv, InTransition, At, Via
    <2>3. "Some" = (IF old[t] = PHASE_READ THEN data_cell ELSE data_mutex)
      BY <2>1, <2>2 DEF Inv, DataInv, DataHome, At
    <2>4. pc'[t] = "run"
      BY <1>3, <2>1, <2>3
      DEF Inv, TypeOK, Cell!ToCleanupLock, Cell!Step, Cell!ToCleanupFault
    <2>5. QED BY <2>4 DEF AnswerAt, Cell!PC
  <1>4. CASE Cell!ToCleanupRun(t)
    <2>1. /\ pc'[t] \in {"swap", "commit"}
          /\ res'[t].kind \in {"Ok", "Panic", "FailToRunClosureDuringTransitionToCleanup"}
      BY <1>4 DEF Inv, TypeOK, Cell!ToCleanupRun, Cell!Step, Cell!Ok, Cell!Panic, Cell!Err
    <2>2. QED BY <2>1 DEF AnswerAt, Cell!PC
  <1>5. CASE Cell!ToCleanupSwap(t)
    BY <1>5 DEF Inv, TypeOK, AnswerInv, AnswerAt, Cell!ToCleanupSwap, Cell!Step, Cell!PC
  <1>6. CASE Cell!ToCleanupCommit(t)
    <2>1. /\ pc[t] = "commit" /\ pc'[t] = "unlock"
          /\ call'[t] = "transition_to_cleanup" /\ res'[t] = res[t]
      BY <1>6 DEF Inv, TypeOK, Cell!ToCleanupCommit, Cell!Step
    <2>2. phase = Cell!Via(old[t])
      BY <1>6, Zenon DEF Inv, OwnerInv, InTransition, Cell!ToCleanupCommit, Cell!Step, Via,
         Cell!Via
    <2>3. phase' = PHASE_CLEANUP
      BY <1>6, <2>2 DEF Cell!ToCleanupCommit, Cell!change_phase
    <2>4. Truthful(t)'
      BY <2>1, <2>3, ReachedCodes DEF AnswerInv, AnswerAt, Truthful, Cell!Reached, PhaseCode
    <2>5. QED BY <2>1, <2>4 DEF AnswerAt, Cell!PC
  <1>7. QED
    BY <1>1, <1>2, <1>3, <1>4, <1>5, <1>6 DEF Cell!transition_to_cleanup

\* What a transition tells its caller that was unwound, or forced in vain; one that is
\* cancelled has no caller any more.
LEMMA AccidentAnswers ==
  ASSUME Inv, AnswerInv, PhaseStep, NEW t \in Tasks,
         PanicEarly(t) \/ Cancel(t) \/ ForceFails(t) \/ ForceGivesUp(t)
  PROVE  AnswerAt(t)' /\ accidents \subseteq accidents'
  <1>1. CASE PanicEarly(t)
    BY <1>1 DEF Inv, TypeOK, AnswerAt, Truthful, PanicEarly, Panic, Cell!PC
  <1>2. CASE Cancel(t)
    BY <1>2 DEF Inv, TypeOK, AnswerAt, Cancel, Cell!PC
  <1>3. CASE ForceFails(t)
    <2>1. res'[t].kind = "MutexTryLockFailed" /\ accidents \subseteq accidents'
      BY <1>3 DEF Inv, TypeOK, ForceFails, Err
    <2>2. pc'[t] \notin {"swap", "commit", "guard", "reading", "unlock", "ret"}
      BY <1>3, Zenon DEF Inv, TypeOK, ForceFails, Cell!Step
    <2>3. QED BY <2>1, <2>2 DEF AnswerAt
  <1>4. CASE ForceGivesUp(t)
    <2>1. /\ pc[t] \notin Cell!PC /\ InTransition(t)
          /\ pc' = [pc EXCEPT ![t] = "ret"]
          /\ UNCHANGED <<call, res, accidents>>
      BY <1>4, Zenon DEF Inv, CallInv, InTransition, ForceGivesUp, Cell!PC, extra
    <2>2. call[t] = "transition_to_cleanup" => phase' \in {PHASE_CLEANUP, PHASE_SETUP_TO_CLEANUP}
      <3>1. call[t] = "transition_to_cleanup"
              => phase \in {PHASE_READ_TO_CLEANUP, PHASE_SETUP_TO_CLEANUP}
        BY <2>1 DEF Inv, OwnerInv, Via
      <3>2. call[t] = "transition_to_cleanup"
              => Cell!change_phase(PHASE_READ_TO_CLEANUP, PHASE_CLEANUP)
        BY <1>4, Zenon DEF ForceGivesUp
      <3>3. QED BY <3>1, <3>2 DEF Cell!change_phase
    <2>3. res[t].kind = "MutexTryLockFailed"
      BY <2>1 DEF AnswerInv, AnswerAt
    <2>4. pc'[t] = "ret" /\ call'[t] = call[t] /\ res'[t] = res[t]
      BY <2>1 DEF Inv, TypeOK
    <2>5. Truthful(t)'
      BY <2>2, <2>3, <2>4 DEF Truthful
    <2>6. QED BY <2>1, <2>4, <2>5 DEF AnswerAt, Cell!PC
  <1>5. QED BY <1>1, <1>2, <1>3, <1>4

\* What lock_async and try_lock tell theirs: data that a locker does not find has moved on.
LEMMA LockAnswers ==
  ASSUME Inv, MovedInv, AnswerInv, PhaseStep, NEW t \in Tasks, lock(t)
  PROVE  AnswerAt(t)' /\ UNCHANGED accidents
  <1>1. CASE LockBegin(t)
    BY <1>1 DEF Inv, TypeOK, AnswerAt, LockBegin, Cell!LockBegin, Cell!TryLockBegin,
       Cell!Enter, Cell!PC, extra
  <1>2. CASE LockRefused(t)
    <2>1. /\ pc'[t] = "ret" /\ call'[t] \in {"lock", "try_lock"} /\ phase' = phase
          /\ phase \notin {PHASE_SETUP, PHASE_CLEANUP} /\ phase \in PhaseCode
          /\ res'[t] = Cell!LockRefusal(phase) /\ UNCHANGED accidents
      BY <1>2 DEF Inv, TypeOK, LockRefused, Cell!LockRefused, Cell!Lockable, Cell!Refuse,
         Cell!Enter, extra
    <2>2. Truthful(t)'
      BY <2>1, ReachedCodes
      DEF Truthful, Cell!Reached, Cell!LockRefusal, Cell!Err, PhaseCode
    <2>3. QED BY <2>1, <2>2 DEF AnswerAt, Cell!PC
  <1>3. CASE LockAcquire(t)
    <2>1. /\ pc'[t] \in {"guard", "unlock"} /\ call'[t] \in {"lock", "try_lock"}
          /\ holder = Nobody /\ UNCHANGED <<phase, accidents>>
          /\ res'[t] = LockFault(t)
          /\ pc'[t] = "unlock" => LockFault(t) # NoResult
      BY <1>3 DEF Inv, TypeOK, LockAcquire, Cell!Step, extra
    <2>2. data_mutex = "None" => phase \notin {PHASE_SETUP, PHASE_SETUP_TO_READ}
      <3>1. \A u \in Tasks : pc[u] # "commit"
        BY <2>1, AsyncAssumption DEF Inv, MutexInv
      <3>2. QED BY <3>1 DEF Inv, DataInv, DataHome, MovedInv, At
    <2>3. ASSUME pc'[t] = "unlock" PROVE Truthful(t)'
      BY <2>1, <2>2, <2>3, ReachedCodes
      DEF Inv, TypeOK, Truthful, Cell!Reached, LockFault, Err, PhaseCode
    <2>4. QED BY <2>1, <2>3 DEF AnswerAt, Cell!PC
  <1>4. CASE TryLockFails(t)
    BY <1>4 DEF Inv, TypeOK, AnswerAt, Truthful, TryLockFails, Cell!TryLockFails, Cell!Step,
       Cell!Err, Cell!PC, extra
  <1>5. CASE GuardDrop(t)
    BY <1>5 DEF Inv, TypeOK, AnswerInv, AnswerAt, Truthful, GuardDrop, Ok, Cell!PC, extra
  <1>6. QED BY <1>1, <1>2, <1>3, <1>4, <1>5 DEF lock

\* What read tells its caller: data that a reader does not find has gone to Cleanup.
LEMMA ReadAnswers ==
  ASSUME Inv, ReaderInv, AnswerInv, PhaseStep, NEW t \in Tasks, read(t) \/ ReadEnd(t)
  PROVE  AnswerAt(t)' /\ UNCHANGED accidents
  <1>1. CASE Cell!ReadBegin(t) /\ UNCHANGED extra
    BY <1>1 DEF Inv, TypeOK, AnswerAt, Cell!ReadBegin, Cell!Enter, Cell!PC, extra
  <1>2. CASE Cell!ReadRefused(t) /\ UNCHANGED extra
    BY <1>2 DEF Inv, TypeOK, AnswerAt, Truthful, Cell!ReadRefused, Cell!Refuse, Cell!Enter,
       Cell!Err, Cell!PC, extra
  <1>3. CASE Cell!ReadLook(t) /\ UNCHANGED extra
    <2>1. /\ pc[t] = "look" /\ call'[t] = "read" /\ UNCHANGED <<phase, accidents>>
          /\ pc'[t] = IF data_cell = "Some" THEN "reading" ELSE "ret"
          /\ res'[t] = IF data_cell = "Some" THEN Cell!Ok
                       ELSE Cell!Err(old[t], "InternalDataUnavailable")
      BY <1>3 DEF Inv, TypeOK, Cell!ReadLook, Cell!Step, extra
    <2>2. data_cell # "Some" => phase \in {PHASE_READ_TO_CLEANUP, PHASE_CLEANUP}
      BY <2>1 DEF Inv, DataInv, DataHome, ReaderInv
    <2>3. pc'[t] = "ret" => Truthful(t)'
      BY <2>1, <2>2, ReachedCodes DEF Truthful, Cell!Reached, Cell!Err, PhaseCode
    <2>4. QED BY <2>1, <2>3 DEF AnswerAt, Cell!Ok, Cell!PC
  <1>4. CASE ReadEnd(t)
    BY <1>4 DEF Inv, TypeOK, AnswerInv, AnswerAt, Truthful, ReadEnd, Cell!ReadEnd, Cell!Step,
       Cell!PC, extra
  <1>5. QED BY <1>1, <1>2, <1>3, <1>4 DEF read, Cell!read

\* The release of the mutex keeps an answer, the return gives it.
LEMMA ReturnAnswers ==
  ASSUME Inv, Inv', AnswerInv, PhaseStep, NEW t \in Tasks, Unlock(t) \/ Return(t)
  PROVE  AnswerAt(t)' /\ UNCHANGED accidents
  <1>1. CASE Unlock(t)
    <2>1. /\ pc[t] = "unlock" /\ pc'[t] = "ret" /\ call'[t] = call[t] /\ res'[t] = res[t]
          /\ UNCHANGED accidents
      BY <1>1 DEF Inv, TypeOK, Unlock, Cell!Unlock, extra
    <2>2. Truthful(t)'
      BY <2>1, TruthLasts DEF Inv, AnswerInv, AnswerAt
    <2>3. QED BY <2>1, <2>2 DEF AnswerAt, Cell!PC
  <1>2. CASE Return(t)
    BY <1>2 DEF Inv, TypeOK, AnswerAt, Return, Cell!Return, Cell!PC
  <1>3. QED BY <1>1, <1>2

\* The tasks that take no step stay what they are.
LEMMA OthersStay ==
  ASSUME TypeOK, NEW t \in Tasks, NEW u \in Tasks \ {t},
         \/ Cell!transition_to_read(t) \/ Cell!transition_to_cleanup(t)
         \/ PanicEarly(t) \/ Cancel(t) \/ ForceFails(t) \/ ForceGivesUp(t)
         \/ lock(t) \/ read(t) \/ ReadEnd(t) \/ Unlock(t) \/ Return(t)
  PROVE  pc'[u] = pc[u] /\ call'[u] = call[u] /\ res'[u] = res[u]
  <1>1. CASE Cell!transition_to_read(t)
    BY <1>1
    DEF TypeOK, Cell!transition_to_read, Cell!ToReadBegin, Cell!ToReadRefused,
        Cell!ToReadLock, Cell!ToReadRun, Cell!ToReadSwap, Cell!ToReadCommit, Cell!Refuse,
        Cell!Enter, Cell!Step
  <1>2. CASE Cell!transition_to_cleanup(t)
    BY <1>2
    DEF TypeOK, Cell!transition_to_cleanup, Cell!ToCleanupBegin, Cell!ToCleanupRefused,
        Cell!ToCleanupLock, Cell!ToCleanupRun, Cell!ToCleanupSwap, Cell!ToCleanupCommit,
        Cell!Refuse, Cell!Enter, Cell!Step
  <1>3. CASE PanicEarly(t) \/ Cancel(t) \/ ForceFails(t) \/ ForceGivesUp(t)
    BY <1>3 DEF TypeOK, PanicEarly, Cancel, ForceFails, ForceGivesUp, Cell!Step
  <1>4. CASE lock(t)
    BY <1>4
    DEF TypeOK, lock, LockBegin, Cell!LockBegin, Cell!TryLockBegin, LockRefused,
        Cell!LockRefused, LockAcquire, TryLockFails, Cell!TryLockFails, GuardDrop,
        Cell!Refuse, Cell!Enter, Cell!Step
  <1>5. CASE read(t) \/ ReadEnd(t) \/ Unlock(t) \/ Return(t)
    BY <1>5
    DEF TypeOK, read, Cell!read, Cell!ReadBegin, Cell!ReadRefused, Cell!ReadLook, ReadEnd,
        Cell!ReadEnd, Unlock, Cell!Unlock, Return, Cell!Return, Cell!Refuse, Cell!Enter,
        Cell!Step
  <1>6. QED BY <1>1, <1>2, <1>3, <1>4, <1>5

\* Every step keeps the answers true.
LEMMA AnswersKept ==
  ASSUME Inv, Inv', MovedInv, ReaderInv, AnswerInv, PhaseStep, [AsyncNext]_vars
  PROVE  AnswerInv'
  <1>1. ASSUME NEW t \in Tasks, AnswerAt(t)', accidents \subseteq accidents',
               \A u \in Tasks \ {t} :
                  pc'[u] = pc[u] /\ call'[u] = call[u] /\ res'[u] = res[u]
        PROVE  AnswerInv'
    BY <1>1, OthersAnswer DEF Inv, AnswerInv
  <1>2. ASSUME NEW t \in Tasks, Cell!transition_to_read(t) \/ Cell!transition_to_cleanup(t),
               UNCHANGED accidents
        PROVE  AnswerInv'
    BY <1>1, <1>2, ToReadAnswers, ToCleanupAnswers, OthersStay DEF Inv
  <1>3. ASSUME NEW t \in Tasks, PanicEarly(t) \/ Cancel(t) \/ ForceFails(t) \/ ForceGivesUp(t)
        PROVE  AnswerInv'
    BY <1>1, <1>3, AccidentAnswers, OthersStay DEF Inv
  <1>4. ASSUME NEW t \in Tasks, lock(t) \/ read(t) \/ ReadEnd(t) \/ Unlock(t) \/ Return(t)
        PROVE  AnswerInv'
    BY <1>1, <1>4, LockAnswers, ReadAnswers, ReturnAnswers, OthersStay DEF Inv
  <1>5. CASE UNCHANGED vars
    BY <1>5, OthersAnswer DEF Inv, AnswerInv, vars, cellVars
  <1>6. QED
    BY <1>2, <1>3, <1>4, <1>5
    DEF AsyncNext, transition_to_read_async, transition_to_cleanup_async, force_to_read,
        force_to_cleanup, As

\* A step into the transition to Read finds the data in the mutex, and one that takes it
\* from there is a swap with the commit to come.
LEMMA MovedKept ==
  ASSUME Inv, Inv', MovedInv, [AsyncNext]_vars PROVE MovedInv'
  <1> SUFFICES ASSUME phase' = PHASE_SETUP_TO_READ, data_mutex' = "None"
               PROVE  \E u \in Tasks : At(u, "transition_to_read", {"commit"})'
    BY DEF MovedInv
  <1>1. ASSUME UNCHANGED <<phase, data_mutex>>,
               \A u \in Tasks : At(u, "transition_to_read", {"commit"})
                                   => At(u, "transition_to_read", {"commit"})'
        PROVE  \E u \in Tasks : At(u, "transition_to_read", {"commit"})'
    BY <1>1 DEF MovedInv
  <1>2. ASSUME NEW t \in Tasks, Cell!transition_to_read(t)
        PROVE  \E u \in Tasks : At(u, "transition_to_read", {"commit"})'
    <2>1. CASE Cell!ToReadBegin(t)
      BY <2>1 DEF Inv, DataInv, DataHome, Cell!ToReadBegin, Cell!data
    <2>2. CASE Cell!ToReadRefused(t) \/ Cell!ToReadLock(t) \/ Cell!ToReadRun(t)
      BY <1>1, <2>2
      DEF Inv, TypeOK, At, Cell!ToReadRefused, Cell!ToReadLock, Cell!ToReadRun, Cell!Refuse,
          Cell!Enter, Cell!Step, Cell!data
    <2>3. CASE Cell!ToReadSwap(t)
      BY <2>3 DEF Inv, TypeOK, At, Cell!ToReadSwap, Cell!Step
    <2>4. CASE Cell!ToReadCommit(t)
      <3>1. phase' # PHASE_SETUP_TO_READ
        <4>1. old[t] = PHASE_SETUP
          BY <2>4, Zenon DEF Inv, OwnerInv, InTransition, Cell!ToReadCommit, Cell!Step
        <4>2. QED BY <2>4, <4>1 DEF Cell!ToReadCommit, Cell!change_phase
      <3>2. QED BY <3>1
    <2>5. QED BY <1>2, <2>1, <2>2, <2>3, <2>4 DEF Cell!transition_to_read
  <1>3. ASSUME NEW t \in Tasks, Cell!transition_to_cleanup(t)
        PROVE  \E u \in Tasks : At(u, "transition_to_read", {"commit"})'
    <2>1. CASE Cell!ToCleanupBegin(t)
      BY <2>1 DEF Cell!ToCleanupBegin, Cell!Via
    <2>2. CASE Cell!ToCleanupRefused(t) \/ Cell!ToCleanupLock(t) \/ Cell!ToCleanupRun(t)
      BY <1>1, <2>2
      DEF Inv, TypeOK, At, Cell!ToCleanupRefused, Cell!ToCleanupLock, Cell!ToCleanupRun,
          Cell!Refuse, Cell!Enter, Cell!Step, Cell!data
    <2>3. CASE Cell!ToCleanupSwap(t) \/ Cell!ToCleanupCommit(t)
      <3>1. phase \in {PHASE_READ_TO_CLEANUP, PHASE_SETUP_TO_CLEANUP}
        BY <2>3, Zenon DEF Inv, OwnerInv, InTransition, Via, Cell!ToCleanupSwap,
           Cell!ToCleanupCommit, Cell!Step
      <3>2. QED
        BY <2>3, <3>1 DEF Cell!ToCleanupSwap, Cell!ToCleanupCommit, Cell!change_phase
    <2>4. QED BY <1>3, <2>1, <2>2, <2>3 DEF Cell!transition_to_cleanup
  <1>4. ASSUME NEW t \in Tasks, PanicEarly(t) \/ Cancel(t) \/ ForceFails(t)
        PROVE  \E u \in Tasks : At(u, "transition_to_read", {"commit"})'
    BY <1>1, <1>4
    DEF Inv, TypeOK, At, PanicEarly, Cancel, ForceFails, Cell!Step, data
  <1>5. ASSUME NEW t \in Tasks, ForceGivesUp(t)
        PROVE  \E u \in Tasks : At(u, "transition_to_read", {"commit"})'
    <2>1. \/ phase' = phase
          \/ phase' \in {PHASE_SETUP, PHASE_CLEANUP}
      BY <1>5, Zenon DEF ForceGivesUp, Cell!change_phase
    <2>2. UNCHANGED data_mutex /\ UNCHANGED call /\ pc[t] # "commit"
      BY <1>5, Zenon DEF ForceGivesUp, data
    <2>3. \A u \in Tasks \ {t} : pc'[u] = pc[u]
      BY <1>5, OthersStay DEF Inv
    <2>4. QED BY <1>1, <2>1, <2>2, <2>3 DEF At
  <1>6. ASSUME NEW t \in Tasks, lock(t) \/ read(t) \/ ReadEnd(t) \/ Unlock(t) \/ Return(t)
        PROVE  \E u \in Tasks : At(u, "transition_to_read", {"commit"})'
    <2>1. UNCHANGED <<phase, data_mutex>>
      BY <1>6
      DEF lock, LockBegin, Cell!LockBegin, Cell!TryLockBegin, LockRefused,
          Cell!LockRefused, LockAcquire, TryLockFails, Cell!TryLockFails, GuardDrop, read,
          Cell!read, Cell!ReadBegin, Cell!ReadRefused, Cell!ReadLook, ReadEnd, Cell!ReadEnd,
          Unlock, Cell!Unlock, Return, Cell!Return, Cell!Refuse, Cell!data, data
    <2>2. pc[t] # "commit"
      BY <1>6
      DEF lock, LockBegin, Cell!LockBegin, Cell!TryLockBegin, LockRefused,
          Cell!LockRefused, LockAcquire, TryLockFails, Cell!TryLockFails, GuardDrop, read,
          Cell!read, Cell!ReadBegin, Cell!ReadRefused, Cell!ReadLook, ReadEnd, Cell!ReadEnd,
          Unlock, Cell!Unlock, Return, Cell!Return, Cell!Refuse, Cell!Enter, Cell!Step
    <2>3. \A u \in Tasks \ {t} : pc'[u] = pc[u] /\ call'[u] = call[u]
      BY <1>6, OthersStay DEF Inv
    <2>4. QED BY <1>1, <2>1, <2>2, <2>3 DEF At
  <1>7. CASE UNCHANGED vars
    BY <1>1, <1>7 DEF vars, cellVars, At
  <1>8. QED
    BY <1>2, <1>3, <1>4, <1>5, <1>6, <1>7
    DEF AsyncNext, transition_to_read_async, transition_to_cleanup_async, force_to_read,
        force_to_cleanup

LEMMA AnswerInvariance == AsyncSpec => [](MovedInv /\ AnswerInv)
  <1>1. AsyncInit => MovedInv /\ AnswerInv
    BY DEF AsyncInit, Cell!PhasedCellSyncInit, MovedInv, AnswerInv, AnswerAt, Cell!PC
  <1>2. /\ Inv /\ Inv' /\ ReaderInv /\ MovedInv /\ AnswerInv /\ [AsyncNext]_vars
        /\ [phase' \in LP!Successor(phase)]_phase
        => MovedInv' /\ AnswerInv'
    BY AnswersKept, MovedKept DEF PhaseStep
  <1>3. QED
    BY <1>1, <1>2, Invariance, ReaderInvariance, KeepsToTheLifecycle, PTL
    DEF AsyncSpec, LP!FollowsTheGraph

\* Whatever is forced, cancelled or unwound, a result is still true when its caller gets it.
THEOREM ResultsAreTruthful == AsyncSpec => []TruthfulResults
  <1>1. AnswerInv => TruthfulResults
    BY DEF AnswerInv, AnswerAt, TruthfulResults
  <1>2. QED BY <1>1, AnswerInvariance, PTL
==============================================================================
