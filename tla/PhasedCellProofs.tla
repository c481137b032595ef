--------------------------- MODULE PhasedCellProofs ---------------------------
(***************************************************************************)
(* Proofs about PhasedCell, for any set of threads.                        *)
(*                                                                         *)
(* Inv is inductive (one lemma per action).  Its heart is SyncInv: outside *)
(* a transition, either every thread happens after the last write or an    *)
(* acquire of the phase brings that about, so whoever opens a transition   *)
(* or starts to read in Read has seen all there is.                        *)
(***************************************************************************)
EXTENDS PhasedCell, TLAPS

\* The phase codes stand for their strings everywhere below.
USE DEF PHASE_SETUP, PHASE_READ, PHASE_CLEANUP, PHASE_SETUP_TO_READ,
        PHASE_READ_TO_CLEANUP, PHASE_SETUP_TO_CLEANUP

-----------------------------------------------------------------------------
(* Each action preserves Inv. *)

\* A new cell satisfies the invariant.
LEMMA InitInv == PhasedCellInit => Inv
  <1> SUFFICES ASSUME PhasedCellInit PROVE Inv
    OBVIOUS
  <1>1. TypeOK
    BY DEF PhasedCellInit, TypeOK, PhaseCode, PC, Result
  <1>2. CallInv /\ PhaseInv /\ AloneInv
    BY DEF PhasedCellInit, CallInv, PhaseInv, AloneInv, InTransition, InTransit, Looking
  <1>3. SyncInv
    BY DEF PhasedCellInit, SyncInv, ReadersSeeSetup, InTransition
  <1>4. QED
    BY <1>1, <1>2, <1>3 DEF Inv

\* A step of ToReadBegin preserves the invariant.
LEMMA ToReadBeginInv == ASSUME Inv, NEW t \in Threads, ToReadBegin(t) PROVE Inv'
  <1>1. TypeOK'
    BY DEF Inv, TypeOK, ToReadBegin, Enter, AcqRel, AfterAcquire, PC, Method, PhaseCode
  <1>2. CallInv'
    BY DEF Inv, TypeOK, CallInv, InTransition, Looking, ToReadBegin, Enter
  <1>3. PhaseInv'
    BY DEF Inv, TypeOK, PhaseInv, InTransition, ToReadBegin, Enter, Via, InTransit
  <1>4. AloneInv'
    BY DEF Inv, TypeOK, AloneInv, Looking, ToReadBegin, Enter
  <1>5. SyncInv'
    BY DEF Inv, TypeOK, SyncInv, PhaseInv, ReadersSeeSetup, InTransition,
        ToReadBegin, Enter, AcqRel, AfterAcquire, InTransit
  <1>6. QED BY <1>1, <1>2, <1>3, <1>4, <1>5 DEF Inv

\* A step of ToReadRefused preserves the invariant.
LEMMA ToReadRefusedInv == ASSUME Inv, NEW t \in Threads, ToReadRefused(t) PROVE Inv'
  <1>1. TypeOK'
    BY DEF Inv, TypeOK, ToReadRefused, Refuse, Enter, Acquire, AfterAcquire,
        ToReadRefusal, Err, u8_to_phase, PublicPhase, PhasedErrorKind, Result, PC,
        Method
  <1>2. CallInv'
    BY DEF Inv, TypeOK, CallInv, InTransition, Looking, ToReadRefused, Refuse, Enter
  <1>3. PhaseInv'
    BY DEF Inv, TypeOK, PhaseInv, InTransition, ToReadRefused, Refuse, Enter
  <1>4. AloneInv'
    BY DEF Inv, TypeOK, AloneInv, Looking, ToReadRefused, Refuse, Enter
  <1>5. SyncInv'
    BY DEF Inv, TypeOK, SyncInv, ReadersSeeSetup, InTransition, ToReadRefused,
        Refuse, Enter, Acquire, AfterAcquire
  <1>6. QED BY <1>1, <1>2, <1>3, <1>4, <1>5 DEF Inv

\* A step of ToReadRun preserves the invariant.
LEMMA ToReadRunInv == ASSUME Inv, NEW t \in Threads, ToReadRun(t) PROVE Inv'
  <1>1. TypeOK'
    <2>1. {Ok, Panic, Err(PHASE_SETUP, "FailToRunClosureDuringTransitionToRead")} \subseteq Result
      BY DEF Err, u8_to_phase, PublicPhase, PhasedErrorKind, Result
    <2>2. res' \in [Threads -> Result]
      BY <2>1 DEF Inv, TypeOK, ToReadRun
    <2>3. QED
      BY <2>2 DEF Inv, TypeOK, ToReadRun, Step, Write, PC
  <1>2. CallInv'
    BY DEF Inv, TypeOK, CallInv, InTransition, Looking, ToReadRun, Step
  <1>3. PhaseInv'
    BY DEF Inv, TypeOK, PhaseInv, InTransition, ToReadRun, Step
  <1>4. AloneInv'
    BY DEF Inv, TypeOK, AloneInv, Looking, ToReadRun, Step
  <1>5. SyncInv'
    BY DEF Inv, TypeOK, SyncInv, PhaseInv, CallInv, AloneInv, ReadersSeeSetup,
        InTransition, ToReadRun, Step, Write, InTransit
  <1>6. QED BY <1>1, <1>2, <1>3, <1>4, <1>5 DEF Inv

\* A step of ToReadCommit preserves the invariant.
LEMMA ToReadCommitInv == ASSUME Inv, NEW t \in Threads, ToReadCommit(t) PROVE Inv'
  <1>1. TypeOK'
    BY DEF Inv, TypeOK, ToReadCommit, Step, change_phase, Acquire, AfterAcquire,
        AcqRel, PC, PhaseCode
  <1>2. CallInv'
    BY DEF Inv, TypeOK, CallInv, InTransition, Looking, ToReadCommit, Step, change_phase
  <1>3. PhaseInv'
    BY DEF Inv, TypeOK, PhaseInv, InTransition, ToReadCommit, Step, change_phase,
        InTransit
  <1>4. AloneInv'
    BY DEF Inv, TypeOK, AloneInv, PhaseInv, InTransition, Looking, ToReadCommit,
        Step, change_phase
  <1>5. SyncInv'
    BY DEF Inv, TypeOK, SyncInv, PhaseInv, AloneInv, ReadersSeeSetup, InTransition,
        ToReadCommit, Step, change_phase, Acquire, AfterAcquire, AcqRel, Looking
  <1>6. QED BY <1>1, <1>2, <1>3, <1>4, <1>5 DEF Inv

\* A step of ToCleanupBegin preserves the invariant.
LEMMA ToCleanupBeginInv == ASSUME Inv, NEW t \in Threads, ToCleanupBegin(t) PROVE Inv'
  <1>1. TypeOK'
    BY DEF Inv, TypeOK, ToCleanupBegin, Enter, AcqRel, AfterAcquire, Via, PC,
        Method, PhaseCode
  <1>2. CallInv'
    BY DEF Inv, TypeOK, CallInv, InTransition, Looking, ToCleanupBegin, Enter
  <1>3. PhaseInv'
    BY DEF Inv, TypeOK, PhaseInv, InTransition, ToCleanupBegin, Enter, Via, InTransit
  <1>4. AloneInv'
    BY DEF Inv, TypeOK, AloneInv, Looking, ToCleanupBegin, Enter, Via
  <1>5. SyncInv'
    BY DEF Inv, TypeOK, SyncInv, PhaseInv, ReadersSeeSetup, InTransition,
        ToCleanupBegin, Enter, AcqRel, AfterAcquire, Via, InTransit
  <1>6. QED BY <1>1, <1>2, <1>3, <1>4, <1>5 DEF Inv

\* A step of ToCleanupRefused preserves the invariant.
LEMMA ToCleanupRefusedInv == ASSUME Inv, NEW t \in Threads, ToCleanupRefused(t) PROVE Inv'
  <1>1. TypeOK'
    BY DEF Inv, TypeOK, ToCleanupRefused, Refuse, Enter, Acquire, AfterAcquire,
        ToCleanupRefusal, Err, u8_to_phase, PublicPhase, PhasedErrorKind, Result,
        PC, Method
  <1>2. CallInv'
    BY DEF Inv, TypeOK, CallInv, InTransition, Looking, ToCleanupRefused, Refuse, Enter
  <1>3. PhaseInv'
    BY DEF Inv, TypeOK, PhaseInv, InTransition, ToCleanupRefused, Refuse, Enter
  <1>4. AloneInv'
    BY DEF Inv, TypeOK, AloneInv, Looking, ToCleanupRefused, Refuse, Enter
  <1>5. SyncInv'
    BY DEF Inv, TypeOK, SyncInv, ReadersSeeSetup, InTransition, ToCleanupRefused,
        Refuse, Enter, Acquire, AfterAcquire
  <1>6. QED BY <1>1, <1>2, <1>3, <1>4, <1>5 DEF Inv

\* A step of ToCleanupRun preserves the invariant.
LEMMA ToCleanupRunInv == ASSUME Inv, NEW t \in Threads, ToCleanupRun(t) PROVE Inv'
  <1>1. TypeOK'
    <2>1. {Ok, Panic, Err(PHASE_CLEANUP, "FailToRunClosureDuringTransitionToCleanup")} \subseteq Result
      BY DEF Err, u8_to_phase, PublicPhase, PhasedErrorKind, Result
    <2>2. res' \in [Threads -> Result]
      BY <2>1 DEF Inv, TypeOK, ToCleanupRun
    <2>3. QED
      BY <2>2 DEF Inv, TypeOK, ToCleanupRun, Step, Write, PC
  <1>2. CallInv'
    BY DEF Inv, TypeOK, CallInv, InTransition, Looking, ToCleanupRun, Step
  <1>3. PhaseInv'
    BY DEF Inv, TypeOK, PhaseInv, InTransition, ToCleanupRun, Step
  <1>4. AloneInv'
    BY DEF Inv, TypeOK, AloneInv, Looking, ToCleanupRun, Step
  <1>5. SyncInv'
    BY DEF Inv, TypeOK, SyncInv, PhaseInv, CallInv, AloneInv, ReadersSeeSetup,
        InTransition, ToCleanupRun, Step, Write, Via, InTransit
  <1>6. QED BY <1>1, <1>2, <1>3, <1>4, <1>5 DEF Inv

\* A step of ToCleanupCommit preserves the invariant.
LEMMA ToCleanupCommitInv == ASSUME Inv, NEW t \in Threads, ToCleanupCommit(t) PROVE Inv'
  <1>1. TypeOK'
    BY DEF Inv, TypeOK, ToCleanupCommit, Step, change_phase, Acquire, AfterAcquire,
        AcqRel, PC, PhaseCode
  <1>2. CallInv'
    BY DEF Inv, TypeOK, CallInv, InTransition, Looking, ToCleanupCommit, Step,
        change_phase
  <1>3. PhaseInv'
    BY DEF Inv, TypeOK, PhaseInv, InTransition, ToCleanupCommit, Step, change_phase,
        InTransit
  <1>4. AloneInv'
    BY DEF Inv, TypeOK, AloneInv, Looking, ToCleanupCommit, Step, change_phase
  <1>5. SyncInv'
    BY DEF Inv, TypeOK, SyncInv, PhaseInv, ReadersSeeSetup, InTransition,
        ToCleanupCommit, Step, change_phase, Acquire, AfterAcquire, AcqRel
  <1>6. QED BY <1>1, <1>2, <1>3, <1>4, <1>5 DEF Inv

\* A step of ReadBegin preserves the invariant.
LEMMA ReadBeginInv == ASSUME Inv, NEW t \in Threads, ReadBegin(t) PROVE Inv'
  <1>1. TypeOK'
    BY DEF Inv, TypeOK, ReadBegin, Enter, Acquire, AfterAcquire, PC, Method
  <1>2. CallInv'
    BY DEF Inv, TypeOK, CallInv, InTransition, Looking, ReadBegin, Enter
  <1>3. PhaseInv'
    BY DEF Inv, TypeOK, PhaseInv, InTransition, ReadBegin, Enter
  <1>4. AloneInv'
    BY DEF Inv, TypeOK, AloneInv, Looking, ReadBegin, Enter
  <1>5. SyncInv'
    BY DEF Inv, TypeOK, SyncInv, ReadersSeeSetup, InTransition, ReadBegin, Enter,
        Acquire, AfterAcquire, InTransit
  <1>6. QED BY <1>1, <1>2, <1>3, <1>4, <1>5 DEF Inv

\* A step of ReadRelaxedBegin preserves the invariant.
LEMMA ReadRelaxedBeginInv == ASSUME Inv, NEW t \in Threads, ReadRelaxedBegin(t) PROVE Inv'
  <1>1. TypeOK'
    BY DEF Inv, TypeOK, ReadRelaxedBegin, Enter, memory, PC, Method
  <1>2. CallInv'
    BY DEF Inv, TypeOK, CallInv, InTransition, Looking, ReadRelaxedBegin, Enter
  <1>3. PhaseInv'
    BY DEF Inv, TypeOK, PhaseInv, InTransition, ReadRelaxedBegin, Enter
  <1>4. AloneInv'
    BY DEF Inv, TypeOK, AloneInv, Looking, ReadRelaxedBegin, Enter
  <1>5. SyncInv'
    BY DEF Inv, TypeOK, SyncInv, ReadersSeeSetup, InTransition, ReadRelaxedBegin,
        Enter, memory
  <1>6. QED BY <1>1, <1>2, <1>3, <1>4, <1>5 DEF Inv

\* A step of ReadRefused preserves the invariant.
LEMMA ReadRefusedInv == ASSUME Inv, NEW t \in Threads, ReadRefused(t) PROVE Inv'
  <1>1. TypeOK'
    BY DEF Inv, TypeOK, ReadRefused, Refuse, Enter, Acquire, AfterAcquire, memory,
        Err, u8_to_phase, PublicPhase, PhasedErrorKind, Result, PC, Method
  <1>2. CallInv'
    BY DEF Inv, TypeOK, CallInv, InTransition, Looking, ReadRefused, Refuse, Enter
  <1>3. PhaseInv'
    BY DEF Inv, TypeOK, PhaseInv, InTransition, ReadRefused, Refuse, Enter
  <1>4. AloneInv'
    BY DEF Inv, TypeOK, AloneInv, Looking, ReadRefused, Refuse, Enter
  <1>5. SyncInv'
    BY DEF Inv, TypeOK, SyncInv, ReadersSeeSetup, InTransition, ReadRefused, Refuse,
        Enter, Acquire, AfterAcquire, memory
  <1>6. QED BY <1>1, <1>2, <1>3, <1>4, <1>5 DEF Inv

\* A step of ReadLook preserves the invariant.
LEMMA ReadLookInv == ASSUME Inv, NEW t \in Threads, ReadLook(t) PROVE Inv'
  <1>1. TypeOK'
    BY DEF Inv, TypeOK, ReadLook, memory, PC, Result
  <1>2. CallInv'
    BY DEF Inv, TypeOK, CallInv, InTransition, Looking, ReadLook
  <1>3. PhaseInv'
    BY DEF Inv, TypeOK, PhaseInv, InTransition, ReadLook
  <1>4. AloneInv'
    BY DEF Inv, TypeOK, AloneInv, Looking, ReadLook
  <1>5. SyncInv'
    BY DEF Inv, TypeOK, SyncInv, ReadersSeeSetup, InTransition, ReadLook, memory
  <1>6. QED BY <1>1, <1>2, <1>3, <1>4, <1>5 DEF Inv

\* A step of ReadEnd preserves the invariant.
LEMMA ReadEndInv == ASSUME Inv, NEW t \in Threads, ReadEnd(t) PROVE Inv'
  <1>1. TypeOK'
    BY DEF Inv, TypeOK, ReadEnd, memory, PC
  <1>2. CallInv'
    BY DEF Inv, TypeOK, CallInv, InTransition, Looking, ReadEnd
  <1>3. PhaseInv'
    BY DEF Inv, TypeOK, PhaseInv, InTransition, ReadEnd
  <1>4. AloneInv'
    BY DEF Inv, TypeOK, AloneInv, Looking, ReadEnd
  <1>5. SyncInv'
    BY DEF Inv, TypeOK, SyncInv, ReadersSeeSetup, InTransition, ReadEnd, memory
  <1>6. QED BY <1>1, <1>2, <1>3, <1>4, <1>5 DEF Inv

\* A step of GetMut preserves the invariant.
LEMMA GetMutInv == ASSUME Inv, NEW t \in Threads, GetMut(t) PROVE Inv'
  <1>1. TypeOK'
    BY DEF Inv, TypeOK, GetMut, Enter, PC, Method
  <1>2. CallInv'
    BY DEF Inv, TypeOK, CallInv, InTransition, Looking, GetMut, Enter
  <1>3. PhaseInv'
    BY DEF Inv, TypeOK, PhaseInv, InTransition, GetMut, Enter
  <1>4. AloneInv'
    BY DEF Inv, TypeOK, AloneInv, Looking, GetMut, Enter
  <1>5. SyncInv'
    BY DEF Inv, TypeOK, SyncInv, ReadersSeeSetup, InTransition, GetMut, Enter
  <1>6. QED BY <1>1, <1>2, <1>3, <1>4, <1>5 DEF Inv

\* A step of GetMutRefused preserves the invariant.
LEMMA GetMutRefusedInv == ASSUME Inv, NEW t \in Threads, GetMutRefused(t) PROVE Inv'
  <1>1. TypeOK'
    BY DEF Inv, TypeOK, GetMutRefused, Refuse, Enter, Acquire, AfterAcquire,
        LockRefusal, Err, u8_to_phase, PublicPhase, PhasedErrorKind, Result, PC,
        Method
  <1>2. CallInv'
    BY DEF Inv, TypeOK, CallInv, InTransition, Looking, GetMutRefused, Refuse, Enter
  <1>3. PhaseInv'
    BY DEF Inv, TypeOK, PhaseInv, InTransition, GetMutRefused, Refuse, Enter
  <1>4. AloneInv'
    BY DEF Inv, TypeOK, AloneInv, Looking, GetMutRefused, Refuse, Enter
  <1>5. SyncInv'
    BY DEF Inv, TypeOK, SyncInv, ReadersSeeSetup, InTransition, GetMutRefused,
        Refuse, Enter, Acquire, AfterAcquire
  <1>6. QED BY <1>1, <1>2, <1>3, <1>4, <1>5 DEF Inv

\* A step of GetMutEnd preserves the invariant.
LEMMA GetMutEndInv == ASSUME Inv, NEW t \in Threads, GetMutEnd(t) PROVE Inv'
  <1>1. TypeOK'
    BY DEF Inv, TypeOK, GetMutEnd, Step, PC
  <1>2. CallInv'
    BY DEF Inv, TypeOK, CallInv, InTransition, Looking, GetMutEnd, Step
  <1>3. PhaseInv'
    BY DEF Inv, TypeOK, PhaseInv, InTransition, GetMutEnd, Step
  <1>4. AloneInv'
    BY DEF Inv, TypeOK, AloneInv, Looking, GetMutEnd, Step
  <1>5. SyncInv'
    BY DEF Inv, TypeOK, SyncInv, ReadersSeeSetup, InTransition, GetMutEnd, Step
  <1>6. QED BY <1>1, <1>2, <1>3, <1>4, <1>5 DEF Inv

\* A step of phase_acquire preserves the invariant.
LEMMA phase_acquireInv == ASSUME Inv, NEW t \in Threads, phase_acquire(t) PROVE Inv'
  <1>1. TypeOK'
    BY DEF Inv, TypeOK, phase_acquire, Acquire, AfterAcquire
  <1>2. CallInv'
    BY DEF Inv, TypeOK, CallInv, InTransition, Looking, phase_acquire
  <1>3. PhaseInv'
    BY DEF Inv, TypeOK, PhaseInv, InTransition, phase_acquire
  <1>4. AloneInv'
    BY DEF Inv, TypeOK, AloneInv, Looking, phase_acquire
  <1>5. SyncInv'
    BY DEF Inv, TypeOK, SyncInv, ReadersSeeSetup, InTransition, phase_acquire,
        Acquire, AfterAcquire
  <1>6. QED BY <1>1, <1>2, <1>3, <1>4, <1>5 DEF Inv

\* A step of Return preserves the invariant.
LEMMA ReturnInv == ASSUME Inv, NEW t \in Threads, Return(t) PROVE Inv'
  <1>1. TypeOK'
    BY DEF Inv, TypeOK, Return, memory, PC, Method, PhaseCode, Result
  <1>2. CallInv'
    BY DEF Inv, TypeOK, CallInv, InTransition, Looking, Return
  <1>3. PhaseInv'
    BY DEF Inv, TypeOK, PhaseInv, InTransition, Return
  <1>4. AloneInv'
    BY DEF Inv, TypeOK, AloneInv, Looking, Return
  <1>5. SyncInv'
    BY DEF Inv, TypeOK, SyncInv, ReadersSeeSetup, InTransition, Return, memory
  <1>6. QED BY <1>1, <1>2, <1>3, <1>4, <1>5 DEF Inv

\* Every step of the cell preserves the invariant.
LEMMA NextInv == Inv /\ [PhasedCellNext]_vars => Inv'
  <1> SUFFICES ASSUME Inv, [PhasedCellNext]_vars PROVE Inv'
    OBVIOUS
  <1>1. ASSUME NEW t \in Threads, transition_to_read(t) PROVE Inv'
    BY <1>1, ToReadBeginInv, ToReadRefusedInv, ToReadRunInv, ToReadCommitInv
    DEF transition_to_read
  <1>2. ASSUME NEW t \in Threads, transition_to_cleanup(t) PROVE Inv'
    BY <1>2, ToCleanupBeginInv, ToCleanupRefusedInv, ToCleanupRunInv, ToCleanupCommitInv
    DEF transition_to_cleanup
  <1>3. ASSUME NEW t \in Threads, read(t) \/ read_relaxed(t) \/ ReadEnd(t) PROVE Inv'
    BY <1>3, ReadBeginInv, ReadRelaxedBeginInv, ReadRefusedInv, ReadLookInv, ReadEndInv
    DEF read, read_relaxed
  <1>4. ASSUME NEW t \in Threads, get_mut_unlocked(t) PROVE Inv'
    BY <1>4, GetMutInv, GetMutRefusedInv, GetMutEndInv DEF get_mut_unlocked
  <1>5. ASSUME NEW t \in Threads, phase_acquire(t) \/ Return(t) PROVE Inv'
    BY <1>5, phase_acquireInv, ReturnInv
  <1>6. CASE UNCHANGED vars
    BY <1>6 DEF vars, Inv, TypeOK, CallInv, PhaseInv, AloneInv, SyncInv, ReadersSeeSetup,
       InTransition, Looking
  <1>7. QED BY <1>1, <1>2, <1>3, <1>4, <1>5, <1>6 DEF PhasedCellNext

\* The invariant holds in every reachable state.
THEOREM Invariance == PhasedCellSpec => []Inv
  BY InitInv, NextInv, PTL DEF PhasedCellSpec

-----------------------------------------------------------------------------
(* Safety properties *)

\* Every variable keeps to its type.
THEOREM TypeCorrect == PhasedCellSpec => []TypeOK
  <1>1. Inv => TypeOK BY DEF Inv
  <1>2. QED BY <1>1, Invariance, PTL

\* Closures never overlap each other or an exclusive use: the phase alone sees to it.
THEOREM ExclusiveAccess == PhasedCellSpec => []ExclusiveMut
  <1>1. Inv => ExclusiveMut
    BY DEF Inv, PhaseInv, AloneInv, ExclusiveMut, Mutating, InTransition
  <1>2. QED BY <1>1, Invariance, PTL

\* Who changes the data happens after every earlier change.
THEOREM MutatorsSeeAll == PhasedCellSpec => []MutatorSeesAll
  <1>1. Inv => MutatorSeesAll
    BY DEF Inv, SyncInv, MutatorSeesAll, Mutating, InTransition
  <1>2. QED BY <1>1, Invariance, PTL

\* While the cell is in Read, every caller of read happens after all of Setup.
THEOREM ReadersAreSynced == PhasedCellSpec => []ReadersSeeSetup
  <1>1. Inv => ReadersSeeSetup BY DEF Inv, SyncInv
  <1>2. QED BY <1>1, Invariance, PTL

-----------------------------------------------------------------------------
(* Refinement of the abstract lifecycle *)

\* The one thread in its transition is the owner.
LEMMA OwnerIs ==
  ASSUME Inv, NEW t \in Threads, InTransition(t) PROVE TransitionOwner = t
  BY DEF Inv, PhaseInv, TransitionOwner

\* A step that moves nobody into or out of a transition keeps its owner.
LEMMA OwnerKept ==
  ASSUME Inv, Inv', \A t \in Threads : InTransition(t)' <=> InTransition(t)
  PROVE  TransitionOwner' = TransitionOwner
  <1>1. CASE \E t \in Threads : InTransition(t)
    <2>1. PICK t \in Threads : InTransition(t) BY <1>1
    <2>2. TransitionOwner = t BY <2>1, OwnerIs
    <2>3. TransitionOwner' = t BY <2>1 DEF Inv, PhaseInv, TransitionOwner
    <2>4. QED BY <2>2, <2>3
  <1>2. CASE ~\E t \in Threads : InTransition(t)
    BY <1>2 DEF TransitionOwner
  <1>3. QED BY <1>1, <1>2

\* Opening a transition is the abstract BeginRead or BeginCleanup.
LEMMA BeginMaps ==
  ASSUME Inv, Inv', NEW t \in Threads, ToReadBegin(t) \/ ToCleanupBegin(t)
  PROVE  L!LifecycleNext
  <1>1. InTransition(t)'
    BY DEF Inv, TypeOK, ToReadBegin, ToCleanupBegin, Enter, InTransition
  <1>2. TransitionOwner' = t
    BY <1>1 DEF Inv, PhaseInv, TransitionOwner
  <1>3. L!BeginRead(t) \/ L!BeginCleanup(t)
    BY <1>2 DEF ToReadBegin, ToCleanupBegin, L!BeginRead, L!BeginCleanup, Via, L!Via,
       L!PHASE_SETUP, L!PHASE_READ, L!PHASE_SETUP_TO_READ, L!PHASE_READ_TO_CLEANUP,
       L!PHASE_SETUP_TO_CLEANUP
  <1>4. QED BY <1>3 DEF L!LifecycleNext

\* Publishing its outcome is the abstract EndRead or EndCleanup.
LEMMA CommitMaps ==
  ASSUME Inv, NEW t \in Threads, ToReadCommit(t) \/ ToCleanupCommit(t)
  PROVE  L!LifecycleNext
  <1>1. InTransition(t)
    BY DEF ToReadCommit, ToCleanupCommit, Step, InTransition
  <1>2. TransitionOwner = t
    BY <1>1, OwnerIs
  <1>3. \A u \in Threads : ~InTransition(u)'
    BY <1>1 DEF Inv, TypeOK, PhaseInv, ToReadCommit, ToCleanupCommit, Step, InTransition
  <1>4. TransitionOwner' = Nobody
    BY <1>3 DEF TransitionOwner
  <1>5. CASE ToReadCommit(t)
    <2>1. L!EndRead(t)
      BY <1>1, <1>2, <1>4, <1>5
      DEF Inv, PhaseInv, ToReadCommit, Step, change_phase, L!EndRead, L!PHASE_SETUP,
          L!PHASE_READ, L!PHASE_SETUP_TO_READ
    <2>2. QED BY <2>1 DEF L!LifecycleNext
  <1>6. CASE ToCleanupCommit(t)
    <2>1. L!EndCleanup(t)
      BY <1>1, <1>2, <1>4, <1>6
      DEF Inv, PhaseInv, ToCleanupCommit, Step, change_phase, Via, L!EndCleanup,
          L!PHASE_CLEANUP, L!PHASE_READ_TO_CLEANUP, L!PHASE_SETUP_TO_CLEANUP
    <2>2. QED BY <2>1 DEF L!LifecycleNext
  <1>7. QED BY <1>5, <1>6

\* Everything else stutters.
LEMMA OthersStutter ==
  ASSUME Inv, Inv', NEW t \in Threads,
         \/ ToReadRefused(t) \/ ToReadRun(t) \/ ToCleanupRefused(t) \/ ToCleanupRun(t)
         \/ read(t) \/ read_relaxed(t) \/ ReadEnd(t)
         \/ get_mut_unlocked(t) \/ phase_acquire(t) \/ Return(t)
  PROVE  UNCHANGED L!lifecycleVars
  <1>1. phase' = phase
    BY DEF ToReadRefused, ToReadRun, ToCleanupRefused, ToCleanupRun, read, read_relaxed,
       ReadBegin, ReadRelaxedBegin, ReadRefused, ReadLook, ReadEnd, get_mut_unlocked, GetMut,
       GetMutRefused, GetMutEnd, phase_acquire, Return, Refuse
  <1>2. ASSUME NEW u \in Threads PROVE InTransition(u)' <=> InTransition(u)
    BY DEF Inv, TypeOK, InTransition, ToReadRefused, ToReadRun, ToCleanupRefused,
       ToCleanupRun, read, read_relaxed, ReadBegin, ReadRelaxedBegin, ReadRefused, ReadLook,
       ReadEnd, get_mut_unlocked, GetMut, GetMutRefused, GetMutEnd, phase_acquire, Return,
       Refuse, Enter, Step
  <1>3. QED BY <1>1, <1>2, OwnerKept DEF L!lifecycleVars

\* PhasedCell implements Lifecycle with no lock at all.
THEOREM RefinesLifecycle == PhasedCellSpec => ImplementsLifecycle
  <1>1. PhasedCellInit => L!LifecycleInit
    BY DEF PhasedCellInit, L!LifecycleInit, L!PHASE_SETUP, TransitionOwner, InTransition
  <1>2. Inv /\ Inv' /\ [PhasedCellNext]_vars => [L!LifecycleNext]_(L!lifecycleVars)
    <2> SUFFICES ASSUME Inv, Inv', [PhasedCellNext]_vars
                 PROVE  L!LifecycleNext \/ UNCHANGED L!lifecycleVars
      OBVIOUS
    <2>1. CASE UNCHANGED vars
      BY <2>1 DEF vars, L!lifecycleVars, TransitionOwner, InTransition
    <2>2. ASSUME NEW t \in Threads,
                 \/ transition_to_read(t) \/ transition_to_cleanup(t)
                 \/ read(t) \/ read_relaxed(t) \/ ReadEnd(t)
                 \/ get_mut_unlocked(t) \/ phase_acquire(t) \/ Return(t)
          PROVE  L!LifecycleNext \/ UNCHANGED L!lifecycleVars
      BY <2>2, BeginMaps, CommitMaps, OthersStutter
      DEF transition_to_read, transition_to_cleanup
    <2>3. QED BY <2>1, <2>2 DEF PhasedCellNext
  <1>3. QED
    BY <1>1, <1>2, Invariance, PTL DEF PhasedCellSpec, ImplementsLifecycle, L!LifecycleSpec

-----------------------------------------------------------------------------
(* What the cell inherits from the lifecycle *)

LP == INSTANCE LifecycleProofs WITH owner <- TransitionOwner

\* The two instances of Lifecycle are the same.
LEMMA SameLifecycle ==
  /\ L!LifecycleInit <=> LP!LifecycleInit
  /\ [L!LifecycleNext]_(L!lifecycleVars) <=> [LP!LifecycleNext]_(LP!lifecycleVars)
  BY DEF L!LifecycleInit, L!LifecycleNext, L!lifecycleVars, L!BeginRead, L!BeginCleanup,
     L!EndRead, L!EndCleanup, L!Via, L!PHASE_SETUP, L!PHASE_READ, L!PHASE_CLEANUP,
     L!PHASE_SETUP_TO_READ, L!PHASE_READ_TO_CLEANUP, L!PHASE_SETUP_TO_CLEANUP,
     LP!LifecycleInit, LP!LifecycleNext, LP!lifecycleVars, LP!BeginRead, LP!BeginCleanup,
     LP!EndRead, LP!EndCleanup, LP!Via, LP!PHASE_SETUP, LP!PHASE_READ, LP!PHASE_CLEANUP,
     LP!PHASE_SETUP_TO_READ, LP!PHASE_READ_TO_CLEANUP, LP!PHASE_SETUP_TO_CLEANUP

\* Without a lock, too, the phase only moves along the edges of the lifecycle, what `phase()`
\* shows never goes back, and no thread closes a transition that another has opened.
THEOREM KeepsToTheLifecycle ==
  PhasedCellSpec => LP!FollowsTheGraph /\ LP!NeverGoesBack /\ LP!NeverTakenOver
  <1>1. PhasedCellSpec => LP!LifecycleSpec
    BY RefinesLifecycle, SameLifecycle, PTL
    DEF ImplementsLifecycle, L!LifecycleSpec, LP!LifecycleSpec
  <1>2. QED
    BY <1>1, LP!OwnersMayStay, LP!PhaseFollowsTheGraph, LP!PhaseNeverGoesBack,
       LP!OwnersAreKept, PTL
-----------------------------------------------------------------------------
(* Results and readers *)

\* How the result of t's call comes about, from the closure to the return.
AnswerAt(t) ==
    /\ pc[t] \in {"idle", "exclusive"} => res[t].kind = "None"
    /\ pc[t] = "commit" => res[t].kind \in
          {"Ok", "Panic", "FailToRunClosureDuringTransitionToRead",
           "FailToRunClosureDuringTransitionToCleanup"}
    /\ pc[t] = "reading" => res[t].kind = "Ok"
    /\ pc[t] = "ret" => Truthful(t)

AnswerInv == \A t \in Threads : AnswerAt(t)

\* Which codes have reached Read, and which Cleanup.
LEMMA ReachedCodes ==
  ASSUME NEW c \in PhaseCode
  PROVE  /\ Rank(u8_to_phase(c)) >= 1
              <=> c \in {"READ", "CLEANUP", "READ_TO_CLEANUP", "SETUP_TO_CLEANUP"}
         /\ Rank(u8_to_phase(c)) >= 2
              <=> c \in {"CLEANUP", "READ_TO_CLEANUP", "SETUP_TO_CLEANUP"}
  <1>1. CASE c \in {"SETUP", "SETUP_TO_READ"}
    BY <1>1 DEF Rank, u8_to_phase
  <1>2. CASE c = "READ"
    BY <1>2 DEF Rank, u8_to_phase
  <1>3. CASE c \in {"CLEANUP", "READ_TO_CLEANUP", "SETUP_TO_CLEANUP"}
    BY <1>3 DEF Rank, u8_to_phase
  <1>4. QED BY <1>1, <1>2, <1>3 DEF PhaseCode

\* A thread that takes no step keeps its answer: what it says stays true along the lifecycle.
LEMMA OthersAnswer ==
  ASSUME TypeOK, TypeOK', [phase' \in LP!Successor(phase)]_phase, NEW u \in Threads,
         pc'[u] = pc[u], call'[u] = call[u], res'[u] = res[u], AnswerAt(u)
  PROVE  AnswerAt(u)'
  <1>1. /\ phase = PHASE_CLEANUP => phase' = PHASE_CLEANUP
        /\ phase \in {"CLEANUP", "READ_TO_CLEANUP", "SETUP_TO_CLEANUP"}
             => phase' \in {"CLEANUP", "READ_TO_CLEANUP", "SETUP_TO_CLEANUP"}
        /\ phase = "READ" => phase' \in {"READ", "READ_TO_CLEANUP"}
    BY DEF LP!Successor, LP!PHASE_SETUP, LP!PHASE_READ, LP!PHASE_CLEANUP,
       LP!PHASE_SETUP_TO_READ, LP!PHASE_READ_TO_CLEANUP, LP!PHASE_SETUP_TO_CLEANUP
  <1>2. (Reached(1) => Reached(1)') /\ (Reached(2) => Reached(2)')
    BY <1>1, ReachedCodes DEF TypeOK, Reached
  <1>3. Truthful(u) => Truthful(u)'
    BY <1>1, <1>2 DEF Truthful
  <1>4. QED BY <1>3 DEF AnswerAt

\* What a refused transition, or get_mut_unlocked, says is so when it is said.
LEMMA RefusalsAreTrue ==
  ASSUME Inv, NEW t \in Threads, UNCHANGED phase, pc'[t] = "ret",
         \/ /\ phase # PHASE_SETUP
            /\ call'[t] = "transition_to_read" /\ res'[t] = ToReadRefusal(phase)
         \/ /\ phase \notin {PHASE_SETUP, PHASE_READ}
            /\ call'[t] = "transition_to_cleanup" /\ res'[t] = ToCleanupRefusal(phase)
         \/ /\ phase \notin {PHASE_SETUP, PHASE_CLEANUP}
            /\ call'[t] = "get_mut_unlocked" /\ res'[t] = LockRefusal(phase)
  PROVE  AnswerAt(t)'
  <1>1. phase \in PhaseCode
    BY DEF Inv, TypeOK
  <1>2. Truthful(t)'
    BY <1>1, ReachedCodes
    DEF Truthful, Reached, ToReadRefusal, ToCleanupRefusal, LockRefusal, Err, PhaseCode
  <1>3. QED BY <1>2 DEF AnswerAt

\* What the two transitions tell their caller.
LEMMA TransitionAnswers ==
  ASSUME Inv, AnswerInv, NEW t \in Threads, transition_to_read(t) \/ transition_to_cleanup(t)
  PROVE  AnswerAt(t)'
  <1>1. CASE ToReadBegin(t) \/ ToCleanupBegin(t)
    BY <1>1 DEF Inv, TypeOK, AnswerAt, ToReadBegin, ToCleanupBegin, Enter
  <1>2. CASE ToReadRefused(t) \/ ToCleanupRefused(t)
    BY <1>2, RefusalsAreTrue DEF Inv, TypeOK, ToReadRefused, ToCleanupRefused, Refuse, Enter
  <1>3. CASE ToReadRun(t) \/ ToCleanupRun(t)
    BY <1>3 DEF Inv, TypeOK, AnswerAt, ToReadRun, ToCleanupRun, Step, Ok, Panic, Err
  <1>4. CASE ToReadCommit(t)
    <2>1. /\ pc[t] = "commit" /\ pc'[t] = "ret"
          /\ call'[t] = "transition_to_read" /\ res'[t] = res[t]
      BY <1>4 DEF Inv, TypeOK, ToReadCommit, Step
    <2>2. phase = PHASE_SETUP_TO_READ
      BY <1>4 DEF Inv, PhaseInv, InTransition, ToReadCommit, Step
    <2>3. res[t].kind = "Ok" => res[t] = Ok
      BY DEF Inv, TypeOK, Result, Ok, Panic, NoResult, PhasedErrorKind
    <2>4. res[t].kind = "Ok" => phase' = PHASE_READ
      BY <1>4, <2>2, <2>3 DEF ToReadCommit, change_phase
    <2>5. Truthful(t)'
      BY <2>1, <2>4, ReachedCodes DEF AnswerInv, AnswerAt, Truthful, Reached, PhaseCode
    <2>6. QED BY <2>1, <2>5 DEF AnswerAt
  <1>5. CASE ToCleanupCommit(t)
    <2>1. /\ pc[t] = "commit" /\ pc'[t] = "ret"
          /\ call'[t] = "transition_to_cleanup" /\ res'[t] = res[t]
      BY <1>5 DEF Inv, TypeOK, ToCleanupCommit, Step
    <2>2. phase = Via(old[t])
      BY <1>5 DEF Inv, PhaseInv, InTransition, ToCleanupCommit, Step
    <2>3. phase' = PHASE_CLEANUP
      BY <1>5, <2>2 DEF ToCleanupCommit, change_phase
    <2>4. Truthful(t)'
      BY <2>1, <2>3 DEF AnswerInv, AnswerAt, Truthful
    <2>5. QED BY <2>1, <2>4 DEF AnswerAt
  <1>6. QED BY <1>1, <1>2, <1>3, <1>4, <1>5 DEF transition_to_read, transition_to_cleanup

\* What the other methods tell theirs.
LEMMA OtherAnswers ==
  ASSUME Inv, AnswerInv, NEW t \in Threads,
         \/ read(t) \/ read_relaxed(t) \/ ReadEnd(t)
         \/ get_mut_unlocked(t) \/ phase_acquire(t) \/ Return(t)
  PROVE  AnswerAt(t)'
  <1>1. CASE ReadBegin(t) \/ ReadRelaxedBegin(t)
    BY <1>1 DEF Inv, TypeOK, AnswerAt, ReadBegin, ReadRelaxedBegin, Enter
  <1>2. CASE ReadRefused(t)
    BY <1>2 DEF Inv, TypeOK, AnswerAt, Truthful, ReadRefused, Refuse, Enter, Err
  <1>3. CASE ReadLook(t)
    BY <1>3 DEF Inv, TypeOK, AnswerAt, ReadLook, Ok
  <1>4. CASE ReadEnd(t)
    BY <1>4 DEF Inv, TypeOK, CallInv, Looking, AnswerInv, AnswerAt, Truthful, ReadEnd
  <1>5. CASE GetMut(t)
    BY <1>5 DEF Inv, TypeOK, AnswerInv, AnswerAt, GetMut, Enter
  <1>6. CASE GetMutRefused(t)
    BY <1>6, RefusalsAreTrue DEF Inv, TypeOK, GetMutRefused, Refuse, Enter
  <1>7. CASE GetMutEnd(t)
    BY <1>7 DEF Inv, TypeOK, AnswerInv, AnswerAt, Truthful, GetMutEnd, Step
  <1>8. CASE phase_acquire(t)
    BY <1>8 DEF Inv, TypeOK, AnswerInv, AnswerAt, phase_acquire
  <1>9. CASE Return(t)
    BY <1>9 DEF Inv, TypeOK, AnswerAt, Return, NoResult
  <1>10. QED
    BY <1>1, <1>2, <1>3, <1>4, <1>5, <1>6, <1>7, <1>8, <1>9
    DEF read, read_relaxed, get_mut_unlocked

\* A step of one thread leaves the others where they are.
LEMMA OthersStay ==
  ASSUME TypeOK, NEW t \in Threads, NEW u \in Threads \ {t},
         \/ transition_to_read(t) \/ transition_to_cleanup(t)
         \/ read(t) \/ read_relaxed(t) \/ ReadEnd(t)
         \/ get_mut_unlocked(t) \/ phase_acquire(t) \/ Return(t)
  PROVE  pc'[u] = pc[u] /\ call'[u] = call[u] /\ res'[u] = res[u]
  <1>1. CASE transition_to_read(t) \/ transition_to_cleanup(t)
    BY <1>1
    DEF TypeOK, transition_to_read, ToReadBegin, ToReadRefused, ToReadRun, ToReadCommit,
        transition_to_cleanup, ToCleanupBegin, ToCleanupRefused, ToCleanupRun,
        ToCleanupCommit, Refuse, Enter, Step
  <1>2. CASE \/ read(t) \/ read_relaxed(t) \/ ReadEnd(t)
             \/ get_mut_unlocked(t) \/ phase_acquire(t) \/ Return(t)
    BY <1>2
    DEF TypeOK, read, read_relaxed, ReadBegin, ReadRelaxedBegin, ReadRefused, ReadLook,
        ReadEnd, get_mut_unlocked, GetMut, GetMutRefused, GetMutEnd, phase_acquire, Return,
        Refuse, Enter, Step
  <1>3. QED BY <1>1, <1>2

LEMMA AnswerInvariance == PhasedCellSpec => []AnswerInv
  <1>1. PhasedCellInit => AnswerInv
    BY DEF PhasedCellInit, AnswerInv, AnswerAt, NoResult
  <1>2. /\ Inv /\ Inv' /\ AnswerInv /\ [PhasedCellNext]_vars
        /\ [phase' \in LP!Successor(phase)]_phase
        => AnswerInv'
    <2> SUFFICES ASSUME Inv, Inv', AnswerInv, [PhasedCellNext]_vars,
                        [phase' \in LP!Successor(phase)]_phase
                 PROVE  AnswerInv'
      OBVIOUS
    <2>1. CASE UNCHANGED vars
      BY <2>1, OthersAnswer DEF Inv, AnswerInv, vars
    <2>2. ASSUME NEW t \in Threads,
                 \/ transition_to_read(t) \/ transition_to_cleanup(t)
                 \/ read(t) \/ read_relaxed(t) \/ ReadEnd(t)
                 \/ get_mut_unlocked(t) \/ phase_acquire(t) \/ Return(t)
          PROVE  AnswerInv'
      <3>1. AnswerAt(t)'
        BY <2>2, TransitionAnswers, OtherAnswers
      <3>2. \A u \in Threads \ {t} : AnswerAt(u)'
        BY <2>2, OthersStay, OthersAnswer DEF Inv, AnswerInv
      <3>3. QED BY <3>1, <3>2 DEF AnswerInv
    <2>3. QED BY <2>1, <2>2 DEF PhasedCellNext
  <1>3. QED
    BY <1>1, <1>2, Invariance, KeepsToTheLifecycle, PTL
    DEF PhasedCellSpec, LP!FollowsTheGraph

\* A result is still true when its caller gets it, although nothing but the phase itself
\* keeps the cell from moving on.
THEOREM ResultsAreTruthful == PhasedCellSpec => []TruthfulResults
  <1>1. AnswerInv => TruthfulResults
    BY DEF AnswerInv, AnswerAt, TruthfulResults
  <1>2. QED BY <1>1, AnswerInvariance, PTL

\* Once the phase has left Read no reader gets in, whichever way it loads the phase.
THEOREM NoNewReaders == PhasedCellSpec => ReadersOnlyLeave
  <1>1. ASSUME Inv, phase # PHASE_READ, NEW t \in Threads, PhasedCellNext,
               pc'[t] \in {"look", "reading"}
        PROVE  pc[t] \in {"look", "reading"}
    BY <1>1
    DEF Inv, TypeOK, PhasedCellNext, transition_to_read, ToReadBegin, ToReadRefused, ToReadRun,
        ToReadCommit, transition_to_cleanup, ToCleanupBegin, ToCleanupRefused, ToCleanupRun,
        ToCleanupCommit, read, read_relaxed, ReadBegin, ReadRelaxedBegin, ReadRefused,
        ReadLook, ReadEnd, get_mut_unlocked, GetMut, GetMutRefused, GetMutEnd, phase_acquire,
        Return, Refuse, Enter, Step
  <1>2. Inv /\ [PhasedCellNext]_vars =>
          [(phase # PHASE_READ) => Readers' \subseteq Readers]_vars
    BY <1>1 DEF Readers
  <1>3. QED BY <1>2, Invariance, PTL DEF PhasedCellSpec, ReadersOnlyLeave
==============================================================================
