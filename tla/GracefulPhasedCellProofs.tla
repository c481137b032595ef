------------------------ MODULE GracefulPhasedCellProofs ------------------------
(***************************************************************************)
(* Proofs about GracefulPhasedCell, for any finite set of threads, with    *)
(* and without time-outs and misuse.                                       *)
(*                                                                         *)
(* Inv is inductive, and with it the cell implements PhasedCell.  One      *)
(* lemma per action shows both: that the step preserves Inv, and that      *)
(* through pcBar, callBar, oldBar and resBar it is a step of PhasedCell or *)
(* none.  Most steps are Quiet: no sleeper, or waker, depends on them.     *)
(***************************************************************************)
EXTENDS GracefulPhasedCell, FiniteSetTheorems, TLAPS

\* The phase codes stand for their strings everywhere below.
USE DEF PHASE_SETUP, PHASE_READ, PHASE_CLEANUP, PHASE_SETUP_TO_READ,
        PHASE_READ_TO_CLEANUP, PHASE_SETUP_TO_CLEANUP,
        Cell!PHASE_SETUP, Cell!PHASE_READ, Cell!PHASE_CLEANUP, Cell!PHASE_SETUP_TO_READ,
        Cell!PHASE_READ_TO_CLEANUP, Cell!PHASE_SETUP_TO_CLEANUP,
        W!PHASE_SETUP, W!PHASE_READ, W!PHASE_CLEANUP, W!PHASE_SETUP_TO_READ,
        W!PHASE_READ_TO_CLEANUP, W!PHASE_SETUP_TO_CLEANUP, W!Cell!PHASE_SETUP,
        P!PHASE_SETUP, P!PHASE_READ, P!PHASE_CLEANUP, P!PHASE_SETUP_TO_READ,
        P!PHASE_READ_TO_CLEANUP, P!PHASE_SETUP_TO_CLEANUP

-----------------------------------------------------------------------------
(* The instances share the results of Phase. *)

LEMMA SameErr ==
  ASSUME NEW c, NEW k
  PROVE  /\ P!Err(c, k) = Err(c, k) /\ Cell!Err(c, k) = Err(c, k) /\ W!Err(c, k) = Err(c, k)
         /\ Err(c, k).kind = k
  BY DEF P!Err, Cell!Err, W!Err, Err, P!u8_to_phase, Cell!u8_to_phase, W!u8_to_phase,
     u8_to_phase

LEMMA SameResults ==
  /\ P!Ok = Ok /\ P!Panic = Panic /\ P!NoResult = NoResult
  /\ Cell!Ok = Ok /\ Cell!Panic = Panic /\ Cell!NoResult = NoResult
  /\ W!Cell!NoResult = NoResult
  BY DEF P!Ok, P!Panic, P!NoResult, Cell!Ok, Cell!Panic, Cell!NoResult, W!Cell!NoResult, Ok,
     Panic, NoResult

\* Refusals are the same ones, and none is a time-out.
LEMMA SameRefusals ==
  ASSUME NEW c
  PROVE  /\ P!ToReadRefusal(c) = ToReadRefusal(c) /\ Cell!ToReadRefusal(c) = ToReadRefusal(c)
         /\ P!ToCleanupRefusal(c) = ToCleanupRefusal(c)
         /\ Cell!ToCleanupRefusal(c) = ToCleanupRefusal(c)
         /\ P!LockRefusal(c) = LockRefusal(c) /\ Cell!LockRefusal(c) = LockRefusal(c)
         /\ ToReadRefusal(c).kind # "GracefulWaitTimeout"
         /\ ToCleanupRefusal(c).kind # "GracefulWaitTimeout"
         /\ LockRefusal(c).kind # "GracefulWaitTimeout"
  <1>1. /\ P!ToReadRefusal(c) = ToReadRefusal(c) /\ Cell!ToReadRefusal(c) = ToReadRefusal(c)
        /\ ToReadRefusal(c).kind # "GracefulWaitTimeout"
    BY SameErr DEF P!ToReadRefusal, Cell!ToReadRefusal, ToReadRefusal
  <1>2. /\ P!ToCleanupRefusal(c) = ToCleanupRefusal(c)
        /\ Cell!ToCleanupRefusal(c) = ToCleanupRefusal(c)
        /\ ToCleanupRefusal(c).kind # "GracefulWaitTimeout"
    BY SameErr DEF P!ToCleanupRefusal, Cell!ToCleanupRefusal, ToCleanupRefusal
  <1>3. /\ P!LockRefusal(c) = LockRefusal(c) /\ Cell!LockRefusal(c) = LockRefusal(c)
        /\ LockRefusal(c).kind # "GracefulWaitTimeout"
    BY SameErr DEF P!LockRefusal, Cell!LockRefusal, LockRefusal
  <1>4. QED
    BY <1>1, <1>2, <1>3

-----------------------------------------------------------------------------
(* The other threads *)

\* A step of thread t leaves every other thread as it was, but for waking it.
Others(t) ==
    \A u \in Threads \ {t} :
        /\ call'[u] = call[u] /\ old'[u] = old[u] /\ res'[u] = res[u]
        /\ \/ pc'[u] = pc[u]
           \/ pc[u] = "asleep" /\ pc'[u] = "gate"

\* They keep to the places of their methods.
LEMMA OthersPlace ==
  ASSUME Inv, NEW t \in Threads, Others(t), PlaceAt(t)'
  PROVE  \A u \in Threads : PlaceAt(u)'
  BY DEF Inv, PlaceAt, W!Waiting, Others

\* The mapped variables are functions of the threads, before and after a step.
LEMMA BarFunctions ==
  /\ pcBar   = [u \in Threads |-> pcBar[u]]   /\ pcBar'   = [u \in Threads |-> pcBar'[u]]
  /\ callBar = [u \in Threads |-> callBar[u]] /\ callBar' = [u \in Threads |-> callBar'[u]]
  /\ oldBar  = [u \in Threads |-> oldBar[u]]  /\ oldBar'  = [u \in Threads |-> oldBar'[u]]
  /\ resBar  = [u \in Threads |-> resBar[u]]  /\ resBar'  = [u \in Threads |-> resBar'[u]]
  <1>1. pcBar = [u \in Threads |-> pcBar[u]] /\ pcBar' = [u \in Threads |-> pcBar'[u]]
    BY DEF pcBar
  <1>2. callBar = [u \in Threads |-> callBar[u]] /\ callBar' = [u \in Threads |-> callBar'[u]]
    BY DEF callBar
  <1>3. oldBar = [u \in Threads |-> oldBar[u]] /\ oldBar' = [u \in Threads |-> oldBar'[u]]
    BY DEF oldBar
  <1>4. resBar = [u \in Threads |-> resBar[u]] /\ resBar' = [u \in Threads |-> resBar'[u]]
    BY DEF resBar
  <1>5. QED
    BY <1>1, <1>2, <1>3, <1>4

\* Seen through the mapping, only t has moved.
LEMMA OthersShow ==
  ASSUME Inv, NEW t \in Threads, Others(t)
  PROVE  /\ pcBar'   = [pcBar   EXCEPT ![t] = pcBar'[t]]
         /\ callBar' = [callBar EXCEPT ![t] = callBar'[t]]
         /\ oldBar'  = [oldBar  EXCEPT ![t] = oldBar'[t]]
         /\ resBar'  = [resBar  EXCEPT ![t] = resBar'[t]]
         /\ callBar'[t] = callBar[t] => callBar' = callBar
         /\ oldBar'[t] = oldBar[t] => oldBar' = oldBar
         /\ resBar'[t] = resBar[t] => resBar' = resBar
  <1>1. \A u \in Threads \ {t} : pcBar'[u] = pcBar[u]
    BY DEF Inv, PlaceAt, W!Waiting, SeenIdle, Others, pcBar
  <1>2. \A u \in Threads \ {t} : callBar'[u] = callBar[u] /\ oldBar'[u] = oldBar[u]
    BY <1>1 DEF Others, callBar, oldBar
  <1>3. \A u \in Threads \ {t} : resBar'[u] = resBar[u]
    BY DEF Others, resBar
  <1>4. pcBar' = [pcBar EXCEPT ![t] = pcBar'[t]]
    BY <1>1, BarFunctions
  <1>5. /\ callBar' = [callBar EXCEPT ![t] = callBar'[t]]
        /\ callBar'[t] = callBar[t] => callBar' = callBar
    BY <1>2, BarFunctions
  <1>6. /\ oldBar' = [oldBar EXCEPT ![t] = oldBar'[t]]
        /\ oldBar'[t] = oldBar[t] => oldBar' = oldBar
    BY <1>2, BarFunctions
  <1>7. /\ resBar' = [resBar EXCEPT ![t] = resBar'[t]]
        /\ resBar'[t] = resBar[t] => resBar' = resBar
    BY <1>3, BarFunctions
  <1>8. QED
    BY <1>4, <1>5, <1>6, <1>7

\* A step after which t, too, is seen where it was.
LEMMA NoMove ==
  ASSUME Inv, NEW t \in Threads, Others(t),
         pcBar'[t] = pcBar[t], callBar'[t] = callBar[t], oldBar'[t] = oldBar[t],
         resBar'[t] = resBar[t]
  PROVE  UNCHANGED <<pcBar, callBar, oldBar, resBar>>
  <1>1. pcBar' = pcBar
    BY OthersShow, BarFunctions
  <1>2. QED
    BY <1>1, OthersShow

\* If it leaves the phase and the memory alone, too, it is no step of PhasedCell.
LEMMA NoStep ==
  ASSUME Inv, NEW t \in Threads, Others(t),
         pcBar'[t] = pcBar[t], callBar'[t] = callBar[t], oldBar'[t] = oldBar[t],
         resBar'[t] = resBar[t], UNCHANGED <<phase, synced, published>>
  PROVE  UNCHANGED P!vars
  BY NoMove DEF P!vars

-----------------------------------------------------------------------------
(* Quiet steps *)

\* The places that a sleeper depends on.
Watched == {"check", "wait", "asleep", "last", "notify"}

\* A step of thread t that opens, publishes, counts and notifies nothing, enters no
\* reader but in Read, and comes to the data only if nobody else has it exclusively.
Quiet(t) ==
    /\ UNCHANGED <<phase, graceful_counter, graceful_holder>>
    /\ \A u \in Threads \ {t} : pc'[u] = pc[u]
    /\ pc[t] \notin Watched /\ pc'[t] \notin Watched
    /\ pc'[t] \in {"look", "count", "reading"}
          => phase = PHASE_READ \/ pc[t] \in {"look", "count", "reading"}
    /\ InTransition(t)' => InTransition(t) /\ call'[t] = call[t] /\ old'[t] = old[t]
    /\ pc'[t] = "exclusive" => \A u \in Threads : pc[u] = "idle"
    /\ pc'[t] # "idle" /\ call'[t] # "finish_reading"
          => \A u \in Threads \ {t} : pc[u] # "exclusive"

\* A quiet step preserves the invariant.
LEMMA QuietInv ==
  ASSUME Inv, TypeOK', NEW t \in Threads, Others(t), PlaceAt(t)', Quiet(t)
  PROVE  Inv'
  <1>1. \A u \in Threads : PlaceAt(u)'
    BY OthersPlace
  <1>2. OwnerInv'
    <2>1. ASSUME NEW u \in Threads, InTransition(u)'
          PROVE  InTransition(u) /\ call'[u] = call[u] /\ old'[u] = old[u]
      BY <2>1 DEF InTransition, W!Waiting, Quiet, Others
    <2>2. phase' = phase
      BY DEF Quiet
    <2>3. QED
      BY <2>1, <2>2 DEF Inv, OwnerInv
  <1>3. SetupInv'
    BY DEF Inv, SetupInv, Quiet, Watched, Others
  <1>4. AloneInv'
    BY DEF Inv, AloneInv, Quiet, Others
  <1>5. GateInv'
    BY DEF Inv, GateInv, Quiet, Watched, Others
  <1>6. WakeInv'
    BY DEF Inv, WakeInv, Quiet, Watched, Others
  <1>7. QED
    BY <1>1, <1>2, <1>3, <1>4, <1>5, <1>6 DEF Inv

-----------------------------------------------------------------------------
(* transition_to_read *)

\* Opening a transition to Read.
LEMMA ToReadBeginStep ==
  ASSUME Inv, NEW t \in Threads, ToReadBegin(t)
  PROVE  Inv' /\ P!ToReadBegin(t)
  <1>1. TypeOK'
    BY DEF Inv, TypeOK, Cell!PC, W!GracefulPC, W!Cell!PC, Cell!Method, PhaseCode, ToReadBegin,
       Cell!ToReadBegin, Cell!Enter, Cell!AcqRel, Cell!AfterAcquire, waits
  <1>2. Others(t) /\ PlaceAt(t)'
    BY DEF Inv, TypeOK, Others, PlaceAt, W!Waiting, ToReadBegin, Cell!ToReadBegin, Cell!Enter,
       Cell!AcqRel, Cell!AfterAcquire, waits
  <1>3. \A u \in Threads : PlaceAt(u)'
    BY <1>2, OthersPlace
  <1>4. OwnerInv'
    BY DEF Inv, TypeOK, PlaceAt, OwnerInv, InTransition, W!Waiting, Via, ToReadBegin,
       Cell!ToReadBegin, Cell!Enter, Cell!AcqRel, Cell!AfterAcquire, waits
  <1>5. SetupInv'
    BY DEF Inv, TypeOK, PlaceAt, OwnerInv, SetupInv, InTransition, W!Waiting, Via, ToReadBegin,
       Cell!ToReadBegin, Cell!Enter, Cell!AcqRel, Cell!AfterAcquire, waits
  <1>6. AloneInv'
    BY DEF Inv, TypeOK, PlaceAt, AloneInv, ToReadBegin, Cell!ToReadBegin, Cell!Enter,
       Cell!AcqRel, Cell!AfterAcquire, waits
  <1>7. GateInv'
    BY W!GracefulAssumption
    DEF W!GracefulAssumption, Inv, TypeOK, GateInv, ToReadBegin, Cell!ToReadBegin, Cell!Enter,
        Cell!AcqRel, Cell!AfterAcquire, waits
  <1>8. WakeInv'
    BY W!GracefulAssumption
    DEF Inv, TypeOK, PlaceAt, OwnerInv, SetupInv, GateInv, WakeInv, InTransition, W!Waiting,
        Via, ToReadBegin, Cell!ToReadBegin, Cell!Enter, Cell!AcqRel, Cell!AfterAcquire, waits
  <1>9. Inv'
    BY <1>1, <1>3, <1>4, <1>5, <1>6, <1>7, <1>8 DEF Inv
  <1>10. /\ pcBar[t] = "idle" /\ pcBar'[t] = "run" /\ callBar'[t] = "transition_to_read"
         /\ oldBar'[t] = phase /\ resBar'[t] = resBar[t]
         /\ \A u \in Threads : pcBar[u] # "exclusive"
    BY DEF Inv, TypeOK, PlaceAt, ToReadBegin, Cell!ToReadBegin, Cell!Enter, Cell!AcqRel,
       Cell!AfterAcquire, waits, SeenIdle, W!Waiting, pcBar, callBar, oldBar, resBar
  <1>11. QED
    BY <1>2, <1>9, <1>10, OthersShow
    DEF ToReadBegin, Cell!ToReadBegin, Cell!Enter, Cell!AcqRel, Cell!AfterAcquire, waits,
        P!ToReadBegin, P!Enter, P!AcqRel, P!AfterAcquire

\* Quiet: a refusal.
LEMMA ToReadRefusedStep ==
  ASSUME Inv, NEW t \in Threads, ToReadRefused(t)
  PROVE  Inv' /\ P!ToReadRefused(t)
  <1>1. TypeOK'
    <2>1. Cell!ToReadRefusal(phase) \in Result
      BY DEF Inv, TypeOK, PhaseCode, Cell!ToReadRefusal, Cell!Err, Cell!u8_to_phase, Result,
         PublicPhase, PhasedErrorKind
    <2>2. res' \in [Threads -> Result]
      BY <2>1
      DEF Inv, TypeOK, ToReadRefused, Cell!ToReadRefused, Cell!Refuse, Cell!Enter, Cell!Acquire,
          Cell!AfterAcquire, waits
    <2>3. QED
      BY <2>2
      DEF Inv, TypeOK, Cell!PC, W!GracefulPC, W!Cell!PC, Cell!Method, PhaseCode, ToReadRefused,
          Cell!ToReadRefused, Cell!Refuse, Cell!Enter, Cell!Acquire, Cell!AfterAcquire, waits
  <1>2. Others(t) /\ PlaceAt(t)'
    BY DEF Inv, TypeOK, Others, PlaceAt, W!Waiting, ToReadRefused, Cell!ToReadRefused,
       Cell!Refuse, Cell!Enter, Cell!Acquire, Cell!AfterAcquire, waits
  <1>3. Quiet(t)
    BY DEF Inv, TypeOK, PlaceAt, AloneInv, Quiet, Watched, InTransition, W!Waiting,
       ToReadRefused, Cell!ToReadRefused, Cell!Refuse, Cell!Enter, Cell!Acquire,
       Cell!AfterAcquire, waits
  <1>4. Inv'
    BY <1>1, <1>2, <1>3, QuietInv
  <1>5. /\ pcBar[t] = "idle" /\ pcBar'[t] = "ret" /\ callBar'[t] = "transition_to_read"
        /\ oldBar'[t] = phase /\ resBar'[t] = ToReadRefusal(phase)
        /\ \A u \in Threads : pcBar[u] # "exclusive"
    BY SameRefusals
    DEF Inv, TypeOK, PlaceAt, ToReadRefused, Cell!ToReadRefused, Cell!Refuse, Cell!Enter,
        Cell!Acquire, Cell!AfterAcquire, waits, SeenIdle, W!Waiting, pcBar, callBar, oldBar,
        resBar
  <1>6. QED
    BY <1>2, <1>4, <1>5, OthersShow, SameRefusals
    DEF ToReadRefused, Cell!ToReadRefused, Cell!Refuse, Cell!Enter, Cell!Acquire,
        Cell!AfterAcquire, waits, P!ToReadRefused, P!Refuse, P!Enter, P!Acquire, P!AfterAcquire

\* Quiet: the closure of a transition to Read.
LEMMA ToReadRunStep ==
  ASSUME Inv, NEW t \in Threads, ToReadRun(t)
  PROVE  Inv' /\ P!ToReadRun(t)
  <1>1. TypeOK'
    <2>1. {Cell!Ok, Cell!Panic,
           Cell!Err(PHASE_SETUP, "FailToRunClosureDuringTransitionToRead")} \subseteq Result
      BY DEF Inv, TypeOK, PhaseCode, Cell!Ok, Ok, Cell!Panic, Panic, Cell!Err, Cell!u8_to_phase,
         Result, PublicPhase, PhasedErrorKind
    <2>2. res' \in [Threads -> Result]
      BY <2>1 DEF Inv, TypeOK, ToReadRun, Cell!ToReadRun, Cell!Step, Cell!Write, waits
    <2>3. QED
      BY <2>2
      DEF Inv, TypeOK, Cell!PC, W!GracefulPC, W!Cell!PC, Cell!Method, PhaseCode, ToReadRun,
          Cell!ToReadRun, Cell!Step, Cell!Write, waits
  <1>2. Others(t) /\ PlaceAt(t)'
    BY DEF Inv, TypeOK, Others, PlaceAt, W!Waiting, ToReadRun, Cell!ToReadRun, Cell!Step,
       Cell!Write, waits
  <1>3. Quiet(t)
    BY DEF Inv, TypeOK, PlaceAt, AloneInv, Quiet, Watched, InTransition, W!Waiting, ToReadRun,
       Cell!ToReadRun, Cell!Step, Cell!Write, waits
  <1>4. Inv'
    BY <1>1, <1>2, <1>3, QuietInv
  <1>5. /\ pcBar[t] = "run" /\ pcBar'[t] = "commit" /\ callBar[t] = "transition_to_read"
        /\ callBar'[t] = callBar[t] /\ oldBar'[t] = oldBar[t]
        /\ \E r \in {Ok, Panic, Err(PHASE_SETUP, "FailToRunClosureDuringTransitionToRead")} :
              resBar'[t] = r
    BY SameErr, SameResults
    DEF Inv, TypeOK, PlaceAt, Ok, Panic, ToReadRun, Cell!ToReadRun, Cell!Step, Cell!Write,
        waits, SeenIdle, W!Waiting, pcBar, callBar, oldBar, resBar
  <1>6. QED
    BY <1>2, <1>4, <1>5, OthersShow, SameErr, SameResults
    DEF ToReadRun, Cell!ToReadRun, Cell!Step, Cell!Write, waits, P!ToReadRun, P!Step, P!Write

\* Publishing the outcome of a transition to Read: its owner has still to notify.
LEMMA ToReadCommitStep ==
  ASSUME Inv, NEW t \in Threads, ToReadCommit(t)
  PROVE  Inv' /\ P!ToReadCommit(t)
  <1>1. TypeOK'
    BY DEF Inv, TypeOK, Cell!PC, W!GracefulPC, W!Cell!PC, Cell!Method, PhaseCode, ToReadCommit,
       Cell!Step, Cell!change_phase, Cell!AcqRel, Cell!AfterAcquire, Cell!Acquire, waits
  <1>2. Others(t) /\ PlaceAt(t)'
    BY DEF Inv, TypeOK, Others, PlaceAt, W!Waiting, ToReadCommit, Cell!Step, Cell!change_phase,
       Cell!AcqRel, Cell!AfterAcquire, Cell!Acquire, waits
  <1>3. \A u \in Threads : PlaceAt(u)'
    BY <1>2, OthersPlace
  <1>4. OwnerInv'
    BY DEF Inv, TypeOK, PlaceAt, OwnerInv, InTransition, W!Waiting, Via, ToReadCommit,
       Cell!Step, Cell!change_phase, Cell!AcqRel, Cell!AfterAcquire, Cell!Acquire, waits
  <1>5. SetupInv'
    BY DEF Inv, TypeOK, PlaceAt, OwnerInv, SetupInv, InTransition, W!Waiting, Via, ToReadCommit,
       Cell!Step, Cell!change_phase, Cell!AcqRel, Cell!AfterAcquire, Cell!Acquire, waits
  <1>6. AloneInv'
    BY DEF Inv, TypeOK, PlaceAt, AloneInv, ToReadCommit, Cell!Step, Cell!change_phase,
       Cell!AcqRel, Cell!AfterAcquire, Cell!Acquire, waits
  <1>7. GateInv'
    BY W!GracefulAssumption
    DEF W!GracefulAssumption, Inv, TypeOK, GateInv, ToReadCommit, Cell!Step, Cell!change_phase,
        Cell!AcqRel, Cell!AfterAcquire, Cell!Acquire, waits
  <1>8. WakeInv'
    BY W!GracefulAssumption
    DEF Inv, TypeOK, PlaceAt, OwnerInv, SetupInv, GateInv, WakeInv, InTransition, W!Waiting,
        Via, ToReadCommit, Cell!Step, Cell!change_phase, Cell!AcqRel, Cell!AfterAcquire,
        Cell!Acquire, waits
  <1>9. Inv'
    BY <1>1, <1>3, <1>4, <1>5, <1>6, <1>7, <1>8 DEF Inv
  <1>10. /\ pcBar[t] = "commit" /\ pcBar'[t] = "ret" /\ callBar[t] = "transition_to_read"
         /\ callBar'[t] = callBar[t] /\ oldBar'[t] = oldBar[t] /\ resBar'[t] = resBar[t]
         /\ resBar[t] = Ok <=> res[t] = Ok
    BY SameErr, SameResults
    DEF Inv, TypeOK, PlaceAt, Ok, ToReadCommit, Cell!Step, Cell!change_phase, Cell!AcqRel,
        Cell!AfterAcquire, Cell!Acquire, waits, SeenIdle, W!Waiting, pcBar, callBar, oldBar,
        resBar
  <1>11. QED
    BY <1>2, <1>9, <1>10, OthersShow, SameErr, SameResults
    DEF ToReadCommit, Cell!Step, Cell!change_phase, Cell!AcqRel, Cell!AfterAcquire,
        Cell!Acquire, waits, P!ToReadCommit, P!Step, P!change_phase, P!AcqRel, P!AfterAcquire,
        P!Acquire

\* notify_read_phase finds nobody between a test and the sleep: they hold graceful_mutex.
LEMMA notify_read_phaseStep ==
  ASSUME Inv, NEW t \in Threads, notify_read_phase(t)
  PROVE  Inv' /\ UNCHANGED P!vars
  <1>1. TypeOK'
    BY DEF Inv, TypeOK, Cell!PC, W!GracefulPC, W!Cell!PC, Cell!Method, PhaseCode,
       notify_read_phase, W!notify_read_phase, W!NotifyAll, W!Woken, W!data, W!mutex,
       W!graceful, memory
  <1>2. Others(t) /\ PlaceAt(t)'
    BY DEF Inv, TypeOK, Others, PlaceAt, W!Waiting, notify_read_phase, W!notify_read_phase,
       W!NotifyAll, W!Woken, W!data, W!mutex, W!graceful, memory
  <1>3. \A u \in Threads : PlaceAt(u)'
    BY <1>2, OthersPlace
  <1>4. OwnerInv'
    BY DEF Inv, TypeOK, PlaceAt, OwnerInv, InTransition, W!Waiting, Via, notify_read_phase,
       W!notify_read_phase, W!NotifyAll, W!Woken, W!data, W!mutex, W!graceful, memory
  <1>5. SetupInv'
    BY DEF Inv, TypeOK, PlaceAt, OwnerInv, SetupInv, InTransition, W!Waiting, Via,
       notify_read_phase, W!notify_read_phase, W!NotifyAll, W!Woken, W!data, W!mutex,
       W!graceful, memory
  <1>6. AloneInv'
    BY DEF Inv, TypeOK, PlaceAt, AloneInv, W!Waiting, notify_read_phase, W!notify_read_phase,
       W!NotifyAll, W!Woken, W!data, W!mutex, W!graceful, memory
  <1>7. GateInv'
    BY W!GracefulAssumption
    DEF W!GracefulAssumption, Inv, TypeOK, GateInv, notify_read_phase, W!notify_read_phase,
        W!NotifyAll, W!Woken, W!data, W!mutex, W!graceful, memory
  <1>8. WakeInv'
    BY W!GracefulAssumption
    DEF Inv, TypeOK, PlaceAt, OwnerInv, SetupInv, GateInv, WakeInv, InTransition, W!Waiting,
        Via, notify_read_phase, W!notify_read_phase, W!NotifyAll, W!Woken, W!data, W!mutex,
        W!graceful, memory
  <1>9. Inv'
    BY <1>1, <1>3, <1>4, <1>5, <1>6, <1>7, <1>8 DEF Inv
  <1>10. /\ pcBar'[t] = pcBar[t] /\ callBar'[t] = callBar[t] /\ oldBar'[t] = oldBar[t]
         /\ resBar'[t] = resBar[t]
    BY W!GracefulAssumption
    DEF Inv, TypeOK, PlaceAt, W!GracefulAssumption, NoMutex, notify_read_phase,
        W!notify_read_phase, W!NotifyAll, W!Woken, W!data, W!mutex, W!graceful, memory,
        SeenIdle, W!Waiting, pcBar, callBar, oldBar, resBar
  <1>11. QED
    BY <1>2, <1>9, <1>10, NoStep
    DEF notify_read_phase, W!notify_read_phase, W!NotifyAll, W!Woken, W!data, W!mutex,
        W!graceful, memory

-----------------------------------------------------------------------------
(* transition_to_cleanup *)

\* Opening a transition to Cleanup.
LEMMA ToCleanupBeginStep ==
  ASSUME Inv, NEW t \in Threads, ToCleanupBegin(t)
  PROVE  Inv' /\ P!ToCleanupBegin(t)
  <1>1. TypeOK'
    BY DEF Inv, TypeOK, Cell!PC, W!GracefulPC, W!Cell!PC, Cell!Method, PhaseCode,
       ToCleanupBegin, Cell!Enter, Cell!AcqRel, Cell!AfterAcquire, Via, waits
  <1>2. Others(t) /\ PlaceAt(t)'
    BY DEF Inv, TypeOK, Others, PlaceAt, W!Waiting, ToCleanupBegin, Cell!Enter, Cell!AcqRel,
       Cell!AfterAcquire, Via, waits
  <1>3. \A u \in Threads : PlaceAt(u)'
    BY <1>2, OthersPlace
  <1>4. OwnerInv'
    BY DEF Inv, TypeOK, PlaceAt, OwnerInv, InTransition, W!Waiting, Via, ToCleanupBegin,
       Cell!Enter, Cell!AcqRel, Cell!AfterAcquire, waits
  <1>5. SetupInv'
    BY DEF Inv, TypeOK, PlaceAt, OwnerInv, SetupInv, InTransition, W!Waiting, Via,
       ToCleanupBegin, Cell!Enter, Cell!AcqRel, Cell!AfterAcquire, waits
  <1>6. AloneInv'
    BY DEF Inv, TypeOK, PlaceAt, AloneInv, ToCleanupBegin, Cell!Enter, Cell!AcqRel,
       Cell!AfterAcquire, Via, waits
  <1>7. GateInv'
    BY W!GracefulAssumption
    DEF W!GracefulAssumption, Inv, TypeOK, GateInv, ToCleanupBegin, Cell!Enter, Cell!AcqRel,
        Cell!AfterAcquire, Via, waits
  <1>8. WakeInv'
    BY W!GracefulAssumption
    DEF Inv, TypeOK, PlaceAt, OwnerInv, SetupInv, GateInv, WakeInv, InTransition, W!Waiting,
        Via, ToCleanupBegin, Cell!Enter, Cell!AcqRel, Cell!AfterAcquire, waits
  <1>9. Inv'
    BY <1>1, <1>3, <1>4, <1>5, <1>6, <1>7, <1>8 DEF Inv
  <1>10. /\ pcBar[t] = "idle" /\ pcBar'[t] = "run" /\ callBar'[t] = "transition_to_cleanup"
         /\ oldBar'[t] = phase /\ resBar'[t] = resBar[t]
         /\ \A u \in Threads : pcBar[u] # "exclusive"
    BY DEF Inv, TypeOK, PlaceAt, ToCleanupBegin, Cell!Enter, Cell!AcqRel, Cell!AfterAcquire,
       Via, waits, SeenIdle, W!Waiting, pcBar, callBar, oldBar, resBar
  <1>11. QED
    BY <1>2, <1>9, <1>10, OthersShow
    DEF ToCleanupBegin, Cell!Enter, Cell!AcqRel, Cell!AfterAcquire, Via, waits,
        P!ToCleanupBegin, P!Enter, P!Via, P!AcqRel, P!AfterAcquire

\* Quiet: a refusal.
LEMMA ToCleanupRefusedStep ==
  ASSUME Inv, NEW t \in Threads, ToCleanupRefused(t)
  PROVE  Inv' /\ P!ToCleanupRefused(t)
  <1>1. TypeOK'
    <2>1. Cell!ToCleanupRefusal(phase) \in Result
      BY DEF Inv, TypeOK, PhaseCode, Cell!ToCleanupRefusal, Cell!Err, Cell!u8_to_phase, Result,
         PublicPhase, PhasedErrorKind
    <2>2. res' \in [Threads -> Result]
      BY <2>1
      DEF Inv, TypeOK, ToCleanupRefused, Cell!ToCleanupRefused, Cell!Refuse, Cell!Enter,
          Cell!Acquire, Cell!AfterAcquire, waits
    <2>3. QED
      BY <2>2
      DEF Inv, TypeOK, Cell!PC, W!GracefulPC, W!Cell!PC, Cell!Method, PhaseCode,
          ToCleanupRefused, Cell!ToCleanupRefused, Cell!Refuse, Cell!Enter, Cell!Acquire,
          Cell!AfterAcquire, waits
  <1>2. Others(t) /\ PlaceAt(t)'
    BY DEF Inv, TypeOK, Others, PlaceAt, W!Waiting, ToCleanupRefused, Cell!ToCleanupRefused,
       Cell!Refuse, Cell!Enter, Cell!Acquire, Cell!AfterAcquire, waits
  <1>3. Quiet(t)
    BY DEF Inv, TypeOK, PlaceAt, AloneInv, Quiet, Watched, InTransition, W!Waiting,
       ToCleanupRefused, Cell!ToCleanupRefused, Cell!Refuse, Cell!Enter, Cell!Acquire,
       Cell!AfterAcquire, waits
  <1>4. Inv'
    BY <1>1, <1>2, <1>3, QuietInv
  <1>5. /\ pcBar[t] = "idle" /\ pcBar'[t] = "ret" /\ callBar'[t] = "transition_to_cleanup"
        /\ oldBar'[t] = phase /\ resBar'[t] = ToCleanupRefusal(phase)
        /\ \A u \in Threads : pcBar[u] # "exclusive"
    BY SameRefusals
    DEF Inv, TypeOK, PlaceAt, ToCleanupRefused, Cell!ToCleanupRefused, Cell!Refuse, Cell!Enter,
        Cell!Acquire, Cell!AfterAcquire, waits, SeenIdle, W!Waiting, pcBar, callBar, oldBar,
        resBar
  <1>6. QED
    BY <1>2, <1>4, <1>5, OthersShow, SameRefusals
    DEF ToCleanupRefused, Cell!ToCleanupRefused, Cell!Refuse, Cell!Enter, Cell!Acquire,
        Cell!AfterAcquire, waits, P!ToCleanupRefused, P!Refuse, P!Enter, P!Acquire,
        P!AfterAcquire

\* A cleanup sleeps only if a reader is counted, which is so only after Read.
LEMMA CleanupCheckStep ==
  ASSUME Inv, NEW t \in Threads, CleanupCheck(t)
  PROVE  Inv' /\ UNCHANGED P!vars
  <1>1. TypeOK'
    BY DEF Inv, TypeOK, Cell!PC, W!GracefulPC, W!Cell!PC, Cell!Method, PhaseCode, CleanupCheck,
       W!CleanupTurn, W!data, W!mutex, W!graceful, memory
  <1>2. Others(t) /\ PlaceAt(t)'
    BY DEF Inv, TypeOK, Others, PlaceAt, W!Waiting, CleanupCheck, W!CleanupTurn, W!data,
       W!mutex, W!graceful, memory
  <1>3. \A u \in Threads : PlaceAt(u)'
    BY <1>2, OthersPlace
  <1>4. OwnerInv'
    BY DEF Inv, TypeOK, PlaceAt, OwnerInv, InTransition, W!Waiting, Via, CleanupCheck,
       W!CleanupTurn, W!data, W!mutex, W!graceful, memory
  <1>5. SetupInv'
    BY DEF Inv, TypeOK, PlaceAt, OwnerInv, SetupInv, InTransition, W!Waiting, Via, CleanupCheck,
       W!CleanupTurn, W!data, W!mutex, W!graceful, memory
  <1>6. AloneInv'
    BY DEF Inv, TypeOK, PlaceAt, AloneInv, CleanupCheck, W!CleanupTurn, W!data, W!mutex,
       W!graceful, memory
  <1>7. GateInv'
    BY W!GracefulAssumption
    DEF W!GracefulAssumption, Inv, TypeOK, GateInv, CleanupCheck, W!CleanupTurn, W!data,
        W!mutex, W!graceful, memory
  <1>8. WakeInv'
    BY W!GracefulAssumption
    DEF Inv, TypeOK, PlaceAt, OwnerInv, SetupInv, GateInv, WakeInv, InTransition, W!Waiting,
        Via, CleanupCheck, W!CleanupTurn, W!data, W!mutex, W!graceful, memory
  <1>9. Inv'
    BY <1>1, <1>3, <1>4, <1>5, <1>6, <1>7, <1>8 DEF Inv
  <1>10. /\ pcBar'[t] = pcBar[t] /\ callBar'[t] = callBar[t] /\ oldBar'[t] = oldBar[t]
         /\ resBar'[t] = resBar[t]
    BY DEF Inv, TypeOK, PlaceAt, CleanupCheck, W!CleanupTurn, W!data, W!mutex, W!graceful,
       memory, SeenIdle, W!Waiting, pcBar, callBar, oldBar, resBar
  <1>11. QED
    BY <1>2, <1>9, <1>10, NoStep
    DEF CleanupCheck, W!CleanupTurn, W!data, W!mutex, W!graceful, memory

\* Quiet: the closure of a cleanup.
LEMMA ToCleanupRunStep ==
  ASSUME Inv, NEW t \in Threads, ToCleanupRun(t)
  PROVE  Inv' /\ P!ToCleanupRun(t)
  <1>1. TypeOK'
    <2>1. {Cell!Ok, Cell!Panic,
           Cell!Err(PHASE_CLEANUP, "FailToRunClosureDuringTransitionToCleanup")} \subseteq Result
      BY DEF Inv, TypeOK, PhaseCode, Cell!Ok, Ok, Cell!Panic, Panic, Cell!Err, Cell!u8_to_phase,
         Result, PublicPhase, PhasedErrorKind
    <2>2. res' \in [Threads -> Result]
      BY <2>1 DEF Inv, TypeOK, ToCleanupRun, Cell!ToCleanupRun, Cell!Step, Cell!Write, waits
    <2>3. QED
      BY <2>2
      DEF Inv, TypeOK, Cell!PC, W!GracefulPC, W!Cell!PC, Cell!Method, PhaseCode, ToCleanupRun,
          Cell!ToCleanupRun, Cell!Step, Cell!Write, waits
  <1>2. Others(t) /\ PlaceAt(t)'
    BY DEF Inv, TypeOK, Others, PlaceAt, W!Waiting, ToCleanupRun, Cell!ToCleanupRun, Cell!Step,
       Cell!Write, waits
  <1>3. Quiet(t)
    BY DEF Inv, TypeOK, PlaceAt, AloneInv, Quiet, Watched, InTransition, W!Waiting,
       ToCleanupRun, Cell!ToCleanupRun, Cell!Step, Cell!Write, waits
  <1>4. Inv'
    BY <1>1, <1>2, <1>3, QuietInv
  <1>5. /\ pcBar[t] = "run" /\ pcBar'[t] = "commit" /\ callBar[t] = "transition_to_cleanup"
        /\ callBar'[t] = callBar[t] /\ oldBar'[t] = oldBar[t]
        /\ \E r \in {Ok, Panic, Err(PHASE_CLEANUP, "FailToRunClosureDuringTransitionToCleanup")} :
              resBar'[t] = r
    BY SameErr, SameResults
    DEF Inv, TypeOK, PlaceAt, Ok, Panic, ToCleanupRun, Cell!ToCleanupRun, Cell!Step, Cell!Write,
        waits, SeenIdle, W!Waiting, pcBar, callBar, oldBar, resBar
  <1>6. QED
    BY <1>2, <1>4, <1>5, OthersShow, SameErr, SameResults
    DEF ToCleanupRun, Cell!ToCleanupRun, Cell!Step, Cell!Write, waits, P!ToCleanupRun, P!Step,
        P!Write

\* Publishing the end of a cleanup.
LEMMA ToCleanupCommitStep ==
  ASSUME Inv, NEW t \in Threads, ToCleanupCommit(t)
  PROVE  Inv' /\ P!ToCleanupCommit(t)
  <1>1. TypeOK'
    BY DEF Inv, TypeOK, Cell!PC, W!GracefulPC, W!Cell!PC, Cell!Method, PhaseCode,
       ToCleanupCommit, Cell!ToCleanupCommit, Cell!Step, Cell!change_phase, Cell!AcqRel,
       Cell!AfterAcquire, Cell!Acquire, Cell!Via, waits
  <1>2. Others(t) /\ PlaceAt(t)'
    BY DEF Inv, TypeOK, Others, PlaceAt, W!Waiting, ToCleanupCommit, Cell!ToCleanupCommit,
       Cell!Step, Cell!change_phase, Cell!AcqRel, Cell!AfterAcquire, Cell!Acquire, Cell!Via,
       waits
  <1>3. \A u \in Threads : PlaceAt(u)'
    BY <1>2, OthersPlace
  <1>4. OwnerInv'
    BY DEF Inv, TypeOK, PlaceAt, OwnerInv, InTransition, W!Waiting, Via, ToCleanupCommit,
       Cell!ToCleanupCommit, Cell!Step, Cell!change_phase, Cell!AcqRel, Cell!AfterAcquire,
       Cell!Acquire, Cell!Via, waits
  <1>5. SetupInv'
    BY DEF Inv, TypeOK, PlaceAt, OwnerInv, SetupInv, InTransition, W!Waiting, Via,
       ToCleanupCommit, Cell!ToCleanupCommit, Cell!Step, Cell!change_phase, Cell!AcqRel,
       Cell!AfterAcquire, Cell!Acquire, Cell!Via, waits
  <1>6. AloneInv'
    BY DEF Inv, TypeOK, PlaceAt, AloneInv, ToCleanupCommit, Cell!ToCleanupCommit, Cell!Step,
       Cell!change_phase, Cell!AcqRel, Cell!AfterAcquire, Cell!Acquire, Cell!Via, waits
  <1>7. GateInv'
    BY W!GracefulAssumption
    DEF W!GracefulAssumption, Inv, TypeOK, GateInv, ToCleanupCommit, Cell!ToCleanupCommit,
        Cell!Step, Cell!change_phase, Cell!AcqRel, Cell!AfterAcquire, Cell!Acquire, Cell!Via,
        waits
  <1>8. WakeInv'
    BY W!GracefulAssumption
    DEF Inv, TypeOK, PlaceAt, OwnerInv, SetupInv, GateInv, WakeInv, InTransition, W!Waiting,
        Via, ToCleanupCommit, Cell!ToCleanupCommit, Cell!Step, Cell!change_phase, Cell!AcqRel,
        Cell!AfterAcquire, Cell!Acquire, Cell!Via, waits
  <1>9. Inv'
    BY <1>1, <1>3, <1>4, <1>5, <1>6, <1>7, <1>8 DEF Inv
  <1>10. /\ pcBar[t] = "commit" /\ pcBar'[t] = "ret" /\ callBar[t] = "transition_to_cleanup"
         /\ oldBar[t] = old[t] /\ callBar'[t] = callBar[t] /\ oldBar'[t] = oldBar[t]
         /\ resBar'[t] = resBar[t]
    BY DEF Inv, TypeOK, PlaceAt, ToCleanupCommit, Cell!ToCleanupCommit, Cell!Step,
       Cell!change_phase, Cell!AcqRel, Cell!AfterAcquire, Cell!Acquire, Cell!Via, waits,
       SeenIdle, W!Waiting, pcBar, callBar, oldBar, resBar
  <1>11. QED
    BY <1>2, <1>9, <1>10, OthersShow
    DEF ToCleanupCommit, Cell!ToCleanupCommit, Cell!Step, Cell!change_phase, Cell!AcqRel,
        Cell!AfterAcquire, Cell!Acquire, Cell!Via, waits, P!ToCleanupCommit, P!Step,
        P!change_phase, P!Via, P!AcqRel, P!AfterAcquire, P!Acquire

-----------------------------------------------------------------------------
(* read, read_relaxed and finish_reading *)

\* Quiet: read either goes on at once or is going to wait.
LEMMA ReadBeginStep ==
  ASSUME Inv, NEW t \in Threads, ReadBegin(t)
  PROVE  Inv' /\ (P!ReadBegin(t) \/ P!phase_acquire(t))
  <1>1. TypeOK'
    BY DEF Inv, TypeOK, Cell!PC, W!GracefulPC, W!Cell!PC, Cell!Method, PhaseCode, ReadBegin,
       Cell!Enter, Cell!Acquire, Cell!AfterAcquire, waits
  <1>2. Others(t) /\ PlaceAt(t)'
    BY DEF Inv, TypeOK, Others, PlaceAt, W!Waiting, ReadBegin, Cell!Enter, Cell!Acquire,
       Cell!AfterAcquire, waits
  <1>3. Quiet(t)
    BY DEF Inv, TypeOK, PlaceAt, AloneInv, Quiet, Watched, InTransition, W!Waiting, ReadBegin,
       Cell!Enter, Cell!Acquire, Cell!AfterAcquire, waits
  <1>4. Inv'
    BY <1>1, <1>2, <1>3, QuietInv
  <1>5. /\ pcBar[t] = "idle" /\ resBar'[t] = resBar[t]
        /\ \A u \in Threads : pcBar[u] # "exclusive"
        /\ phase = PHASE_READ =>
              pcBar'[t] = "look" /\ callBar'[t] = "read" /\ oldBar'[t] = phase
        /\ phase # PHASE_READ => /\ pcBar'[t] = pcBar[t] /\ callBar'[t] = callBar[t]
                                 /\ oldBar'[t] = oldBar[t]
    BY NoMove
    DEF Inv, TypeOK, PlaceAt, ReadBegin, Cell!Enter, Cell!Acquire, Cell!AfterAcquire, waits,
        SeenIdle, W!Waiting, pcBar, callBar, oldBar, resBar
  <1>6. QED
    BY <1>2, <1>4, <1>5, OthersShow, NoMove
    DEF ReadBegin, Cell!Enter, Cell!Acquire, Cell!AfterAcquire, waits, P!ReadBegin,
        P!phase_acquire, P!Enter, P!Acquire, P!AfterAcquire

\* Quiet: read_relaxed goes on at once.
LEMMA ReadRelaxedBeginStep ==
  ASSUME Inv, NEW t \in Threads, ReadRelaxedBegin(t)
  PROVE  Inv' /\ P!ReadRelaxedBegin(t)
  <1>1. TypeOK'
    BY DEF Inv, TypeOK, Cell!PC, W!GracefulPC, W!Cell!PC, Cell!Method, PhaseCode,
       ReadRelaxedBegin, Cell!ReadRelaxedBegin, Cell!Enter, Cell!memory, waits
  <1>2. Others(t) /\ PlaceAt(t)'
    BY DEF Inv, TypeOK, Others, PlaceAt, W!Waiting, ReadRelaxedBegin, Cell!ReadRelaxedBegin,
       Cell!Enter, Cell!memory, waits
  <1>3. Quiet(t)
    BY DEF Inv, TypeOK, PlaceAt, AloneInv, Quiet, Watched, InTransition, W!Waiting,
       ReadRelaxedBegin, Cell!ReadRelaxedBegin, Cell!Enter, Cell!memory, waits
  <1>4. Inv'
    BY <1>1, <1>2, <1>3, QuietInv
  <1>5. /\ pcBar[t] = "idle" /\ pcBar'[t] = "look" /\ callBar'[t] = "read_relaxed"
        /\ oldBar'[t] = phase /\ resBar'[t] = resBar[t]
        /\ \A u \in Threads : pcBar[u] # "exclusive"
    BY DEF Inv, TypeOK, PlaceAt, ReadRelaxedBegin, Cell!ReadRelaxedBegin, Cell!Enter,
       Cell!memory, waits, SeenIdle, W!Waiting, pcBar, callBar, oldBar, resBar
  <1>6. QED
    BY <1>2, <1>4, <1>5, OthersShow
    DEF ReadRelaxedBegin, Cell!ReadRelaxedBegin, Cell!Enter, Cell!memory, waits,
        P!ReadRelaxedBegin, P!Enter, P!memory

\* Quiet: a refusal.
LEMMA ReadRefusedStep ==
  ASSUME Inv, NEW t \in Threads, ReadRefused(t)
  PROVE  Inv' /\ P!ReadRefused(t)
  <1>1. TypeOK'
    <2>1. Cell!Err(phase, "CannotCallUnlessPhaseRead") \in Result
      BY DEF Inv, TypeOK, PhaseCode, Cell!Err, Cell!u8_to_phase, Result, PublicPhase,
         PhasedErrorKind
    <2>2. res' \in [Threads -> Result]
      BY <2>1
      DEF Inv, TypeOK, ReadRefused, Cell!ReadRefused, Cell!Refuse, Cell!Enter, Cell!Acquire,
          Cell!AfterAcquire, Cell!memory, waits
    <2>3. QED
      BY <2>2
      DEF Inv, TypeOK, Cell!PC, W!GracefulPC, W!Cell!PC, Cell!Method, PhaseCode, ReadRefused,
          Cell!ReadRefused, Cell!Refuse, Cell!Enter, Cell!Acquire, Cell!AfterAcquire,
          Cell!memory, waits
  <1>2. Others(t) /\ PlaceAt(t)'
    BY DEF Inv, TypeOK, Others, PlaceAt, W!Waiting, ReadRefused, Cell!ReadRefused, Cell!Refuse,
       Cell!Enter, Cell!Acquire, Cell!AfterAcquire, Cell!memory, waits
  <1>3. Quiet(t)
    BY DEF Inv, TypeOK, PlaceAt, AloneInv, Quiet, Watched, InTransition, W!Waiting, ReadRefused,
       Cell!ReadRefused, Cell!Refuse, Cell!Enter, Cell!Acquire, Cell!AfterAcquire, Cell!memory,
       waits
  <1>4. Inv'
    BY <1>1, <1>2, <1>3, QuietInv
  <1>5. /\ pcBar[t] = "idle" /\ pcBar'[t] = "ret" /\ oldBar'[t] = phase
        /\ resBar'[t] = Err(phase, "CannotCallUnlessPhaseRead")
        /\ \A u \in Threads : pcBar[u] # "exclusive"
        /\ \/ callBar'[t] = "read" /\ Cell!Acquire(t)
           \/ callBar'[t] = "read_relaxed" /\ UNCHANGED <<synced, published>>
        /\ phase # PHASE_READ /\ phase' = phase
    BY SameErr
    DEF Inv, TypeOK, PlaceAt, ReadRefused, Cell!ReadRefused, Cell!Refuse, Cell!Enter,
        Cell!Acquire, Cell!AfterAcquire, Cell!memory, waits, SeenIdle, W!Waiting, pcBar,
        callBar, oldBar, resBar
  <1>6. QED
    BY <1>2, <1>4, <1>5, OthersShow, SameErr
    DEF ReadRefused, Cell!ReadRefused, Cell!Refuse, Cell!Enter, Cell!Acquire, Cell!AfterAcquire,
        Cell!memory, waits, P!ReadRefused, P!Refuse, P!Enter, P!Acquire, P!AfterAcquire,
        P!memory

\* A reader sleeps only if it has found the transition in progress.
LEMMA ReadCheckStep ==
  ASSUME Inv, NEW t \in Threads, ReadCheck(t)
  PROVE  Inv' /\ (P!ReadBegin(t) \/ P!ReadRefused(t) \/ P!phase_acquire(t))
  <1>1. TypeOK'
    <2>1. {W!Err(phase, "GracefulWaitTimeout"),
           W!Err(phase, "CannotCallUnlessPhaseRead")} \subseteq Result
      BY DEF Inv, TypeOK, PhaseCode, W!Err, W!u8_to_phase, Result, PublicPhase, PhasedErrorKind
    <2>2. res' \in [Threads -> Result]
      BY <2>1
      DEF Inv, TypeOK, ReadCheck, W!ReadCheck, W!data, W!mutex, W!graceful, memory,
          Cell!Acquire, Cell!AfterAcquire
    <2>3. QED
      BY <2>2
      DEF Inv, TypeOK, Cell!PC, W!GracefulPC, W!Cell!PC, Cell!Method, PhaseCode, ReadCheck,
          W!ReadCheck, W!data, W!mutex, W!graceful, memory, Cell!Acquire, Cell!AfterAcquire
  <1>2. Others(t) /\ PlaceAt(t)'
    BY DEF Inv, TypeOK, Others, PlaceAt, W!Waiting, ReadCheck, W!ReadCheck, W!data, W!mutex,
       W!graceful, memory, Cell!Acquire, Cell!AfterAcquire
  <1>3. \A u \in Threads : PlaceAt(u)'
    BY <1>2, OthersPlace
  <1>4. OwnerInv'
    BY DEF Inv, TypeOK, PlaceAt, OwnerInv, InTransition, W!Waiting, Via, ReadCheck, W!ReadCheck,
       W!data, W!mutex, W!graceful, memory, Cell!Acquire, Cell!AfterAcquire
  <1>5. SetupInv'
    BY DEF Inv, TypeOK, PlaceAt, OwnerInv, SetupInv, InTransition, W!Waiting, Via, ReadCheck,
       W!ReadCheck, W!data, W!mutex, W!graceful, memory, Cell!Acquire, Cell!AfterAcquire
  <1>6. AloneInv'
    BY DEF Inv, TypeOK, PlaceAt, AloneInv, ReadCheck, W!ReadCheck, W!data, W!mutex, W!graceful,
       memory, Cell!Acquire, Cell!AfterAcquire
  <1>7. GateInv'
    BY W!GracefulAssumption
    DEF W!GracefulAssumption, Inv, TypeOK, GateInv, ReadCheck, W!ReadCheck, W!data, W!mutex,
        W!graceful, memory, Cell!Acquire, Cell!AfterAcquire
  <1>8. WakeInv'
    BY W!GracefulAssumption
    DEF Inv, TypeOK, PlaceAt, OwnerInv, SetupInv, GateInv, WakeInv, InTransition, W!Waiting,
        Via, ReadCheck, W!ReadCheck, W!data, W!mutex, W!graceful, memory, Cell!Acquire,
        Cell!AfterAcquire
  <1>9. Inv'
    BY <1>1, <1>3, <1>4, <1>5, <1>6, <1>7, <1>8 DEF Inv
  <1>10. /\ pcBar[t] = "idle" /\ callBar[t] = "none"
         /\ \A u \in Threads : pcBar[u] # "exclusive" /\ pc'[t] \in {"wait", "look", "ret"}
         /\ pc'[t] = "wait" =>
              /\ pcBar'[t] = pcBar[t] /\ callBar'[t] = callBar[t]
              /\ oldBar'[t] = oldBar[t] /\ resBar'[t] = resBar[t]
         /\ pc'[t] = "look" => phase = PHASE_READ /\ pcBar'[t] = "look" /\ resBar'[t] = resBar[t]
         /\ pc'[t] = "ret" =>
              /\ phase # PHASE_READ /\ pcBar'[t] = "ret"
              /\ resBar'[t] = Err(phase, "CannotCallUnlessPhaseRead")
         /\ pc'[t] \in {"look", "ret"} => callBar'[t] = "read" /\ oldBar'[t] = phase
    BY SameErr, NoMove
    DEF Inv, TypeOK, PlaceAt, AloneInv, ReadCheck, W!ReadCheck, W!data, W!mutex, W!graceful,
        memory, Cell!Acquire, Cell!AfterAcquire, SeenIdle, W!Waiting, pcBar, callBar, oldBar,
        resBar
  <1>11. QED
    BY <1>2, <1>9, <1>10, OthersShow, SameErr, NoMove
    DEF ReadCheck, W!ReadCheck, W!data, W!mutex, W!graceful, memory, Cell!Acquire,
        Cell!AfterAcquire, P!ReadBegin, P!ReadRefused, P!phase_acquire, P!Refuse, P!Enter,
        P!Acquire, P!AfterAcquire

\* Quiet: read makes its &T.
LEMMA ReadLookStep ==
  ASSUME Inv, NEW t \in Threads, ReadLook(t)
  PROVE  Inv' /\ P!ReadLook(t)
  <1>1. TypeOK'
    <2>1. Ok \in Result
      BY DEF Inv, TypeOK, PhaseCode, Ok, Result, PublicPhase, PhasedErrorKind
    <2>2. res' \in [Threads -> Result]
      BY <2>1 DEF Inv, TypeOK, ReadLook, memory, waits
    <2>3. QED
      BY <2>2
      DEF Inv, TypeOK, Cell!PC, W!GracefulPC, W!Cell!PC, Cell!Method, PhaseCode, ReadLook,
          memory, waits
  <1>2. Others(t) /\ PlaceAt(t)'
    BY DEF Inv, TypeOK, Others, PlaceAt, W!Waiting, ReadLook, memory, waits
  <1>3. Quiet(t)
    BY DEF Inv, TypeOK, PlaceAt, AloneInv, Quiet, Watched, InTransition, W!Waiting, ReadLook,
       memory, waits
  <1>4. Inv'
    BY <1>1, <1>2, <1>3, QuietInv
  <1>5. /\ pcBar[t] = "look" /\ pcBar'[t] = "reading" /\ callBar'[t] = callBar[t]
        /\ oldBar'[t] = oldBar[t] /\ resBar'[t] = Ok
    BY SameResults
    DEF Inv, TypeOK, PlaceAt, Ok, ReadLook, memory, waits, SeenIdle, W!Waiting, pcBar, callBar,
        oldBar, resBar
  <1>6. QED
    BY <1>2, <1>4, <1>5, OthersShow, SameResults
    DEF ReadLook, memory, waits, P!ReadLook, P!memory

\* A reader that is counted was in Read, or after.
LEMMA count_upStep ==
  ASSUME Inv, NEW t \in Threads, count_up(t)
  PROVE  Inv' /\ UNCHANGED P!vars
  <1>1. TypeOK'
    BY DEF Inv, TypeOK, Cell!PC, W!GracefulPC, W!Cell!PC, Cell!Method, PhaseCode, count_up,
       W!count_up, W!Cell!Step, W!Reading, W!data, W!mutex, W!graceful, memory
  <1>2. Others(t) /\ PlaceAt(t)'
    BY DEF Inv, TypeOK, Others, PlaceAt, W!Waiting, count_up, W!count_up, W!Cell!Step,
       W!Reading, W!data, W!mutex, W!graceful, memory
  <1>3. \A u \in Threads : PlaceAt(u)'
    BY <1>2, OthersPlace
  <1>4. OwnerInv'
    BY DEF Inv, TypeOK, PlaceAt, OwnerInv, InTransition, W!Waiting, Via, count_up, W!count_up,
       W!Cell!Step, W!Reading, W!data, W!mutex, W!graceful, memory
  <1>5. SetupInv'
    BY DEF Inv, TypeOK, PlaceAt, OwnerInv, SetupInv, InTransition, W!Waiting, Via, count_up,
       W!count_up, W!Cell!Step, W!Reading, W!data, W!mutex, W!graceful, memory
  <1>6. AloneInv'
    BY DEF Inv, TypeOK, PlaceAt, AloneInv, count_up, W!count_up, W!Cell!Step, W!Reading, W!data,
       W!mutex, W!graceful, memory
  <1>7. GateInv'
    BY W!GracefulAssumption
    DEF W!GracefulAssumption, Inv, TypeOK, GateInv, count_up, W!count_up, W!Cell!Step,
        W!Reading, W!data, W!mutex, W!graceful, memory
  <1>8. WakeInv'
    BY W!GracefulAssumption
    DEF Inv, TypeOK, PlaceAt, OwnerInv, SetupInv, GateInv, WakeInv, InTransition, W!Waiting,
        Via, count_up, W!count_up, W!Cell!Step, W!Reading, W!data, W!mutex, W!graceful, memory
  <1>9. Inv'
    BY <1>1, <1>3, <1>4, <1>5, <1>6, <1>7, <1>8 DEF Inv
  <1>10. /\ pcBar'[t] = pcBar[t] /\ callBar'[t] = callBar[t] /\ oldBar'[t] = oldBar[t]
         /\ resBar'[t] = resBar[t]
    BY DEF Inv, TypeOK, PlaceAt, count_up, W!count_up, W!Cell!Step, W!Reading, W!data, W!mutex,
       W!graceful, memory, SeenIdle, W!Waiting, pcBar, callBar, oldBar, resBar
  <1>11. QED
    BY <1>2, <1>9, <1>10, NoStep
    DEF count_up, W!count_up, W!Cell!Step, W!Reading, W!data, W!mutex, W!graceful, memory

\* The reader that takes the counter to 0 has still to notify.
LEMMA finish_readingStep ==
  ASSUME Inv, NEW t \in Threads, finish_reading(t)
  PROVE  Inv' /\ P!ReadEnd(t)
  <1>1. TypeOK'
    BY DEF Inv, TypeOK, Cell!PC, W!GracefulPC, W!Cell!PC, Cell!Method, PhaseCode,
       finish_reading, W!finish_reading, W!Decrement, W!data, W!mutex, W!graceful, memory
  <1>2. Others(t) /\ PlaceAt(t)'
    BY DEF Inv, TypeOK, Others, PlaceAt, W!Waiting, finish_reading, W!finish_reading,
       W!Decrement, W!data, W!mutex, W!graceful, memory
  <1>3. \A u \in Threads : PlaceAt(u)'
    BY <1>2, OthersPlace
  <1>4. OwnerInv'
    BY DEF Inv, TypeOK, PlaceAt, OwnerInv, InTransition, W!Waiting, Via, finish_reading,
       W!finish_reading, W!Decrement, W!data, W!mutex, W!graceful, memory
  <1>5. SetupInv'
    BY DEF Inv, TypeOK, PlaceAt, OwnerInv, SetupInv, InTransition, W!Waiting, Via,
       finish_reading, W!finish_reading, W!Decrement, W!data, W!mutex, W!graceful, memory
  <1>6. AloneInv'
    BY DEF Inv, TypeOK, PlaceAt, AloneInv, finish_reading, W!finish_reading, W!Decrement,
       W!data, W!mutex, W!graceful, memory
  <1>7. GateInv'
    BY W!GracefulAssumption
    DEF W!GracefulAssumption, Inv, TypeOK, GateInv, finish_reading, W!finish_reading,
        W!Decrement, W!data, W!mutex, W!graceful, memory
  <1>8. WakeInv'
    BY W!GracefulAssumption
    DEF Inv, TypeOK, PlaceAt, OwnerInv, SetupInv, GateInv, WakeInv, InTransition, W!Waiting,
        Via, finish_reading, W!finish_reading, W!Decrement, W!data, W!mutex, W!graceful, memory
  <1>9. Inv'
    BY <1>1, <1>3, <1>4, <1>5, <1>6, <1>7, <1>8 DEF Inv
  <1>10. /\ pcBar[t] = "reading" /\ pcBar'[t] = "ret" /\ callBar'[t] = callBar[t]
         /\ oldBar'[t] = oldBar[t] /\ resBar'[t] = resBar[t]
    BY DEF Inv, TypeOK, PlaceAt, finish_reading, W!finish_reading, W!Decrement, W!data, W!mutex,
       W!graceful, memory, SeenIdle, W!Waiting, pcBar, callBar, oldBar, resBar
  <1>11. QED
    BY <1>2, <1>9, <1>10, OthersShow
    DEF finish_reading, W!finish_reading, W!Decrement, W!data, W!mutex, W!graceful, memory,
        P!ReadEnd, P!memory

\* So has a caller that was no reader.
LEMMA ExcessFinishReadingStep ==
  ASSUME Inv, NEW t \in Threads, ExcessFinishReading(t)
  PROVE  Inv' /\ UNCHANGED P!vars
  <1>1. TypeOK'
    BY DEF Inv, TypeOK, Cell!PC, W!GracefulPC, W!Cell!PC, Cell!Method, PhaseCode,
       ExcessFinishReading, W!ExcessFinishReading, W!Decrement, W!data, W!mutex, W!graceful,
       memory
  <1>2. Others(t) /\ PlaceAt(t)'
    BY DEF Inv, TypeOK, Others, PlaceAt, W!Waiting, ExcessFinishReading, W!ExcessFinishReading,
       W!Decrement, W!data, W!mutex, W!graceful, memory
  <1>3. \A u \in Threads : PlaceAt(u)'
    BY <1>2, OthersPlace
  <1>4. OwnerInv'
    BY DEF Inv, TypeOK, PlaceAt, OwnerInv, InTransition, W!Waiting, Via, ExcessFinishReading,
       W!ExcessFinishReading, W!Decrement, W!data, W!mutex, W!graceful, memory
  <1>5. SetupInv'
    BY DEF Inv, TypeOK, PlaceAt, OwnerInv, SetupInv, InTransition, W!Waiting, Via,
       ExcessFinishReading, W!ExcessFinishReading, W!Decrement, W!data, W!mutex, W!graceful,
       memory
  <1>6. AloneInv'
    BY DEF Inv, TypeOK, PlaceAt, AloneInv, ExcessFinishReading, W!ExcessFinishReading,
       W!Decrement, W!data, W!mutex, W!graceful, memory
  <1>7. GateInv'
    BY W!GracefulAssumption
    DEF W!GracefulAssumption, Inv, TypeOK, GateInv, ExcessFinishReading, W!ExcessFinishReading,
        W!Decrement, W!data, W!mutex, W!graceful, memory
  <1>8. WakeInv'
    BY W!GracefulAssumption
    DEF Inv, TypeOK, PlaceAt, OwnerInv, SetupInv, GateInv, WakeInv, InTransition, W!Waiting,
        Via, ExcessFinishReading, W!ExcessFinishReading, W!Decrement, W!data, W!mutex,
        W!graceful, memory
  <1>9. Inv'
    BY <1>1, <1>3, <1>4, <1>5, <1>6, <1>7, <1>8 DEF Inv
  <1>10. /\ pcBar'[t] = pcBar[t] /\ callBar'[t] = callBar[t] /\ oldBar'[t] = oldBar[t]
         /\ resBar'[t] = resBar[t]
    BY DEF Inv, TypeOK, PlaceAt, ExcessFinishReading, W!ExcessFinishReading, W!Decrement,
       W!data, W!mutex, W!graceful, memory, SeenIdle, W!Waiting, pcBar, callBar, oldBar, resBar
  <1>11. QED
    BY <1>2, <1>9, <1>10, NoStep
    DEF ExcessFinishReading, W!ExcessFinishReading, W!Decrement, W!data, W!mutex, W!graceful,
        memory

\* The last reader leaves no cleanup asleep: one that sleeps has come from Read.
LEMMA NotifyDrainedStep ==
  ASSUME Inv, NEW t \in Threads, NotifyDrained(t)
  PROVE  Inv' /\ UNCHANGED P!vars
  <1>1. TypeOK'
    BY DEF Inv, TypeOK, Cell!PC, W!GracefulPC, W!Cell!PC, Cell!Method, PhaseCode, NotifyDrained,
       W!NotifyDrained, W!NotifyAll, W!Woken, W!data, W!mutex, W!graceful, memory
  <1>2. Others(t) /\ PlaceAt(t)'
    BY DEF Inv, TypeOK, Others, PlaceAt, W!Waiting, NotifyDrained, W!NotifyDrained, W!NotifyAll,
       W!Woken, W!data, W!mutex, W!graceful, memory
  <1>3. \A u \in Threads : PlaceAt(u)'
    BY <1>2, OthersPlace
  <1>4. OwnerInv'
    BY DEF Inv, TypeOK, PlaceAt, OwnerInv, InTransition, W!Waiting, Via, NotifyDrained,
       W!NotifyDrained, W!NotifyAll, W!Woken, W!data, W!mutex, W!graceful, memory
  <1>5. SetupInv'
    BY DEF Inv, TypeOK, PlaceAt, OwnerInv, SetupInv, InTransition, W!Waiting, Via,
       NotifyDrained, W!NotifyDrained, W!NotifyAll, W!Woken, W!data, W!mutex, W!graceful, memory
  <1>6. AloneInv'
    BY DEF Inv, TypeOK, PlaceAt, AloneInv, W!Waiting, NotifyDrained, W!NotifyDrained,
       W!NotifyAll, W!Woken, W!data, W!mutex, W!graceful, memory
  <1>7. GateInv'
    BY W!GracefulAssumption
    DEF W!GracefulAssumption, Inv, TypeOK, GateInv, NotifyDrained, W!NotifyDrained, W!NotifyAll,
        W!Woken, W!data, W!mutex, W!graceful, memory
  <1>8. WakeInv'
    BY W!GracefulAssumption
    DEF Inv, TypeOK, PlaceAt, OwnerInv, SetupInv, GateInv, WakeInv, InTransition, W!Waiting,
        Via, NotifyDrained, W!NotifyDrained, W!NotifyAll, W!Woken, W!data, W!mutex, W!graceful,
        memory
  <1>9. Inv'
    BY <1>1, <1>3, <1>4, <1>5, <1>6, <1>7, <1>8 DEF Inv
  <1>10. /\ pcBar'[t] = pcBar[t] /\ callBar'[t] = callBar[t] /\ oldBar'[t] = oldBar[t]
         /\ resBar'[t] = resBar[t]
    BY DEF Inv, TypeOK, PlaceAt, NotifyDrained, W!NotifyDrained, W!NotifyAll, W!Woken, W!data,
       W!mutex, W!graceful, memory, SeenIdle, W!Waiting, pcBar, callBar, oldBar, resBar
  <1>11. QED
    BY <1>2, <1>9, <1>10, NoStep
    DEF NotifyDrained, W!NotifyDrained, W!NotifyAll, W!Woken, W!data, W!mutex, W!graceful,
        memory

-----------------------------------------------------------------------------
(* get_mut_unlocked and phase *)

\* Quiet: get_mut_unlocked, which nobody else is there to see.
LEMMA GetMutStep ==
  ASSUME Inv, NEW t \in Threads, Cell!GetMut(t), UNCHANGED waits
  PROVE  Inv' /\ P!GetMut(t)
  <1>1. TypeOK'
    BY DEF Inv, TypeOK, Cell!PC, W!GracefulPC, W!Cell!PC, Cell!Method, PhaseCode, Cell!GetMut,
       Cell!Enter, waits
  <1>2. Others(t) /\ PlaceAt(t)'
    BY DEF Inv, TypeOK, Others, PlaceAt, W!Waiting, Cell!GetMut, Cell!Enter, waits
  <1>3. Quiet(t)
    BY DEF Inv, TypeOK, PlaceAt, AloneInv, Quiet, Watched, InTransition, W!Waiting, Cell!GetMut,
       Cell!Enter, waits
  <1>4. Inv'
    BY <1>1, <1>2, <1>3, QuietInv
  <1>5. /\ \A u \in Threads : pcBar[u] = "idle" /\ pcBar'[t] = "exclusive"
        /\ callBar'[t] = "get_mut_unlocked" /\ oldBar'[t] = phase /\ resBar'[t] = resBar[t]
    BY DEF Inv, TypeOK, PlaceAt, Cell!GetMut, Cell!Enter, waits, SeenIdle, W!Waiting, pcBar,
       callBar, oldBar, resBar
  <1>6. QED
    BY <1>2, <1>4, <1>5, OthersShow DEF Cell!GetMut, Cell!Enter, waits, P!GetMut, P!Enter

\* Quiet: a refusal.
LEMMA GetMutRefusedStep ==
  ASSUME Inv, NEW t \in Threads, Cell!GetMutRefused(t), UNCHANGED waits
  PROVE  Inv' /\ P!GetMutRefused(t)
  <1>1. TypeOK'
    <2>1. Cell!LockRefusal(phase) \in Result
      BY DEF Inv, TypeOK, PhaseCode, Cell!LockRefusal, Cell!Err, Cell!u8_to_phase, Result,
         PublicPhase, PhasedErrorKind
    <2>2. res' \in [Threads -> Result]
      BY <2>1
      DEF Inv, TypeOK, Cell!GetMutRefused, Cell!Refuse, Cell!Enter, Cell!Acquire,
          Cell!AfterAcquire, waits
    <2>3. QED
      BY <2>2
      DEF Inv, TypeOK, Cell!PC, W!GracefulPC, W!Cell!PC, Cell!Method, PhaseCode,
          Cell!GetMutRefused, Cell!Refuse, Cell!Enter, Cell!Acquire, Cell!AfterAcquire, waits
  <1>2. Others(t) /\ PlaceAt(t)'
    BY DEF Inv, TypeOK, Others, PlaceAt, W!Waiting, Cell!GetMutRefused, Cell!Refuse, Cell!Enter,
       Cell!Acquire, Cell!AfterAcquire, waits
  <1>3. Quiet(t)
    BY DEF Inv, TypeOK, PlaceAt, AloneInv, Quiet, Watched, InTransition, W!Waiting,
       Cell!GetMutRefused, Cell!Refuse, Cell!Enter, Cell!Acquire, Cell!AfterAcquire, waits
  <1>4. Inv'
    BY <1>1, <1>2, <1>3, QuietInv
  <1>5. /\ pcBar[t] = "idle" /\ pcBar'[t] = "ret" /\ callBar'[t] = "get_mut_unlocked"
        /\ oldBar'[t] = phase /\ resBar'[t] = LockRefusal(phase)
        /\ \A u \in Threads : pcBar[u] # "exclusive"
    BY SameRefusals
    DEF Inv, TypeOK, PlaceAt, Cell!GetMutRefused, Cell!Refuse, Cell!Enter, Cell!Acquire,
        Cell!AfterAcquire, waits, SeenIdle, W!Waiting, pcBar, callBar, oldBar, resBar
  <1>6. QED
    BY <1>2, <1>4, <1>5, OthersShow, SameRefusals
    DEF Cell!GetMutRefused, Cell!Refuse, Cell!Enter, Cell!Acquire, Cell!AfterAcquire, waits,
        P!GetMutRefused, P!Refuse, P!Enter, P!Acquire, P!AfterAcquire

\* Quiet: the end of the &mut T.
LEMMA GetMutEndStep ==
  ASSUME Inv, NEW t \in Threads, Cell!GetMutEnd(t), UNCHANGED waits
  PROVE  Inv' /\ P!GetMutEnd(t)
  <1>1. TypeOK'
    BY DEF Inv, TypeOK, Cell!PC, W!GracefulPC, W!Cell!PC, Cell!Method, PhaseCode,
       Cell!GetMutEnd, Cell!Step, waits
  <1>2. Others(t) /\ PlaceAt(t)'
    BY DEF Inv, TypeOK, Others, PlaceAt, W!Waiting, Cell!GetMutEnd, Cell!Step, waits
  <1>3. Quiet(t)
    BY DEF Inv, TypeOK, PlaceAt, AloneInv, Quiet, Watched, InTransition, W!Waiting,
       Cell!GetMutEnd, Cell!Step, waits
  <1>4. Inv'
    BY <1>1, <1>2, <1>3, QuietInv
  <1>5. /\ pcBar[t] = "exclusive" /\ pcBar'[t] = "ret" /\ callBar[t] = "get_mut_unlocked"
        /\ callBar'[t] = callBar[t] /\ oldBar'[t] = oldBar[t] /\ resBar'[t] = resBar[t]
    BY DEF Inv, TypeOK, PlaceAt, Cell!GetMutEnd, Cell!Step, waits, SeenIdle, W!Waiting, pcBar,
       callBar, oldBar, resBar
  <1>6. QED
    BY <1>2, <1>4, <1>5, OthersShow DEF Cell!GetMutEnd, Cell!Step, waits, P!GetMutEnd, P!Step

\* Quiet: a look at the phase.
LEMMA phase_acquireStep ==
  ASSUME Inv, NEW t \in Threads, phase_acquire(t)
  PROVE  Inv' /\ P!phase_acquire(t)
  <1>1. TypeOK'
    BY DEF Inv, TypeOK, Cell!PC, W!GracefulPC, W!Cell!PC, Cell!Method, PhaseCode, phase_acquire,
       Cell!phase_acquire, Cell!Acquire, Cell!AfterAcquire, waits
  <1>2. Others(t) /\ PlaceAt(t)'
    BY DEF Inv, TypeOK, Others, PlaceAt, W!Waiting, phase_acquire, Cell!phase_acquire,
       Cell!Acquire, Cell!AfterAcquire, waits
  <1>3. Quiet(t)
    BY DEF Inv, TypeOK, PlaceAt, AloneInv, Quiet, Watched, InTransition, W!Waiting,
       phase_acquire, Cell!phase_acquire, Cell!Acquire, Cell!AfterAcquire, waits
  <1>4. Inv'
    BY <1>1, <1>2, <1>3, QuietInv
  <1>5. /\ pcBar[t] = "idle" /\ pcBar'[t] = pcBar[t] /\ callBar'[t] = callBar[t]
        /\ oldBar'[t] = oldBar[t] /\ resBar'[t] = resBar[t]
        /\ \A u \in Threads : pcBar[u] # "exclusive"
    BY NoMove
    DEF Inv, TypeOK, PlaceAt, phase_acquire, Cell!phase_acquire, Cell!Acquire,
        Cell!AfterAcquire, waits, SeenIdle, W!Waiting, pcBar, callBar, oldBar, resBar
  <1>6. QED
    BY <1>2, <1>4, <1>5, OthersShow, NoMove
    DEF phase_acquire, Cell!phase_acquire, Cell!Acquire, Cell!AfterAcquire, waits,
        P!phase_acquire, P!Acquire, P!AfterAcquire

-----------------------------------------------------------------------------
(* Waiting, and the return *)

\* A thread that waits locks graceful_mutex.
LEMMA WaitLockStep ==
  ASSUME Inv, NEW t \in Threads, WaitLock(t)
  PROVE  Inv' /\ UNCHANGED P!vars
  <1>1. TypeOK'
    BY DEF Inv, TypeOK, Cell!PC, W!GracefulPC, W!Cell!PC, Cell!Method, PhaseCode, WaitLock,
       W!WaitLock, W!data, W!mutex, W!graceful, memory
  <1>2. Others(t) /\ PlaceAt(t)'
    BY DEF Inv, TypeOK, Others, PlaceAt, W!Waiting, WaitLock, W!WaitLock, W!data, W!mutex,
       W!graceful, memory
  <1>3. \A u \in Threads : PlaceAt(u)'
    BY <1>2, OthersPlace
  <1>4. OwnerInv'
    BY DEF Inv, TypeOK, PlaceAt, OwnerInv, InTransition, W!Waiting, Via, WaitLock, W!WaitLock,
       W!data, W!mutex, W!graceful, memory
  <1>5. SetupInv'
    BY DEF Inv, TypeOK, PlaceAt, OwnerInv, SetupInv, InTransition, W!Waiting, Via, WaitLock,
       W!WaitLock, W!data, W!mutex, W!graceful, memory
  <1>6. AloneInv'
    BY DEF Inv, TypeOK, PlaceAt, AloneInv, WaitLock, W!WaitLock, W!data, W!mutex, W!graceful,
       memory
  <1>7. GateInv'
    BY W!GracefulAssumption
    DEF W!GracefulAssumption, Inv, TypeOK, GateInv, WaitLock, W!WaitLock, W!data, W!mutex,
        W!graceful, memory
  <1>8. WakeInv'
    BY W!GracefulAssumption
    DEF Inv, TypeOK, PlaceAt, OwnerInv, SetupInv, GateInv, WakeInv, InTransition, W!Waiting,
        Via, WaitLock, W!WaitLock, W!data, W!mutex, W!graceful, memory
  <1>9. Inv'
    BY <1>1, <1>3, <1>4, <1>5, <1>6, <1>7, <1>8 DEF Inv
  <1>10. /\ pcBar'[t] = pcBar[t] /\ callBar'[t] = callBar[t] /\ oldBar'[t] = oldBar[t]
         /\ resBar'[t] = resBar[t]
    BY DEF Inv, TypeOK, PlaceAt, WaitLock, W!WaitLock, W!data, W!mutex, W!graceful, memory,
       SeenIdle, W!Waiting, pcBar, callBar, oldBar, resBar
  <1>11. QED
    BY <1>2, <1>9, <1>10, NoStep DEF WaitLock, W!WaitLock, W!data, W!mutex, W!graceful, memory

\* A thread goes to sleep with what it would miss still to be told.
LEMMA WaitSleepStep ==
  ASSUME Inv, NEW t \in Threads, WaitSleep(t)
  PROVE  Inv' /\ UNCHANGED P!vars
  <1>1. TypeOK'
    BY DEF Inv, TypeOK, Cell!PC, W!GracefulPC, W!Cell!PC, Cell!Method, PhaseCode, WaitSleep,
       W!WaitSleep, W!data, W!mutex, W!graceful, memory
  <1>2. Others(t) /\ PlaceAt(t)'
    BY DEF Inv, TypeOK, Others, PlaceAt, W!Waiting, WaitSleep, W!WaitSleep, W!data, W!mutex,
       W!graceful, memory
  <1>3. \A u \in Threads : PlaceAt(u)'
    BY <1>2, OthersPlace
  <1>4. OwnerInv'
    BY DEF Inv, TypeOK, PlaceAt, OwnerInv, InTransition, W!Waiting, Via, WaitSleep, W!WaitSleep,
       W!data, W!mutex, W!graceful, memory
  <1>5. SetupInv'
    BY DEF Inv, TypeOK, PlaceAt, OwnerInv, SetupInv, InTransition, W!Waiting, Via, WaitSleep,
       W!WaitSleep, W!data, W!mutex, W!graceful, memory
  <1>6. AloneInv'
    BY DEF Inv, TypeOK, PlaceAt, AloneInv, WaitSleep, W!WaitSleep, W!data, W!mutex, W!graceful,
       memory
  <1>7. GateInv'
    BY W!GracefulAssumption
    DEF W!GracefulAssumption, Inv, TypeOK, GateInv, WaitSleep, W!WaitSleep, W!data, W!mutex,
        W!graceful, memory
  <1>8. WakeInv'
    BY W!GracefulAssumption
    DEF Inv, TypeOK, PlaceAt, OwnerInv, SetupInv, GateInv, WakeInv, InTransition, W!Waiting,
        Via, WaitSleep, W!WaitSleep, W!data, W!mutex, W!graceful, memory
  <1>9. Inv'
    BY <1>1, <1>3, <1>4, <1>5, <1>6, <1>7, <1>8 DEF Inv
  <1>10. /\ pcBar'[t] = pcBar[t] /\ callBar'[t] = callBar[t] /\ oldBar'[t] = oldBar[t]
         /\ resBar'[t] = resBar[t]
    BY DEF Inv, TypeOK, PlaceAt, WaitSleep, W!WaitSleep, W!data, W!mutex, W!graceful, memory,
       SeenIdle, W!Waiting, pcBar, callBar, oldBar, resBar
  <1>11. QED
    BY <1>2, <1>9, <1>10, NoStep
    DEF WaitSleep, W!WaitSleep, W!data, W!mutex, W!graceful, memory

\* A sleeper wakes by itself.
LEMMA WaitWakeStep ==
  ASSUME Inv, NEW t \in Threads, WaitWake(t)
  PROVE  Inv' /\ UNCHANGED P!vars
  <1>1. TypeOK'
    BY DEF Inv, TypeOK, Cell!PC, W!GracefulPC, W!Cell!PC, Cell!Method, PhaseCode, WaitWake,
       W!WaitWake, W!data, W!mutex, W!graceful, memory
  <1>2. Others(t) /\ PlaceAt(t)'
    BY DEF Inv, TypeOK, Others, PlaceAt, W!Waiting, WaitWake, W!WaitWake, W!data, W!mutex,
       W!graceful, memory
  <1>3. \A u \in Threads : PlaceAt(u)'
    BY <1>2, OthersPlace
  <1>4. OwnerInv'
    BY DEF Inv, TypeOK, PlaceAt, OwnerInv, InTransition, W!Waiting, Via, WaitWake, W!WaitWake,
       W!data, W!mutex, W!graceful, memory
  <1>5. SetupInv'
    BY DEF Inv, TypeOK, PlaceAt, OwnerInv, SetupInv, InTransition, W!Waiting, Via, WaitWake,
       W!WaitWake, W!data, W!mutex, W!graceful, memory
  <1>6. AloneInv'
    BY DEF Inv, TypeOK, PlaceAt, AloneInv, WaitWake, W!WaitWake, W!data, W!mutex, W!graceful,
       memory
  <1>7. GateInv'
    BY W!GracefulAssumption
    DEF W!GracefulAssumption, Inv, TypeOK, GateInv, WaitWake, W!WaitWake, W!data, W!mutex,
        W!graceful, memory
  <1>8. WakeInv'
    BY W!GracefulAssumption
    DEF Inv, TypeOK, PlaceAt, OwnerInv, SetupInv, GateInv, WakeInv, InTransition, W!Waiting,
        Via, WaitWake, W!WaitWake, W!data, W!mutex, W!graceful, memory
  <1>9. Inv'
    BY <1>1, <1>3, <1>4, <1>5, <1>6, <1>7, <1>8 DEF Inv
  <1>10. /\ pcBar'[t] = pcBar[t] /\ callBar'[t] = callBar[t] /\ oldBar'[t] = oldBar[t]
         /\ resBar'[t] = resBar[t]
    BY DEF Inv, TypeOK, PlaceAt, WaitWake, W!WaitWake, W!data, W!mutex, W!graceful, memory,
       SeenIdle, W!Waiting, pcBar, callBar, oldBar, resBar
  <1>11. QED
    BY <1>2, <1>9, <1>10, NoStep DEF WaitWake, W!WaitWake, W!data, W!mutex, W!graceful, memory

\* Quiet: a caller gets its result.
LEMMA ReturnStep ==
  ASSUME Inv, NEW t \in Threads, Return(t)
  PROVE  Inv' /\ (P!Return(t) \/ UNCHANGED P!vars)
  <1>1. TypeOK'
    BY DEF Inv, TypeOK, Cell!PC, W!GracefulPC, W!Cell!PC, Cell!Method, PhaseCode,
       W!Cell!NoResult, NoResult, Result, Return, W!Return, W!Cell!Return, W!data, W!mutex,
       W!Cell!data, W!Cell!mutex, memory
  <1>2. Others(t) /\ PlaceAt(t)'
    BY DEF Inv, TypeOK, Others, PlaceAt, W!Waiting, W!Cell!NoResult, NoResult, Return, W!Return,
       W!Cell!Return, W!data, W!mutex, W!Cell!data, W!Cell!mutex, memory
  <1>3. Quiet(t)
    BY DEF Inv, TypeOK, PlaceAt, AloneInv, Quiet, Watched, InTransition, W!Waiting, Return,
       W!Return, W!Cell!Return, W!data, W!mutex, W!Cell!data, W!Cell!mutex, memory
  <1>4. Inv'
    BY <1>1, <1>2, <1>3, QuietInv
  <1>5. /\ pcBar'[t] = "idle" /\ callBar'[t] = "none" /\ oldBar'[t] = PHASE_SETUP
        /\ resBar'[t] = NoResult
        /\ call[t] # "finish_reading" => pcBar[t] = "ret"
        /\ call[t] = "finish_reading" =>
              /\ pcBar'[t] = pcBar[t] /\ callBar'[t] = callBar[t]
              /\ oldBar'[t] = oldBar[t] /\ resBar'[t] = resBar[t]
    BY SameResults
    DEF Inv, TypeOK, PlaceAt, NoResult, Return, W!Return, W!Cell!Return, W!data, W!mutex,
        W!Cell!data, W!Cell!mutex, memory, SeenIdle, W!Waiting, pcBar, callBar, oldBar, resBar
  <1>6. CASE call[t] = "finish_reading"
    BY <1>2, <1>4, <1>5, <1>6, NoStep DEF Return, W!Return, W!Cell!Return, memory
  <1>7. CASE call[t] # "finish_reading"
    BY <1>2, <1>4, <1>5, <1>7, OthersShow, SameResults
    DEF Return, W!Return, W!Cell!Return, memory, P!Return, P!memory
  <1>8. QED
    BY <1>4, <1>6, <1>7

-----------------------------------------------------------------------------
(* The invariant and the refinement *)

LEMMA InitStep == GracefulInit => Inv /\ P!PhasedCellInit
  <1> SUFFICES ASSUME GracefulInit PROVE Inv /\ P!PhasedCellInit
    OBVIOUS
  <1>1. TypeOK
    <2>1. NoResult \in Result
      BY DEF Result
    <2>2. res = [t \in Threads |-> NoResult]
      BY SameResults DEF GracefulInit, Cell!PhasedCellInit
    <2>3. QED
      BY <2>1, <2>2
      DEF GracefulInit, Cell!PhasedCellInit, TypeOK, Cell!PC, Cell!Method, PhaseCode
  <1>2. \A t \in Threads : PlaceAt(t)
    BY SameResults DEF GracefulInit, Cell!PhasedCellInit, PlaceAt, W!Waiting
  <1>3. OwnerInv /\ SetupInv /\ AloneInv /\ WakeInv
    BY DEF GracefulInit, Cell!PhasedCellInit, OwnerInv, InTransition, W!Waiting, SetupInv,
       AloneInv, WakeInv
  <1>4. GateInv
    BY W!GracefulAssumption DEF W!GracefulAssumption, GracefulInit, Cell!PhasedCellInit, GateInv
  <1>5. /\ pcBar   = [t \in Threads |-> "idle"]
        /\ callBar = [t \in Threads |-> "none"]
        /\ oldBar  = [t \in Threads |-> PHASE_SETUP]
    BY DEF GracefulInit, Cell!PhasedCellInit, pcBar, callBar, oldBar, SeenIdle, W!Waiting
  <1>6. resBar = [t \in Threads |-> P!NoResult]
    BY SameResults DEF GracefulInit, Cell!PhasedCellInit, NoResult, resBar
  <1>7. QED
    BY <1>1, <1>2, <1>3, <1>4, <1>5, <1>6
    DEF Inv, GracefulInit, Cell!PhasedCellInit, P!PhasedCellInit

\* Inv is kept, and what is seen is a step of PhasedCell or none.
Maps == Inv' /\ [P!PhasedCellNext]_P!vars

\* One step for each group of actions: <1>1 says what it is enough to show of thread t.
LEMMA NextStep == Inv /\ [GracefulNext]_vars => Maps
  <1> SUFFICES ASSUME Inv, [GracefulNext]_vars PROVE Maps
    OBVIOUS
  <1>1. ASSUME NEW t \in Threads, Inv',
               \/ P!transition_to_read(t) \/ P!transition_to_cleanup(t)
               \/ P!read(t) \/ P!read_relaxed(t) \/ P!ReadEnd(t)
               \/ P!get_mut_unlocked(t) \/ P!phase_acquire(t) \/ P!Return(t)
               \/ UNCHANGED P!vars
        PROVE  Maps
    BY <1>1 DEF Maps, P!PhasedCellNext
  <1>2. ASSUME NEW t \in Threads, transition_to_read(t) PROVE Maps
    <2>1. Inv' /\ (P!transition_to_read(t) \/ UNCHANGED P!vars)
      BY <1>2, ToReadBeginStep, ToReadRefusedStep, ToReadRunStep, ToReadCommitStep,
         notify_read_phaseStep
      DEF transition_to_read, P!transition_to_read
    <2>2. QED
      BY <1>1, <2>1
  <1>3. ASSUME NEW t \in Threads, transition_to_cleanup(t) PROVE Maps
    <2>1. Inv' /\ (P!transition_to_cleanup(t) \/ UNCHANGED P!vars)
      BY <1>3, ToCleanupBeginStep, ToCleanupRefusedStep, CleanupCheckStep, ToCleanupRunStep,
         ToCleanupCommitStep
      DEF transition_to_cleanup, P!transition_to_cleanup
    <2>2. QED
      BY <1>1, <2>1
  <1>4. ASSUME NEW t \in Threads, read(t) \/ read_relaxed(t) PROVE Maps
    <2>1. Inv' /\ (\/ P!read(t) \/ P!read_relaxed(t) \/ P!phase_acquire(t)
                   \/ UNCHANGED P!vars)
      BY <1>4, ReadBeginStep, ReadRefusedStep, ReadCheckStep, ReadLookStep, count_upStep,
         ReadRelaxedBeginStep
      DEF read, read_relaxed, P!read, P!read_relaxed
    <2>2. QED
      BY <1>1, <2>1
  <1>5. ASSUME NEW t \in Threads, count_down(t) PROVE Maps
    BY <1>1, <1>5, finish_readingStep, ExcessFinishReadingStep, NotifyDrainedStep
    DEF count_down
  <1>6. ASSUME NEW t \in Threads, get_mut_unlocked(t) PROVE Maps
    <2>1. Inv' /\ P!get_mut_unlocked(t)
      BY <1>6, GetMutStep, GetMutRefusedStep, GetMutEndStep
      DEF get_mut_unlocked, Cell!get_mut_unlocked, P!get_mut_unlocked
    <2>2. QED
      BY <1>1, <2>1
  <1>7. ASSUME NEW t \in Threads, phase_acquire(t) \/ Return(t) PROVE Maps
    BY <1>1, <1>7, phase_acquireStep, ReturnStep
  <1>8. ASSUME NEW t \in Threads, WaitLock(t) \/ WaitSleep(t) \/ WaitWake(t) PROVE Maps
    BY <1>1, <1>8, WaitLockStep, WaitSleepStep, WaitWakeStep
  <1>9. CASE UNCHANGED vars
    <2>1. TypeOK'
      BY <1>9 DEF vars, memory, waits, Inv, TypeOK
    <2>2. (\A t \in Threads : PlaceAt(t))' /\ OwnerInv'
      BY <1>9 DEF vars, memory, waits, Inv, PlaceAt, OwnerInv, InTransition, W!Waiting
    <2>3. SetupInv' /\ AloneInv' /\ GateInv' /\ WakeInv'
      BY <1>9 DEF vars, memory, waits, Inv, SetupInv, AloneInv, GateInv, WakeInv
    <2>4. pcBar' = pcBar
      BY <1>9 DEF vars, memory, waits, pcBar, SeenIdle, W!Waiting
    <2>5. callBar' = callBar /\ oldBar' = oldBar /\ resBar' = resBar
      BY <1>9, <2>4 DEF vars, memory, waits, callBar, oldBar, resBar
    <2>6. QED
      BY <1>9, <2>1, <2>2, <2>3, <2>4, <2>5 DEF Maps, Inv, vars, memory, P!vars
  <1>10. QED
    BY <1>2, <1>3, <1>4, <1>5, <1>6, <1>7, <1>8, <1>9 DEF GracefulNext

\* For any finite set of threads every variable of the cell keeps to its set of values, a
\* transition is alone, nobody is counted as a reader before the cell is in Read, and whoever
\* sleeps will be told: Inv, the inductive invariant.
THEOREM Invariance == GracefulSpec => []Inv
  <1>1. Inv /\ [GracefulNext]_vars => Inv'
    BY NextStep DEF Maps
  <1>2. QED
    BY <1>1, InitStep, PTL DEF GracefulSpec

\* No sleeping reader or cleanup is forgotten: whoever ends a transition to Read, or takes
\* the reader counter to zero, still has to notify while somebody sleeps.
THEOREM NoWakeupIsLost == GracefulSpec => []NoLostWakeup
  <1>1. Inv => NoLostWakeup
    BY DEF Inv, PlaceAt, WakeInv, NoLostWakeup, W!NoLostWakeup
  <1>2. QED
    BY <1>1, Invariance, PTL

\* The graceful cell is a PhasedCell, seen through the mapping: waiting, time-outs, counting,
\* notifying and calls of finish_reading that nobody owes let no method do to the phase, or
\* to what its memory ordering makes visible, what PhasedCell would not.
THEOREM RefinesPhasedCell == GracefulSpec => ImplementsPhasedCell
  <1>1. Inv /\ [GracefulNext]_vars => [P!PhasedCellNext]_P!vars
    BY NextStep DEF Maps
  <1>2. QED
    BY <1>1, InitStep, Invariance, PTL DEF GracefulSpec, ImplementsPhasedCell, P!PhasedCellSpec

-----------------------------------------------------------------------------
(* What the graceful cell inherits from PhasedCell *)

HIDE DEF P!PHASE_SETUP, P!PHASE_READ, P!PHASE_CLEANUP, P!PHASE_SETUP_TO_READ,
         P!PHASE_READ_TO_CLEANUP, P!PHASE_SETUP_TO_CLEANUP

PP == INSTANCE PhasedCellProofs
        WITH pc <- pcBar, call <- callBar, old <- oldBar, res <- resBar

\* PP is P again, with its theorems.
LEMMA SameCell ==
  /\ P!PhasedCellInit <=> PP!PhasedCellInit
  /\ [P!PhasedCellNext]_(P!vars) <=> [PP!PhasedCellNext]_(PP!vars)
  <1>1. P!PhasedCellInit <=> PP!PhasedCellInit
    BY DEF P!PhasedCellInit, PP!PhasedCellInit, P!PHASE_SETUP, PP!PHASE_SETUP, P!NoResult,
       PP!NoResult
  <1>2. P!PhasedCellNext <=> PP!PhasedCellNext
    BY DEF P!memory, P!AfterAcquire, P!Acquire, P!AcqRel, P!Write, P!Enter, P!Refuse,
       P!Step, P!change_phase, P!Return, P!phase_acquire, P!ToReadBegin, P!ToReadRefused,
       P!ToReadRun, P!ToReadCommit, P!transition_to_read, P!ToCleanupBegin,
       P!ToCleanupRefused, P!ToCleanupRun, P!ToCleanupCommit, P!transition_to_cleanup,
       P!ReadRelaxedBegin, P!ReadBegin, P!ReadRefused, P!ReadLook, P!ReadEnd, P!read,
       P!read_relaxed, P!GetMut, P!GetMutRefused, P!GetMutEnd, P!get_mut_unlocked,
       P!PhasedCellNext, P!PHASE_SETUP, P!PHASE_READ, P!PHASE_CLEANUP,
       P!PHASE_SETUP_TO_READ, P!PHASE_READ_TO_CLEANUP, P!PHASE_SETUP_TO_CLEANUP, P!Ok,
       P!Panic, P!NoResult, P!Err, P!u8_to_phase, P!Via, P!ToReadRefusal,
       P!ToCleanupRefusal, P!LockRefusal, PP!memory, PP!AfterAcquire, PP!Acquire, PP!AcqRel,
       PP!Write, PP!Enter, PP!Refuse, PP!Step, PP!change_phase, PP!Return, PP!phase_acquire,
       PP!ToReadBegin, PP!ToReadRefused, PP!ToReadRun, PP!ToReadCommit,
       PP!transition_to_read, PP!ToCleanupBegin, PP!ToCleanupRefused, PP!ToCleanupRun,
       PP!ToCleanupCommit, PP!transition_to_cleanup, PP!ReadRelaxedBegin, PP!ReadBegin,
       PP!ReadRefused, PP!ReadLook, PP!ReadEnd, PP!read, PP!read_relaxed, PP!GetMut,
       PP!GetMutRefused, PP!GetMutEnd, PP!get_mut_unlocked, PP!PhasedCellNext,
       PP!PHASE_SETUP, PP!PHASE_READ, PP!PHASE_CLEANUP, PP!PHASE_SETUP_TO_READ,
       PP!PHASE_READ_TO_CLEANUP, PP!PHASE_SETUP_TO_CLEANUP, PP!Ok, PP!Panic, PP!NoResult,
       PP!Err, PP!u8_to_phase, PP!Via, PP!ToReadRefusal, PP!ToCleanupRefusal, PP!LockRefusal
  <1>3. UNCHANGED P!vars <=> UNCHANGED PP!vars
    BY DEF P!vars, PP!vars
  <1>4. QED
    BY <1>1, <1>2, <1>3

\* No thread is Nobody, as PP assumes.
LEMMA NobodyIsNoThread == PP!ThreadsAssumption
  BY W!GracefulAssumption DEF W!GracefulAssumption, PP!ThreadsAssumption

\* What PhasedCellProofs proves of every step, it proves of the graceful cell.
LEMMA SeenAsCell == GracefulSpec => PP!PhasedCellSpec
  BY RefinesPhasedCell, SameCell, PTL
  DEF ImplementsPhasedCell, P!PhasedCellSpec, PP!PhasedCellSpec

\* The places at the data are seen as they are, and readers that wait for nothing more.
LEMMA SeenPlaces ==
  ASSUME Inv, NEW t \in Threads
  PROVE  /\ pc[t] \in {"run", "commit", "exclusive", "look", "reading"} => pcBar[t] = pc[t]
         /\ pc[t] = "count" => pcBar[t] = "reading"
         /\ pcBar[t] # "idle" => callBar[t] = call[t]
  BY DEF Inv, PlaceAt, pcBar, callBar, SeenIdle, W!Waiting

\* Closures never overlap each other or an exclusive use, with all the waiting between.
THEOREM GracefulExclusiveAccess == GracefulSpec => []Cell!ExclusiveMut
  <1>1. Inv /\ PP!ExclusiveMut => Cell!ExclusiveMut
    BY SeenPlaces DEF Cell!ExclusiveMut, Cell!Mutating, PP!ExclusiveMut, PP!Mutating
  <1>2. QED
    BY <1>1, SeenAsCell, PP!ExclusiveAccess, NobodyIsNoThread, Invariance, PTL

\* Who changes the data happens after every earlier change.
THEOREM GracefulMutatorsSeeAll == GracefulSpec => []Cell!MutatorSeesAll
  <1>1. Inv /\ PP!MutatorSeesAll => Cell!MutatorSeesAll
    BY SeenPlaces DEF Cell!MutatorSeesAll, Cell!Mutating, PP!MutatorSeesAll, PP!Mutating
  <1>2. QED
    BY <1>1, SeenAsCell, PP!MutatorsSeeAll, NobodyIsNoThread, Invariance, PTL

\* While the cell is in Read, every reader happens after all of Setup: one that has waited
\* for Read, too.
THEOREM GracefulReadersAreSynced == GracefulSpec => []ReadersSeeSetup
  <1>1. Inv /\ PP!ReadersSeeSetup => ReadersSeeSetup
    BY SeenPlaces DEF ReadersSeeSetup, PP!ReadersSeeSetup, PP!PHASE_READ
  <1>2. QED
    BY <1>1, SeenAsCell, PP!ReadersAreSynced, NobodyIsNoThread, Invariance, PTL

\* What a result tells of the cell is still so when the caller gets it, though a transition
\* to Read has still to notify, and a reader that gave up may have waited for long.
THEOREM GracefulResultsAreTruthful == GracefulSpec => []Cell!TruthfulResults
  <1>1. ASSUME Inv, PP!TruthfulResults, NEW t \in Threads, pc[t] = "ret"
        PROVE  Cell!Truthful(t)
    <2>1. CASE call[t] = "finish_reading"
      <3>1. res[t].kind = "None"
        BY <1>1, <2>1 DEF Inv, PlaceAt, NoResult
      <3>2. QED
        BY <2>1, <3>1 DEF Cell!Truthful
    <2>2. CASE call[t] # "finish_reading"
      <3>1. pcBar[t] = "ret" /\ PP!Truthful(t)
        BY <1>1, <2>2 DEF PP!TruthfulResults, pcBar, SeenIdle, W!Waiting
      <3>2. callBar[t] = call[t]
        BY <3>1 DEF callBar
      <3>3. \/ res[t].kind # "GracefulWaitTimeout" /\ resBar[t].kind = res[t].kind
            \/ res[t].kind = "GracefulWaitTimeout"
               /\ resBar[t].kind = "CannotCallUnlessPhaseRead"
        BY DEF resBar, Err
      <3>4. /\ PP!Reached(1) <=> Cell!Reached(1)
            /\ PP!Reached(2) <=> Cell!Reached(2)
        BY DEF PP!Reached, Cell!Reached, PP!Rank, Cell!Rank, PP!u8_to_phase, Cell!u8_to_phase,
           PP!PHASE_SETUP, PP!PHASE_SETUP_TO_READ, PP!PHASE_READ
      <3>5. QED
        BY <3>1, <3>2, <3>3, <3>4 DEF PP!Truthful, Cell!Truthful, PP!PHASE_CLEANUP
    <2>3. QED
      BY <2>1, <2>2
  <1>2. Inv /\ PP!TruthfulResults => Cell!TruthfulResults
    BY <1>1 DEF Cell!TruthfulResults
  <1>3. QED
    BY <1>2, SeenAsCell, PP!ResultsAreTruthful, NobodyIsNoThread, Invariance, PTL

\* Once a cleanup has begun nobody becomes a reader any more, counted or not yet: those its
\* wait may have missed only leave.
THEOREM GracefulNoNewReaders == GracefulSpec => PP!ReadersOnlyLeave
  BY SeenAsCell, PP!NoNewReaders, NobodyIsNoThread, PTL

\* The phase moves along the edges of the lifecycle only, what `phase()` shows never goes
\* back, and a transition ends by the hand that opened it.
THEOREM GracefulKeepsToTheLifecycle ==
  GracefulSpec => PP!LP!FollowsTheGraph /\ PP!LP!NeverGoesBack /\ PP!LP!NeverTakenOver
  BY SeenAsCell, PP!KeepsToTheLifecycle, NobodyIsNoThread, PTL

-----------------------------------------------------------------------------
(* The reader counter *)

\* The waits count the threads as FiniteSets does.
LEMMA SameCounting ==
  \A S : W!Cardinality(S) = Cardinality(S) /\ (W!IsFiniteSet(S) <=> IsFiniteSet(S))
  <1>1. \A S : W!Cardinality(S) = Cardinality(S)
    BY Zenon DEF W!Cardinality, Cardinality
  <1>2. \A S : W!IsFiniteSet(S) <=> IsFiniteSet(S)
    BY Zenon DEF W!IsFiniteSet, IsFiniteSet
  <1>3. QED
    BY <1>1, <1>2

\* A step that neither counts nor uncounts anybody.
LEMMA CountKept ==
  ASSUME Inv, W!CountInv, UNCHANGED graceful_counter, W!Counted' = W!Counted
  PROVE  W!CountInv'
  BY DEF W!CountInv, W!CounterBounded

\* The readers are finitely many.
LEMMA CountedIsFinite == IsFiniteSet(W!Counted) /\ Cardinality(W!Counted) \in Nat
  <1>1. IsFiniteSet(W!Counted)
    BY W!GracefulAssumption, SameCounting, FS_Subset DEF W!GracefulAssumption, W!Counted
  <1>2. QED
    BY <1>1, FS_CardinalityType

\* The steps of a transition: none moves a reader.
LEMMA TransitionCounts ==
  ASSUME Inv, W!CountInv, NEW t \in Threads, transition_to_read(t) \/ transition_to_cleanup(t)
  PROVE  W!CountInv'
  <1>1. UNCHANGED graceful_counter
    BY DEF transition_to_read, transition_to_cleanup, ToReadBegin, ToReadRefused, ToReadRun,
       ToReadCommit, notify_read_phase, W!notify_read_phase, W!graceful, ToCleanupBegin,
       ToCleanupRefused, CleanupCheck, W!CleanupTurn, ToCleanupRun, ToCleanupCommit, waits
  <1>2. CASE notify_read_phase(t)
    <2>1. W!Counted' = W!Counted
      BY <1>2
      DEF Inv, TypeOK, W!Counted, notify_read_phase, W!notify_read_phase, W!NotifyAll, W!Woken
    <2>2. QED
      BY <1>1, <2>1, CountKept
  <1>3. CASE transition_to_cleanup(t)
    <2>1. W!Counted' = W!Counted
      BY <1>3
      DEF Inv, TypeOK, W!Counted, transition_to_cleanup, ToCleanupBegin, ToCleanupRefused,
          Cell!ToCleanupRefused, Cell!Refuse, CleanupCheck, W!CleanupTurn, ToCleanupRun,
          Cell!ToCleanupRun, ToCleanupCommit, Cell!ToCleanupCommit, Cell!Step, Cell!Enter
    <2>2. QED
      BY <1>1, <2>1, CountKept
  <1>4. CASE ToReadBegin(t) \/ ToReadRefused(t) \/ ToReadRun(t) \/ ToReadCommit(t)
    <2>1. W!Counted' = W!Counted
      BY <1>4
      DEF Inv, TypeOK, W!Counted, ToReadBegin, Cell!ToReadBegin, ToReadRefused,
          Cell!ToReadRefused, Cell!Refuse, ToReadRun, Cell!ToReadRun, ToReadCommit, Cell!Step,
          Cell!Enter
    <2>2. QED
      BY <1>1, <2>1, CountKept
  <1>5. QED
    BY <1>2, <1>3, <1>4 DEF transition_to_read

\* One reader more, and one more counted, of read_relaxed as of read.
LEMMA ReadCounts ==
  ASSUME Inv, W!CountInv, NEW t \in Threads, read(t) \/ read_relaxed(t)
  PROVE  W!CountInv'
  <1>1. CASE count_up(t)
    <2>1. W!Counted' = W!Counted \cup {t} /\ t \notin W!Counted
      BY <1>1 DEF Inv, TypeOK, W!Counted, count_up, W!count_up, W!Reading, W!Cell!Step
    <2>2. Cardinality(W!Counted') = Cardinality(W!Counted) + 1
      BY <2>1, CountedIsFinite, FS_AddElement
    <2>3. graceful_counter' = graceful_counter + 1 /\ graceful_counter \in Nat
      BY <1>1 DEF Inv, TypeOK, count_up, W!count_up
    <2>4. QED
      BY <2>2, <2>3, CountedIsFinite, SameCounting DEF W!CountInv, W!CounterBounded
  <1>2. CASE ReadBegin(t) \/ ReadRefused(t) \/ ReadRelaxedBegin(t)
    <2>1. W!Counted' = W!Counted /\ UNCHANGED graceful_counter
      BY <1>2
      DEF Inv, TypeOK, W!Counted, ReadBegin, ReadRefused, Cell!ReadRefused, Cell!Refuse,
          ReadRelaxedBegin, Cell!ReadRelaxedBegin, Cell!Enter, waits
    <2>2. QED
      BY <2>1, CountKept
  <1>3. CASE ReadCheck(t) \/ ReadLook(t)
    <2>1. W!Counted' = W!Counted /\ UNCHANGED graceful_counter
      BY <1>3 DEF Inv, TypeOK, W!Counted, ReadCheck, W!ReadCheck, ReadLook, waits
    <2>2. QED
      BY <2>1, CountKept
  <1>4. QED
    BY <1>1, <1>2, <1>3 DEF read, read_relaxed

\* One reader less, and one less counted unless a surplus call has uncounted it before; a
\* surplus call takes the counter no lower than zero.
LEMMA DoneCounts ==
  ASSUME Inv, W!CountInv, NEW t \in Threads, count_down(t) PROVE W!CountInv'
  <1>1. graceful_counter \in Nat
    BY DEF Inv, TypeOK
  <1>2. CASE finish_reading(t)
    <2>1. W!Counted' = W!Counted \ {t} /\ t \in W!Counted
      BY <1>2 DEF Inv, TypeOK, W!Counted, finish_reading, W!finish_reading, W!Decrement
    <2>2. Cardinality(W!Counted') = Cardinality(W!Counted) - 1
      BY <2>1, CountedIsFinite, FS_RemoveElement
    <2>3. Cardinality(W!Counted) > 0
      BY <2>1, CountedIsFinite, FS_EmptySet
    <2>4. graceful_counter' = IF graceful_counter = 0 THEN 0 ELSE graceful_counter - 1
      BY <1>2 DEF finish_reading, W!finish_reading, W!Decrement
    <2>5. QED
      BY <1>1, <2>2, <2>3, <2>4, CountedIsFinite, SameCounting
      DEF W!CountInv, W!CounterBounded
  <1>3. CASE ExcessFinishReading(t)
    <2>1. W!Counted' = W!Counted /\ Misusers # {}
      BY <1>3
      DEF Inv, TypeOK, W!Counted, ExcessFinishReading, W!ExcessFinishReading, W!Decrement
    <2>2. graceful_counter' = IF graceful_counter = 0 THEN 0 ELSE graceful_counter - 1
      BY <1>3 DEF ExcessFinishReading, W!ExcessFinishReading, W!Decrement
    <2>3. QED
      BY <1>1, <2>1, <2>2, CountedIsFinite, SameCounting DEF W!CountInv, W!CounterBounded
  <1>4. CASE NotifyDrained(t)
    <2>1. W!Counted' = W!Counted /\ UNCHANGED graceful_counter
      BY <1>4
      DEF Inv, TypeOK, W!Counted, NotifyDrained, W!NotifyDrained, W!NotifyAll, W!Woken,
          W!graceful
    <2>2. QED
      BY <2>1, CountKept
  <1>5. QED
    BY <1>2, <1>3, <1>4 DEF count_down

\* Nothing else has to do with the counter.
LEMMA OthersCount ==
  ASSUME Inv, W!CountInv, NEW t \in Threads,
         \/ get_mut_unlocked(t) \/ phase_acquire(t)
         \/ WaitLock(t) \/ WaitSleep(t) \/ WaitWake(t) \/ Return(t)
  PROVE  W!CountInv'
  <1>1. CASE get_mut_unlocked(t) \/ phase_acquire(t)
    <2>1. W!Counted' = W!Counted /\ UNCHANGED graceful_counter
      BY <1>1
      DEF Inv, TypeOK, W!Counted, get_mut_unlocked, Cell!get_mut_unlocked, Cell!GetMut,
          Cell!GetMutRefused, Cell!GetMutEnd, Cell!Step, Cell!Enter, Cell!Refuse,
          phase_acquire, Cell!phase_acquire, waits
    <2>2. QED
      BY <2>1, CountKept
  <1>2. CASE WaitLock(t) \/ WaitSleep(t) \/ WaitWake(t) \/ Return(t)
    <2>1. W!Counted' = W!Counted /\ UNCHANGED graceful_counter
      BY <1>2
      DEF Inv, TypeOK, W!Counted, WaitLock, W!WaitLock, WaitSleep, W!WaitSleep, WaitWake,
          W!WaitWake, W!graceful, Return, W!Return, W!Cell!Return
    <2>2. QED
      BY <2>1, CountKept
  <1>3. QED
    BY <1>1, <1>2

\* The counter never exceeds the readers that were counted, and is their number if nobody
\* calls finish_reading without a read.
LEMMA CountInvariance == GracefulSpec => []W!CountInv
  <1>1. GracefulInit => W!CountInv
    <2> SUFFICES ASSUME GracefulInit PROVE W!CountInv
      OBVIOUS
    <2>2. W!Counted = {} /\ graceful_counter = 0
      <3>1. \A t \in Threads : pc[t] = "idle"
        BY DEF GracefulInit, Cell!PhasedCellInit
      <3>2. QED
        BY <3>1 DEF GracefulInit, W!Counted
    <2>3. QED
      BY <2>2, FS_EmptySet, SameCounting DEF W!CountInv, W!CounterBounded
  <1>2. ASSUME Inv, W!CountInv, [GracefulNext]_vars PROVE W!CountInv'
    <2>1. CASE UNCHANGED vars
      BY <1>2, <2>1, CountKept DEF vars, waits, W!Counted
    <2>2. CASE GracefulNext
      BY <1>2, <2>2, TransitionCounts, ReadCounts, DoneCounts, OthersCount DEF GracefulNext
    <2>3. QED
      BY <1>2, <2>1, <2>2
  <1>3. QED
    BY <1>1, <1>2, Invariance, PTL DEF GracefulSpec

\* The counter of this cell never wraps below zero nor counts a reader that is gone, however
\* many calls of finish_reading there are.
THEOREM CounterIsBounded == GracefulSpec => []W!CounterBounded
  <1>1. W!CountInv => W!CounterBounded
    BY DEF W!CountInv
  <1>2. QED
    BY <1>1, CountInvariance, PTL

\* If nobody calls finish_reading without a read, a cleanup's wait ends well only when no
\* counted reader is left, from Setup as from Read.
THEOREM CleanupAwaitsReaders ==
  ASSUME Misusers = {} PROVE GracefulSpec => W!WaitOkOnlyWhenDrained
  <1>1. ASSUME Inv, W!CountInv, NEW u \in Threads, CleanupCheck(u), NEW t \in Threads,
               result_w[t] # "Ok", result_w'[t] = "Ok"
        PROVE  W!Counted = {}
    <2>1. graceful_counter = 0
      BY <1>1 DEF Inv, TypeOK, CleanupCheck, W!CleanupTurn
    <2>2. QED
      BY <1>1, <2>1, CountedIsFinite, FS_EmptySet, SameCounting DEF W!CountInv
  <1>2. ASSUME Inv, NEW u \in Threads, Return(u), NEW t \in Threads, result_w'[t] = "Ok"
        PROVE  result_w[t] = "Ok"
    BY <1>2 DEF Inv, TypeOK, Return, W!Return
  <1>3. ASSUME Inv, [GracefulNext]_vars, ~UNCHANGED result_w
        PROVE  \E u \in Threads : CleanupCheck(u) \/ Return(u)
    BY <1>3
    DEF GracefulNext, vars, waits, transition_to_read, transition_to_cleanup, read,
        read_relaxed, count_down, ToReadBegin, ToReadRefused, ToReadRun, ToReadCommit,
        notify_read_phase, W!notify_read_phase, W!graceful, ToCleanupBegin, ToCleanupRefused,
        ToCleanupRun, ToCleanupCommit, ReadBegin, ReadRefused, ReadCheck, W!ReadCheck,
        ReadLook, count_up, W!count_up, ReadRelaxedBegin, finish_reading, W!finish_reading,
        ExcessFinishReading, W!ExcessFinishReading, W!Decrement, NotifyDrained,
        W!NotifyDrained, get_mut_unlocked, phase_acquire, WaitLock, W!WaitLock, WaitSleep,
        W!WaitSleep, WaitWake, W!WaitWake
  <1>4. Inv /\ W!CountInv /\ [GracefulNext]_vars =>
          \A t \in Threads : result_w[t] # "Ok" /\ result_w'[t] = "Ok" => W!Counted = {}
    BY <1>1, <1>2, <1>3
  <1>5. QED
    BY <1>4, Invariance, CountInvariance, PTL DEF GracefulSpec, W!WaitOkOnlyWhenDrained

-----------------------------------------------------------------------------
(* Deadlock *)

\* A sleeping cleanup has a reader to wait for, a sleeping reader a transition to Read.
LEMMA SomeoneIsWaitedFor ==
  ASSUME Inv, W!CountInv, PP!Inv, NEW t \in Threads, W!Blocked(t)
  PROVE  \E u \in Threads : W!WaitsFor(t, u)
  <1>1. CASE W!WantsGraceful(t) /\ graceful_holder # Nobody
    BY <1>1 DEF Inv, TypeOK, W!WaitsFor
  <1>2. CASE pc[t] = "asleep" /\ call[t] = "transition_to_cleanup"
    <2>1. CASE graceful_counter = 0
      BY <1>2, <2>1 DEF Inv, WakeInv, W!WaitsFor
    <2>2. CASE graceful_counter # 0
      <3>1. W!Counted # {}
        BY <2>2, FS_EmptySet, SameCounting
        DEF Inv, TypeOK, W!CountInv, W!CounterBounded
      <3>2. QED
        BY <1>2, <3>1 DEF W!Counted, W!WaitsFor
    <2>3. QED
      BY <2>1, <2>2
  <1>3. CASE pc[t] = "asleep" /\ call[t] = "read"
    <2>1. CASE phase # PHASE_SETUP_TO_READ
      BY <1>3, <2>1 DEF Inv, PlaceAt, WakeInv, W!WaitsFor, W!PHASE_SETUP_TO_READ
    <2>2. CASE phase = PHASE_SETUP_TO_READ
      <3>1. PICK u \in Threads : PP!InTransition(u)
        BY <2>2
        DEF PP!Inv, PP!PhaseInv, PP!InTransit, PP!PHASE_SETUP, PP!PHASE_READ, PP!PHASE_CLEANUP,
            PP!PHASE_SETUP_TO_READ, PP!PHASE_READ_TO_CLEANUP, PP!PHASE_SETUP_TO_CLEANUP
      <3>2. callBar[u] = "transition_to_read"
        BY <2>2, <3>1
        DEF PP!Inv, PP!PhaseInv, PP!Via, PP!PHASE_READ, PP!PHASE_SETUP_TO_READ,
            PP!PHASE_READ_TO_CLEANUP, PP!PHASE_SETUP_TO_CLEANUP
      <3>3. pcBar[u] \in {"run", "commit"} /\ call[u] = "transition_to_read"
        BY <3>1, <3>2 DEF PP!InTransition, callBar
      <3>4. pc[u] \in {"run", "commit"}
        BY <3>3 DEF pcBar
      <3>5. QED
        BY <1>3, <3>3, <3>4 DEF W!WaitsFor
    <2>3. QED
      BY <2>1, <2>2
  <1>4. QED
    BY <1>1, <1>2, <1>3 DEF W!Blocked, NoMutex, Inv, PlaceAt, W!Waiting

\* No deadlock: whoever cannot go on waits for somebody, and nobody who is waited for sleeps
\* or waits, directly or not, for who waits for it.  At the end of each chain is a thread that
\* can go on, or a reader that keeps its &T.
THEOREM NobodyWaitsInACircle == GracefulSpec => []W!NoCircularWait
  <1>1. ASSUME Inv, NEW t \in Threads, NEW u \in Threads, W!WaitsFor(t, u)
        PROVE  W!WaitLevel(u) < W!WaitLevel(t)
    <2>1. CASE W!WantsGraceful(t) /\ graceful_holder = u
      BY <1>1, <2>1
      DEF Inv, GateInv, W!WaitLevel, W!WantsData, W!WantsGraceful
    <2>2. CASE pc[t] = "asleep"
      BY <1>1, <2>2 DEF W!WaitsFor, W!WaitLevel, W!WantsData, W!WantsGraceful
    <2>3. ~(W!WantsData(t) /\ NoMutex.holder = u)
      BY W!GracefulAssumption DEF W!GracefulAssumption, NoMutex
    <2>4. QED
      BY <1>1, <2>1, <2>2, <2>3 DEF W!WaitsFor
  <1>2. Inv /\ W!CountInv /\ PP!Inv => W!NoCircularWait
    BY <1>1, SomeoneIsWaitedFor DEF W!NoCircularWait
  <1>3. GracefulSpec => []PP!Inv
    BY SeenAsCell, PP!Invariance, NobodyIsNoThread, PTL
  <1>4. QED
    BY <1>2, <1>3, Invariance, CountInvariance, PTL
===============================================================================
