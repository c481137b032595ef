-------------------- MODULE GracefulPhasedCellSyncRefinement --------------------
(***************************************************************************)
(* GracefulPhasedCellSync implements PhasedCellSync, for any finite set of *)
(* threads, with and without time-outs and misuse.                         *)
(*                                                                         *)
(* One lemma per action says that the step it takes, seen through pcBar,   *)
(* callBar, oldBar and resBar, is a step of PhasedCellSync or none.        *)
(***************************************************************************)
EXTENDS GracefulPhasedCellSyncProofs

\* The phase codes stand for their strings everywhere below.
USE DEF PHASE_SETUP, PHASE_READ, PHASE_CLEANUP, PHASE_SETUP_TO_READ,
        PHASE_READ_TO_CLEANUP, PHASE_SETUP_TO_CLEANUP,
        Cell!PHASE_SETUP, Cell!PHASE_READ, Cell!PHASE_CLEANUP, Cell!PHASE_SETUP_TO_READ,
        Cell!PHASE_READ_TO_CLEANUP, Cell!PHASE_SETUP_TO_CLEANUP,
        P!PHASE_SETUP, P!PHASE_READ, P!PHASE_CLEANUP, P!PHASE_SETUP_TO_READ,
        P!PHASE_READ_TO_CLEANUP, P!PHASE_SETUP_TO_CLEANUP

-----------------------------------------------------------------------------
(* What the mapping rests on, beside Inv *)

\* A thread at the data, or about to release data_mutex, holds it.
HoldsAt(t) == pc[t] \in {"run", "swap", "commit", "unlock", "guard"} => holder = t

\* Which method is at which place.
PlaceAt(t) ==
    /\ pc[t] = "idle" <=> call[t] = "none"
    /\ pc[t] \in {"look", "count", "reading"} => call[t] \in Reading
    /\ pc[t] \in {"lock", "guard"} => call[t] \notin Reading
    /\ pc[t] \in {"run", "swap", "commit"}
          => call[t] \in {"transition_to_read", "transition_to_cleanup"}
    /\ pc[t] = "notify" => call[t] = "transition_to_read"
    /\ call[t] = "finish_reading" => pc[t] \in {"ret", "last"}

\* A call that PhasedCellSync does not know of, or that has only begun, has no result;
\* and what it has loaded is as in a new cell, unless it goes on with it.
FreshAt(t) ==
    /\ pc[t] \in {"idle", "look", "peeked", "lock", "gate", "check", "wait", "asleep"}
          => res[t] = NoResult
    /\ call[t] \in {"none", "finish_reading"} => res[t] = NoResult /\ old[t] = PHASE_SETUP
    /\ call[t] = "read_relaxed" /\ pc[t] = "look" => old[t] = PHASE_READ

BarAt(t) == HoldsAt(t) /\ PlaceAt(t) /\ FreshAt(t)
BarInv == \A t \in Threads : BarAt(t)

\* A step of thread t leaves every other thread as it was, but for waking it.
Others(t) ==
    \A u \in Threads \ {t} :
        /\ call'[u] = call[u] /\ old'[u] = old[u] /\ res'[u] = res[u]
        /\ \/ pc'[u] = pc[u]
           \/ pc[u] = "asleep" /\ pc'[u] = "gate"
        /\ holder' = u <=> holder = u

\* The others' part of BarInv is preserved.
LEMMA OthersBar ==
  ASSUME Inv, BarInv, NEW t \in Threads, Others(t), BarAt(t)' PROVE BarInv'
  BY DEF BarInv, BarAt, HoldsAt, PlaceAt, FreshAt, Others

\* The mapped variables are functions of the threads, before and after a step.
LEMMA BarFunctions ==
  /\ pcBar   = [u \in Threads |-> pcBar[u]]   /\ pcBar'   = [u \in Threads |-> pcBar'[u]]
  /\ callBar = [u \in Threads |-> callBar[u]] /\ callBar' = [u \in Threads |-> callBar'[u]]
  /\ oldBar  = [u \in Threads |-> oldBar[u]]  /\ oldBar'  = [u \in Threads |-> oldBar'[u]]
  /\ resBar  = [u \in Threads |-> resBar[u]]  /\ resBar'  = [u \in Threads |-> resBar'[u]]
  <1>1. pcBar = [u \in Threads |-> pcBar[u]] /\ pcBar' = [u \in Threads |-> pcBar'[u]]
    BY DEF pcBar
  <1>2. callBar = [u \in Threads |-> callBar[u]] /\ callBar' = [u \in Threads |-> callBar'[u]]
    BY DEF callBar
  <1>3. oldBar = [u \in Threads |-> oldBar[u]] /\ oldBar' = [u \in Threads |-> oldBar'[u]]
    BY DEF oldBar
  <1>4. resBar = [u \in Threads |-> resBar[u]] /\ resBar' = [u \in Threads |-> resBar'[u]]
    BY DEF resBar
  <1>5. QED
    BY <1>1, <1>2, <1>3, <1>4

\* Seen through the mapping, only t has moved.
LEMMA OthersShow ==
  ASSUME Inv, NEW t \in Threads, Others(t)
  PROVE  /\ pcBar'   = [pcBar   EXCEPT ![t] = pcBar'[t]]
         /\ callBar' = [callBar EXCEPT ![t] = callBar'[t]]
         /\ oldBar'  = [oldBar  EXCEPT ![t] = oldBar'[t]]
         /\ resBar'  = [resBar  EXCEPT ![t] = resBar'[t]]
         /\ callBar'[t] = callBar[t] => callBar' = callBar
         /\ oldBar'[t] = oldBar[t] => oldBar' = oldBar
         /\ resBar'[t] = resBar[t] => resBar' = resBar
  <1>1. \A u \in Threads \ {t} : pcBar'[u] = pcBar[u]
    BY DEF Inv, GateInv, Waiting, SeenIdle, Others, pcBar
  <1>2. \A u \in Threads \ {t} : callBar'[u] = callBar[u] /\ oldBar'[u] = oldBar[u]
    BY <1>1 DEF Others, callBar, oldBar
  <1>3. \A u \in Threads \ {t} : resBar'[u] = resBar[u]
    BY DEF Others, resBar
  <1>4. pcBar' = [pcBar EXCEPT ![t] = pcBar'[t]]
    BY <1>1, BarFunctions
  <1>5. /\ callBar' = [callBar EXCEPT ![t] = callBar'[t]]
        /\ oldBar' = [oldBar EXCEPT ![t] = oldBar'[t]]
    BY <1>2, BarFunctions
  <1>6. resBar' = [resBar EXCEPT ![t] = resBar'[t]]
    BY <1>3, BarFunctions
  <1>7. /\ callBar'[t] = callBar[t] => callBar' = callBar
        /\ oldBar'[t] = oldBar[t] => oldBar' = oldBar
    BY <1>2, BarFunctions
  <1>8. resBar'[t] = resBar[t] => resBar' = resBar
    BY <1>3, BarFunctions
  <1>9. QED
    BY <1>4, <1>5, <1>6, <1>7, <1>8

\* A step that leaves t where it was seen, too, is no step of PhasedCellSync.
LEMMA NoStep ==
  ASSUME Inv, NEW t \in Threads, Others(t),
         pcBar'[t] = pcBar[t], callBar'[t] = callBar[t], oldBar'[t] = oldBar[t],
         resBar'[t] = resBar[t], UNCHANGED <<phase, data, mutex>>
  PROVE  UNCHANGED P!vars
  <1>1. pcBar' = pcBar
    BY OthersShow, BarFunctions
  <1>2. callBar' = callBar /\ oldBar' = oldBar
    BY OthersShow
  <1>3. resBar' = resBar
    BY OthersShow
  <1>4. QED
    BY <1>1, <1>2, <1>3 DEF P!vars, data, mutex

-----------------------------------------------------------------------------
(* The two instances of PhasedCellSync share the results of Phase. *)

LEMMA SameErr ==
  ASSUME NEW c, NEW k
  PROVE  P!Err(c, k) = Err(c, k) /\ Cell!Err(c, k) = Err(c, k) /\ Err(c, k).kind = k
  BY DEF P!Err, Cell!Err, Err, P!u8_to_phase, Cell!u8_to_phase, u8_to_phase

LEMMA SameResults ==
  /\ P!Ok = Ok /\ P!Panic = Panic /\ P!NoResult = NoResult
  /\ Cell!Ok = Ok /\ Cell!Panic = Panic /\ Cell!NoResult = NoResult
  BY DEF P!Ok, P!Panic, P!NoResult, Cell!Ok, Cell!Panic, Cell!NoResult, Ok, Panic, NoResult

LEMMA SameRefusals ==
  ASSUME NEW c
  PROVE  /\ P!ToReadRefusal(c) = ToReadRefusal(c) /\ Cell!ToReadRefusal(c) = ToReadRefusal(c)
         /\ P!ToCleanupRefusal(c) = ToCleanupRefusal(c)
         /\ Cell!ToCleanupRefusal(c) = ToCleanupRefusal(c)
         /\ P!LockRefusal(c) = LockRefusal(c)
  <1>1. P!ToReadRefusal(c) = ToReadRefusal(c) /\ Cell!ToReadRefusal(c) = ToReadRefusal(c)
    BY SameErr DEF P!ToReadRefusal, Cell!ToReadRefusal, ToReadRefusal
  <1>2. /\ P!ToCleanupRefusal(c) = ToCleanupRefusal(c)
        /\ Cell!ToCleanupRefusal(c) = ToCleanupRefusal(c)
    BY SameErr DEF P!ToCleanupRefusal, Cell!ToCleanupRefusal, ToCleanupRefusal
  <1>3. P!LockRefusal(c) = LockRefusal(c)
    BY SameErr DEF P!LockRefusal, LockRefusal
  <1>4. QED
    BY <1>1, <1>2, <1>3

\* The kinds of result that resBar translates.
Translated == {"GracefulWaitTimeout", "InternalDataMutexIsPoisoned", "InternalDataUnavailable",
               "MutexTryLockFailed"}

\* Refusals are not among them.
LEMMA RefusalKinds ==
  ASSUME NEW c
  PROVE  /\ ToReadRefusal(c).kind \notin Translated
         /\ ToCleanupRefusal(c).kind \notin Translated
         /\ LockRefusal(c).kind \notin Translated
  <1>1. ToReadRefusal(c).kind \notin Translated
    BY DEF ToReadRefusal, Err, Translated
  <1>2. ToCleanupRefusal(c).kind \notin Translated
    BY DEF ToCleanupRefusal, Err, Translated
  <1>3. LockRefusal(c).kind \notin Translated
    BY DEF LockRefusal, Err, Translated
  <1>4. QED
    BY <1>1, <1>2, <1>3

-----------------------------------------------------------------------------
(* transition_to_read *)

LEMMA ToReadBeginMaps ==
  ASSUME Inv, BarInv, NEW t \in Threads, ToReadBegin(t)
  PROVE  Others(t) /\ BarAt(t)' /\ P!ToReadBegin(t)
  <1>1. Others(t)
    BY DEF Inv, TypeOK, Others, ToReadBegin, Cell!ToReadBegin, Cell!Enter, Cell!data,
       Cell!mutex, graceful
  <1>2. BarAt(t)'
    BY DEF Inv, TypeOK, BarInv, BarAt, HoldsAt, PlaceAt, FreshAt, Reading, ToReadBegin,
       Cell!ToReadBegin, Cell!Enter, Cell!data, Cell!mutex, graceful
  <1>3. /\ pcBar[t] = "idle" /\ pcBar'[t] = "lock" /\ callBar'[t] = "transition_to_read"
        /\ oldBar'[t] = phase /\ resBar'[t] = resBar[t]
    BY DEF Inv, TypeOK, BarInv, BarAt, PlaceAt, FreshAt, Reading, NoResult, ToReadBegin,
       Cell!ToReadBegin, Cell!Enter, Cell!data, Cell!mutex, graceful, pcBar, callBar, oldBar,
       resBar, SeenIdle, Waiting
  <1>4. QED
    BY <1>1, <1>2, <1>3, OthersShow
    DEF ToReadBegin, Cell!ToReadBegin, Cell!Enter, Cell!data, Cell!mutex, graceful,
        P!ToReadBegin, P!Enter, P!data, P!mutex

LEMMA ToReadRefusedMaps ==
  ASSUME Inv, BarInv, NEW t \in Threads, ToReadRefused(t)
  PROVE  Others(t) /\ BarAt(t)' /\ P!ToReadRefused(t)
  <1>1. Others(t)
    BY DEF Inv, TypeOK, Others, ToReadRefused, Cell!ToReadRefused, Cell!Refuse, Cell!Enter,
       Cell!data, Cell!mutex, graceful
  <1>2. BarAt(t)'
    BY DEF Inv, TypeOK, BarInv, BarAt, HoldsAt, PlaceAt, FreshAt, Reading, ToReadRefused,
       Cell!ToReadRefused, Cell!Refuse, Cell!Enter, Cell!data, Cell!mutex, graceful
  <1>3. /\ pcBar[t] = "idle" /\ pcBar'[t] = "ret" /\ callBar'[t] = "transition_to_read"
        /\ oldBar'[t] = phase /\ resBar'[t] = ToReadRefusal(phase)
    BY SameRefusals, RefusalKinds
    DEF Inv, TypeOK, BarInv, BarAt, PlaceAt, FreshAt, Translated, ToReadRefused,
        Cell!ToReadRefused, Cell!Refuse, Cell!Enter, Cell!data, Cell!mutex, graceful, pcBar,
        callBar, oldBar, resBar, SeenIdle, Waiting
  <1>4. QED
    BY <1>1, <1>2, <1>3, OthersShow, SameRefusals, RefusalKinds
    DEF ToReadRefused, Cell!ToReadRefused, Cell!Refuse, Cell!Enter, Cell!data, Cell!mutex,
        graceful, P!ToReadRefused, P!Refuse, P!Enter, P!data, P!mutex

LEMMA ToReadLockMaps ==
  ASSUME Inv, BarInv, NEW t \in Threads, ToReadLock(t)
  PROVE  Others(t) /\ BarAt(t)' /\ P!ToReadLock(t)
  <1>1. Others(t)
    BY GracefulAssumption
    DEF Inv, TypeOK, Others, BarInv, BarAt, HoldsAt, ToReadLock, Cell!ToReadLock, Cell!Step,
        Cell!data, Cell!mutex, graceful
  <1>2. BarAt(t)'
    BY GracefulAssumption
    DEF Inv, TypeOK, BarInv, BarAt, HoldsAt, PlaceAt, FreshAt, Reading, ToReadLock,
        Cell!ToReadLock, Cell!Step, Cell!data, Cell!mutex, graceful
  <1>3. /\ pcBar[t] = "lock"
        /\ pcBar'[t] = IF P!ToReadFault(t) = NoResult THEN "run" ELSE "commit"
        /\ callBar[t] = "transition_to_read" /\ callBar'[t] = callBar[t]
        /\ oldBar[t] = old[t] /\ oldBar'[t] = oldBar[t] /\ resBar'[t] = P!ToReadFault(t)
    BY SameResults, SameErr
    DEF Inv, TypeOK, BarInv, BarAt, PlaceAt, FreshAt, Cell!ToReadFault, P!ToReadFault, NoResult,
        ToReadLock, Cell!ToReadLock, Cell!Step, Cell!data, Cell!mutex, graceful, pcBar, callBar,
        oldBar, resBar, SeenIdle, Waiting
  <1>4. QED
    BY <1>1, <1>2, <1>3, OthersShow, SameResults
    DEF ToReadLock, Cell!ToReadLock, Cell!Step, Cell!data, Cell!mutex, graceful, P!ToReadLock,
        P!Step, P!data, P!mutex

LEMMA ToReadRunMaps ==
  ASSUME Inv, BarInv, NEW t \in Threads, ToReadRun(t)
  PROVE  Others(t) /\ BarAt(t)' /\ P!ToReadRun(t)
  <1>1. Others(t)
    BY DEF Inv, TypeOK, Others, ToReadRun, Cell!ToReadRun, Cell!Step, Cell!data, Cell!mutex,
       graceful
  <1>2. BarAt(t)'
    BY DEF Inv, TypeOK, BarInv, BarAt, HoldsAt, PlaceAt, FreshAt, Reading, ToReadRun,
       Cell!ToReadRun, Cell!Step, Cell!data, Cell!mutex, graceful
  <1>3. /\ pcBar[t] = "run" /\ callBar[t] = "transition_to_read" /\ callBar'[t] = callBar[t]
        /\ oldBar[t] = old[t] /\ oldBar'[t] = oldBar[t]
        /\ \E r \in {Ok, Panic, Err(PHASE_SETUP, "FailToRunClosureDuringTransitionToRead")} :
              pcBar'[t] = (IF r = Ok THEN "swap" ELSE "commit") /\ resBar'[t] = r
    BY SameErr, SameResults
    DEF Inv, TypeOK, BarInv, BarAt, PlaceAt, FreshAt, Ok, Panic, ToReadRun, Cell!ToReadRun,
        Cell!Step, Cell!data, Cell!mutex, graceful, pcBar, callBar, oldBar, resBar, SeenIdle,
        Waiting
  <1>4. QED
    BY <1>1, <1>2, <1>3, OthersShow, SameErr, SameResults
    DEF ToReadRun, Cell!ToReadRun, Cell!Step, Cell!data, Cell!mutex, graceful, P!ToReadRun,
        P!Step, P!data, P!mutex

LEMMA ToReadSwapMaps ==
  ASSUME Inv, BarInv, NEW t \in Threads, ToReadSwap(t)
  PROVE  Others(t) /\ BarAt(t)' /\ P!ToReadSwap(t)
  <1>1. Others(t)
    BY DEF Inv, TypeOK, Others, ToReadSwap, Cell!ToReadSwap, Cell!Step, Cell!data, Cell!mutex,
       graceful
  <1>2. BarAt(t)'
    BY DEF Inv, TypeOK, BarInv, BarAt, HoldsAt, PlaceAt, FreshAt, Reading, ToReadSwap,
       Cell!ToReadSwap, Cell!Step, Cell!data, Cell!mutex, graceful
  <1>3. /\ pcBar[t] = "swap" /\ pcBar'[t] = "commit" /\ callBar[t] = "transition_to_read"
        /\ callBar'[t] = callBar[t] /\ oldBar[t] = old[t] /\ oldBar'[t] = oldBar[t]
        /\ resBar'[t] = resBar[t]
    BY DEF Inv, TypeOK, BarInv, BarAt, PlaceAt, FreshAt, ToReadSwap, Cell!ToReadSwap, Cell!Step,
       Cell!data, Cell!mutex, graceful, pcBar, callBar, oldBar, resBar, SeenIdle, Waiting
  <1>4. QED
    BY <1>1, <1>2, <1>3, OthersShow
    DEF ToReadSwap, Cell!ToReadSwap, Cell!Step, Cell!data, Cell!mutex, graceful, P!ToReadSwap,
        P!Step, P!data, P!mutex

LEMMA ToReadCommitMaps ==
  ASSUME Inv, BarInv, NEW t \in Threads, ToReadCommit(t)
  PROVE  Others(t) /\ BarAt(t)' /\ P!ToReadCommit(t)
  <1>1. Others(t)
    BY DEF Inv, TypeOK, Others, ToReadCommit, Cell!Step, Cell!change_phase, data, mutex,
       graceful
  <1>2. BarAt(t)'
    BY DEF Inv, TypeOK, BarInv, BarAt, HoldsAt, PlaceAt, FreshAt, Reading, ToReadCommit,
       Cell!Step, Cell!change_phase, data, mutex, graceful
  <1>3. /\ pcBar[t] = "commit" /\ pcBar'[t] = "unlock" /\ callBar[t] = "transition_to_read"
        /\ callBar'[t] = callBar[t] /\ oldBar[t] = old[t] /\ oldBar'[t] = oldBar[t]
        /\ resBar'[t] = resBar[t]
        /\ resBar[t] = Ok <=> res[t] = Ok
    BY SameResults, SameErr
    DEF Inv, TypeOK, BarInv, BarAt, PlaceAt, FreshAt, HoldsAt, Ok, ToReadCommit, Cell!Step,
        Cell!change_phase, data, mutex, graceful, pcBar, callBar, oldBar, resBar, SeenIdle,
        Waiting
  <1>4. QED
    BY <1>1, <1>2, <1>3, OthersShow, SameResults
    DEF ToReadCommit, Cell!Step, Cell!change_phase, data, mutex, graceful, P!ToReadCommit,
        P!Step, P!change_phase, P!data, P!mutex

LEMMA notify_read_phaseMaps ==
  ASSUME Inv, BarInv, NEW t \in Threads, notify_read_phase(t)
  PROVE  Others(t) /\ BarAt(t)' /\ UNCHANGED P!vars
  <1>1. Others(t)
    BY DEF Inv, TypeOK, Others, notify_read_phase, NotifyAll, Woken, data, mutex, graceful
  <1>2. BarAt(t)'
    BY DEF Inv, TypeOK, BarInv, BarAt, HoldsAt, PlaceAt, FreshAt, Reading, notify_read_phase,
       NotifyAll, Woken, data, mutex, graceful
  <1>3. /\ pcBar'[t] = pcBar[t] /\ callBar'[t] = callBar[t] /\ oldBar'[t] = oldBar[t]
        /\ resBar'[t] = resBar[t]
    BY DEF Inv, TypeOK, BarInv, BarAt, PlaceAt, FreshAt, notify_read_phase, NotifyAll, Woken,
       data, mutex, graceful, pcBar, callBar, oldBar, resBar, SeenIdle, Waiting
  <1>4. QED
    BY <1>1, <1>2, <1>3, NoStep DEF notify_read_phase, NotifyAll, Woken, data, mutex, graceful

LEMMA UnlockMaps ==
  ASSUME Inv, BarInv, NEW t \in Threads, Unlock(t)
  PROVE  Others(t) /\ BarAt(t)' /\ P!Unlock(t)
  <1>1. Others(t)
    BY GracefulAssumption
    DEF Inv, TypeOK, Others, BarInv, BarAt, HoldsAt, Unlock, data, mutex, graceful
  <1>2. BarAt(t)'
    BY GracefulAssumption
    DEF Inv, TypeOK, BarInv, BarAt, HoldsAt, PlaceAt, FreshAt, Reading, Unlock, data, mutex,
        graceful
  <1>3. /\ pcBar[t] = "unlock" /\ pcBar'[t] = "ret" /\ callBar'[t] = callBar[t]
        /\ oldBar'[t] = oldBar[t] /\ resBar'[t] = resBar[t]
    BY GracefulAssumption
    DEF Inv, TypeOK, BarInv, BarAt, PlaceAt, FreshAt, Reading, Unlock, data, mutex, graceful,
        pcBar, callBar, oldBar, resBar, SeenIdle, Waiting
  <1>4. QED
    BY <1>1, <1>2, <1>3, OthersShow
    DEF Unlock, data, mutex, graceful, P!Unlock, P!data, P!mutex

-----------------------------------------------------------------------------
(* transition_to_cleanup *)

LEMMA ToCleanupBeginMaps ==
  ASSUME Inv, BarInv, NEW t \in Threads, ToCleanupBegin(t)
  PROVE  Others(t) /\ BarAt(t)' /\ P!ToCleanupBegin(t)
  <1>1. Others(t)
    BY DEF Inv, TypeOK, Others, ToCleanupBegin, Cell!Enter, data, mutex, graceful
  <1>2. BarAt(t)'
    BY DEF Inv, TypeOK, BarInv, BarAt, HoldsAt, PlaceAt, FreshAt, Reading, ToCleanupBegin,
       Cell!Enter, data, mutex, graceful
  <1>3. /\ pcBar[t] = "idle" /\ pcBar'[t] = "lock" /\ callBar'[t] = "transition_to_cleanup"
        /\ oldBar'[t] = phase /\ resBar'[t] = resBar[t]
    BY DEF Inv, TypeOK, BarInv, BarAt, PlaceAt, FreshAt, NoResult, ToCleanupBegin, Cell!Enter,
       data, mutex, graceful, pcBar, callBar, oldBar, resBar, SeenIdle, Waiting
  <1>4. QED
    BY <1>1, <1>2, <1>3, OthersShow
    DEF P!Via, Via, ToCleanupBegin, Cell!Enter, data, mutex, graceful, P!ToCleanupBegin,
        P!Enter, P!data, P!mutex

LEMMA ToCleanupRefusedMaps ==
  ASSUME Inv, BarInv, NEW t \in Threads, ToCleanupRefused(t)
  PROVE  Others(t) /\ BarAt(t)' /\ P!ToCleanupRefused(t)
  <1>1. Others(t)
    BY DEF Inv, TypeOK, Others, ToCleanupRefused, Cell!ToCleanupRefused, Cell!Refuse,
       Cell!Enter, Cell!data, Cell!mutex, graceful
  <1>2. BarAt(t)'
    BY DEF Inv, TypeOK, BarInv, BarAt, HoldsAt, PlaceAt, FreshAt, Reading, ToCleanupRefused,
       Cell!ToCleanupRefused, Cell!Refuse, Cell!Enter, Cell!data, Cell!mutex, graceful
  <1>3. /\ pcBar[t] = "idle" /\ pcBar'[t] = "ret" /\ callBar'[t] = "transition_to_cleanup"
        /\ oldBar'[t] = phase /\ resBar'[t] = ToCleanupRefusal(phase)
    BY SameRefusals, RefusalKinds
    DEF Inv, TypeOK, BarInv, BarAt, PlaceAt, FreshAt, Translated, ToCleanupRefused,
        Cell!ToCleanupRefused, Cell!Refuse, Cell!Enter, Cell!data, Cell!mutex, graceful, pcBar,
        callBar, oldBar, resBar, SeenIdle, Waiting
  <1>4. QED
    BY <1>1, <1>2, <1>3, OthersShow, SameRefusals, RefusalKinds
    DEF ToCleanupRefused, Cell!ToCleanupRefused, Cell!Refuse, Cell!Enter, Cell!data, Cell!mutex,
        graceful, P!ToCleanupRefused, P!Refuse, P!Enter, P!data, P!mutex

LEMMA CleanupCheckMaps ==
  ASSUME Inv, BarInv, NEW t \in Threads, CleanupCheck(t)
  PROVE  Others(t) /\ BarAt(t)' /\ UNCHANGED P!vars
  <1>1. Others(t)
    BY DEF Inv, TypeOK, Others, CleanupCheck, CleanupTurn, data, mutex
  <1>2. BarAt(t)'
    BY DEF Inv, TypeOK, BarInv, BarAt, HoldsAt, PlaceAt, FreshAt, Reading, CleanupCheck,
       CleanupTurn, data, mutex
  <1>3. /\ pcBar'[t] = pcBar[t] /\ callBar'[t] = callBar[t] /\ oldBar'[t] = oldBar[t]
        /\ resBar'[t] = resBar[t]
    BY DEF Inv, TypeOK, BarInv, BarAt, PlaceAt, FreshAt, CleanupCheck, CleanupTurn, data, mutex,
       pcBar, callBar, oldBar, resBar, SeenIdle, Waiting
  <1>4. QED
    BY <1>1, <1>2, <1>3, NoStep DEF CleanupCheck, CleanupTurn, data, mutex

LEMMA ToCleanupLockMaps ==
  ASSUME Inv, BarInv, NEW t \in Threads, ToCleanupLock(t)
  PROVE  Others(t) /\ BarAt(t)' /\ P!ToCleanupLock(t)
  <1>1. Others(t)
    BY GracefulAssumption
    DEF Inv, TypeOK, Others, BarInv, BarAt, HoldsAt, ToCleanupLock, Cell!ToCleanupLock,
        Cell!Step, Cell!data, Cell!mutex, graceful
  <1>2. BarAt(t)'
    BY GracefulAssumption
    DEF Inv, TypeOK, BarInv, BarAt, HoldsAt, PlaceAt, FreshAt, Reading, ToCleanupLock,
        Cell!ToCleanupLock, Cell!Step, Cell!data, Cell!mutex, graceful
  <1>3. /\ pcBar[t] = "lock"
        /\ pcBar'[t] = IF P!ToCleanupFault(t) = NoResult THEN "run" ELSE "commit"
        /\ callBar[t] = "transition_to_cleanup" /\ callBar'[t] = callBar[t]
        /\ oldBar[t] = old[t] /\ oldBar'[t] = oldBar[t] /\ resBar'[t] = P!ToCleanupFault(t)
    BY SameResults, SameErr
    DEF Inv, TypeOK, BarInv, BarAt, PlaceAt, FreshAt, Cell!ToCleanupFault, P!ToCleanupFault,
        NoResult, ToCleanupLock, Cell!ToCleanupLock, Cell!Step, Cell!data, Cell!mutex, graceful,
        pcBar, callBar, oldBar, resBar, SeenIdle, Waiting
  <1>4. QED
    BY <1>1, <1>2, <1>3, OthersShow, SameResults
    DEF ToCleanupLock, Cell!ToCleanupLock, Cell!Step, Cell!data, Cell!mutex, graceful,
        P!ToCleanupLock, P!Step, P!data, P!mutex

LEMMA ToCleanupRunMaps ==
  ASSUME Inv, BarInv, NEW t \in Threads, ToCleanupRun(t)
  PROVE  Others(t) /\ BarAt(t)' /\ P!ToCleanupRun(t)
  <1>1. Others(t)
    BY DEF Inv, TypeOK, Others, ToCleanupRun, Cell!ToCleanupRun, Cell!Step, Cell!data,
       Cell!mutex, graceful
  <1>2. BarAt(t)'
    BY DEF Inv, TypeOK, BarInv, BarAt, HoldsAt, PlaceAt, FreshAt, Reading, ToCleanupRun,
       Cell!ToCleanupRun, Cell!Step, Cell!data, Cell!mutex, graceful
  <1>3. /\ pcBar[t] = "run" /\ pcBar'[t] = IF old[t] = PHASE_READ THEN "swap" ELSE "commit"
        /\ callBar[t] = "transition_to_cleanup" /\ callBar'[t] = callBar[t]
        /\ oldBar[t] = old[t] /\ oldBar'[t] = oldBar[t]
        /\ resBar'[t] \in {Ok, Panic,
                          Err(PHASE_CLEANUP, "FailToRunClosureDuringTransitionToCleanup")}
    BY SameErr, SameResults
    DEF Inv, TypeOK, BarInv, BarAt, PlaceAt, FreshAt, Ok, Panic, ToCleanupRun,
        Cell!ToCleanupRun, Cell!Step, Cell!data, Cell!mutex, graceful, pcBar, callBar, oldBar,
        resBar, SeenIdle, Waiting
  <1>4. QED
    BY <1>1, <1>2, <1>3, OthersShow, SameErr, SameResults
    DEF ToCleanupRun, Cell!ToCleanupRun, Cell!Step, Cell!data, Cell!mutex, graceful,
        P!ToCleanupRun, P!Step, P!data, P!mutex

LEMMA ToCleanupSwapMaps ==
  ASSUME Inv, BarInv, NEW t \in Threads, ToCleanupSwap(t)
  PROVE  Others(t) /\ BarAt(t)' /\ P!ToCleanupSwap(t)
  <1>1. Others(t)
    BY DEF Inv, TypeOK, Others, ToCleanupSwap, Cell!ToCleanupSwap, Cell!Step, Cell!data,
       Cell!mutex, graceful
  <1>2. BarAt(t)'
    BY DEF Inv, TypeOK, BarInv, BarAt, HoldsAt, PlaceAt, FreshAt, Reading, ToCleanupSwap,
       Cell!ToCleanupSwap, Cell!Step, Cell!data, Cell!mutex, graceful
  <1>3. /\ pcBar[t] = "swap" /\ pcBar'[t] = "commit" /\ callBar[t] = "transition_to_cleanup"
        /\ callBar'[t] = callBar[t] /\ oldBar[t] = old[t] /\ oldBar'[t] = oldBar[t]
        /\ resBar'[t] = resBar[t]
    BY DEF Inv, TypeOK, BarInv, BarAt, PlaceAt, FreshAt, ToCleanupSwap, Cell!ToCleanupSwap,
       Cell!Step, Cell!data, Cell!mutex, graceful, pcBar, callBar, oldBar, resBar, SeenIdle,
       Waiting
  <1>4. QED
    BY <1>1, <1>2, <1>3, OthersShow
    DEF ToCleanupSwap, Cell!ToCleanupSwap, Cell!Step, Cell!data, Cell!mutex, graceful,
        P!ToCleanupSwap, P!Step, P!data, P!mutex

LEMMA ToCleanupCommitMaps ==
  ASSUME Inv, BarInv, NEW t \in Threads, ToCleanupCommit(t)
  PROVE  Others(t) /\ BarAt(t)' /\ P!ToCleanupCommit(t)
  <1>1. Others(t)
    BY DEF Inv, TypeOK, Others, ToCleanupCommit, Cell!ToCleanupCommit, Cell!Step,
       Cell!change_phase, Cell!data, Cell!mutex, graceful
  <1>2. BarAt(t)'
    BY DEF Inv, TypeOK, BarInv, BarAt, HoldsAt, PlaceAt, FreshAt, Reading, ToCleanupCommit,
       Cell!ToCleanupCommit, Cell!Step, Cell!change_phase, Cell!data, Cell!mutex, graceful
  <1>3. /\ pcBar[t] = "commit" /\ pcBar'[t] = "unlock"
        /\ callBar[t] = "transition_to_cleanup" /\ callBar'[t] = callBar[t]
        /\ oldBar[t] = old[t] /\ oldBar'[t] = oldBar[t] /\ resBar'[t] = resBar[t]
    BY DEF Inv, TypeOK, BarInv, BarAt, PlaceAt, FreshAt, ToCleanupCommit, Cell!ToCleanupCommit,
       Cell!Step, Cell!change_phase, Cell!data, Cell!mutex, graceful, pcBar, callBar, oldBar,
       resBar, SeenIdle, Waiting
  <1>4. QED
    BY <1>1, <1>2, <1>3, OthersShow
    DEF P!Via, Cell!Via, ToCleanupCommit, Cell!ToCleanupCommit, Cell!Step, Cell!change_phase,
        Cell!data, Cell!mutex, graceful, P!ToCleanupCommit, P!Step, P!change_phase, P!data,
        P!mutex

-----------------------------------------------------------------------------
(* lock and try_lock *)

LEMMA LockPeekMaps ==
  ASSUME Inv, BarInv, NEW t \in Threads, LockPeek(t)
  PROVE  Others(t) /\ BarAt(t)' /\ UNCHANGED P!vars
  <1>1. Others(t)
    BY DEF Inv, TypeOK, Others, LockPeek, data, mutex
  <1>2. BarAt(t)'
    BY DEF Inv, TypeOK, BarInv, BarAt, HoldsAt, PlaceAt, FreshAt, Reading, LockPeek, data, mutex
  <1>3. /\ pcBar'[t] = pcBar[t] /\ callBar'[t] = callBar[t] /\ oldBar'[t] = oldBar[t]
        /\ resBar'[t] = resBar[t]
    BY DEF Inv, TypeOK, BarInv, BarAt, PlaceAt, FreshAt, NoResult, LockPeek, data, mutex, pcBar,
       callBar, oldBar, resBar, SeenIdle, Waiting
  <1>4. QED
    BY <1>1, <1>2, <1>3, NoStep DEF LockPeek, data, mutex

LEMMA LockDecideMaps ==
  ASSUME Inv, BarInv, NEW t \in Threads, LockDecide(t)
  PROVE  Others(t) /\ BarAt(t)' /\ (P!lock(t) \/ P!try_lock(t))
  <1>1. Others(t)
    BY DEF Inv, TypeOK, Others, LockDecide, data, mutex, graceful
  <1>2. BarAt(t)'
    BY DEF Inv, TypeOK, BarInv, BarAt, HoldsAt, PlaceAt, FreshAt, Reading, GateInv, LockDecide,
       data, mutex, graceful
  <1>3. /\ pcBar[t] = "idle" /\ pcBar'[t] = IF Cell!Lockable THEN "lock" ELSE "ret"
        /\ callBar'[t] \in {"lock", "try_lock"} /\ oldBar'[t] = phase
        /\ resBar'[t] = IF Cell!Lockable THEN resBar[t] ELSE LockRefusal(phase)
    BY SameRefusals, RefusalKinds
    DEF Inv, TypeOK, BarInv, BarAt, PlaceAt, FreshAt, GateInv, NoResult, Translated, LockDecide,
        data, mutex, graceful, pcBar, callBar, oldBar, resBar, SeenIdle, Waiting
  <1>4. QED
    BY <1>1, <1>2, <1>3, OthersShow, SameRefusals, RefusalKinds
    DEF Cell!Lockable, P!Lockable, LockDecide, data, mutex, graceful, P!lock, P!try_lock,
        P!LockBegin, P!TryLockBegin, P!LockRefused, P!Refuse, P!Enter, P!data, P!mutex

LEMMA LockAcquireMaps ==
  ASSUME Inv, BarInv, NEW t \in Threads, LockAcquire(t)
  PROVE  Others(t) /\ BarAt(t)' /\ P!LockAcquire(t)
  <1>1. Others(t)
    BY GracefulAssumption
    DEF Inv, TypeOK, Others, BarInv, BarAt, HoldsAt, LockAcquire, Cell!Step, LockFault, data,
        graceful
  <1>2. BarAt(t)'
    BY GracefulAssumption
    DEF Inv, TypeOK, BarInv, BarAt, HoldsAt, PlaceAt, FreshAt, Reading, LockAcquire, Cell!Step,
        LockFault, data, graceful
  <1>3. /\ pcBar[t] = "lock"
        /\ pcBar'[t] = IF P!LockFault(t) = NoResult THEN "guard" ELSE "unlock"
        /\ callBar[t] \in {"lock", "try_lock"} /\ callBar'[t] = callBar[t]
        /\ oldBar[t] = old[t] /\ oldBar'[t] = oldBar[t] /\ resBar'[t] = P!LockFault(t)
    BY SameResults, SameErr
    DEF Inv, TypeOK, BarInv, BarAt, PlaceAt, FreshAt, P!LockFault, NoResult, LockAcquire,
        Cell!Step, LockFault, data, graceful, pcBar, callBar, oldBar, resBar, SeenIdle, Waiting
  <1>4. QED
    BY <1>1, <1>2, <1>3, OthersShow, SameResults
    DEF LockAcquire, Cell!Step, LockFault, data, graceful, P!LockAcquire, P!Step, P!data,
        P!mutex

LEMMA TryLockFailsMaps ==
  ASSUME Inv, BarInv, NEW t \in Threads, TryLockFails(t)
  PROVE  Others(t) /\ BarAt(t)' /\ P!TryLockFails(t)
  <1>1. Others(t)
    BY DEF Inv, TypeOK, Others, TryLockFails, Cell!Step, data, mutex, graceful
  <1>2. BarAt(t)'
    BY DEF Inv, TypeOK, BarInv, BarAt, HoldsAt, PlaceAt, FreshAt, Reading, TryLockFails,
       Cell!Step, data, mutex, graceful
  <1>3. /\ pcBar[t] = "lock" /\ pcBar'[t] = "ret" /\ callBar[t] = "try_lock"
        /\ callBar'[t] = callBar[t] /\ oldBar[t] = old[t] /\ oldBar'[t] = oldBar[t]
        /\ resBar'[t] = Err(old[t], "MutexTryLockFailed")
    BY SameErr
    DEF Inv, TypeOK, BarInv, BarAt, PlaceAt, FreshAt, TryLockFails, Cell!Step, data, mutex,
        graceful, pcBar, callBar, oldBar, resBar, SeenIdle, Waiting
  <1>4. QED
    BY <1>1, <1>2, <1>3, OthersShow, SameErr
    DEF TryLockFails, Cell!Step, data, mutex, graceful, P!TryLockFails, P!Step, P!data, P!mutex

LEMMA GuardDropMaps ==
  ASSUME Inv, BarInv, NEW t \in Threads, GuardDrop(t)
  PROVE  Others(t) /\ BarAt(t)' /\ P!GuardDrop(t)
  <1>1. Others(t)
    BY GracefulAssumption
    DEF Inv, TypeOK, Others, BarInv, BarAt, HoldsAt, GuardDrop, Cell!GuardDrop, Cell!data,
        Cell!mutex, graceful
  <1>2. BarAt(t)'
    BY GracefulAssumption
    DEF Inv, TypeOK, BarInv, BarAt, HoldsAt, PlaceAt, FreshAt, Reading, GuardDrop,
        Cell!GuardDrop, Cell!data, Cell!mutex, graceful
  <1>3. /\ pcBar[t] = "guard" /\ pcBar'[t] = "ret" /\ callBar'[t] = callBar[t]
        /\ oldBar'[t] = oldBar[t]
        /\ \E panicking \in BOOLEAN : /\ poisoned' = (poisoned \/ panicking)
                                     /\ resBar'[t] = IF panicking THEN Panic ELSE Ok
    BY SameResults
    DEF Inv, TypeOK, BarInv, BarAt, PlaceAt, FreshAt, Ok, Panic, Reading, GuardDrop,
        Cell!GuardDrop, Cell!data, Cell!mutex, graceful, pcBar, callBar, oldBar, resBar,
        SeenIdle, Waiting
  <1>4. QED
    BY <1>1, <1>2, <1>3, OthersShow, SameResults
    DEF GuardDrop, Cell!GuardDrop, Cell!data, Cell!mutex, graceful, P!GuardDrop, P!data, P!mutex

-----------------------------------------------------------------------------
(* read, read_relaxed and finish_reading *)

LEMMA ReadBeginMaps ==
  ASSUME Inv, BarInv, NEW t \in Threads, ReadBegin(t)
  PROVE  Others(t) /\ BarAt(t)' /\ (P!ReadBegin(t) \/ UNCHANGED P!vars)
  <1>1. Others(t)
    BY DEF Inv, TypeOK, Others, ReadBegin, Cell!Enter, data, mutex, graceful
  <1>2. BarAt(t)'
    BY DEF Inv, TypeOK, BarInv, BarAt, HoldsAt, PlaceAt, FreshAt, Reading, ReadBegin,
       Cell!Enter, data, mutex, graceful
  <1>3. /\ phase = PHASE_READ =>
              /\ pcBar[t] = "idle" /\ pcBar'[t] = "look"
              /\ callBar'[t] = "read" /\ oldBar'[t] = phase
        /\ phase # PHASE_READ =>
              pcBar'[t] = pcBar[t] /\ callBar'[t] = callBar[t] /\ oldBar'[t] = oldBar[t]
        /\ resBar'[t] = resBar[t]
    BY NoStep
    DEF Inv, TypeOK, BarInv, BarAt, PlaceAt, FreshAt, NoResult, ReadBegin, Cell!Enter, data,
        mutex, graceful, pcBar, callBar, oldBar, resBar, SeenIdle, Waiting
  <1>4. QED
    BY <1>1, <1>2, <1>3, OthersShow, NoStep
    DEF ReadBegin, Cell!Enter, data, mutex, graceful, P!ReadBegin, P!Enter, P!data, P!mutex

LEMMA ReadRefusedMaps ==
  ASSUME Inv, BarInv, NEW t \in Threads, ReadRefused(t)
  PROVE  Others(t) /\ BarAt(t)' /\ P!ReadRefused(t)
  <1>1. Others(t)
    BY DEF Inv, TypeOK, Others, ReadRefused, Cell!Refuse, Cell!Enter, Cell!data, Cell!mutex,
       graceful
  <1>2. BarAt(t)'
    BY DEF Inv, TypeOK, BarInv, BarAt, HoldsAt, PlaceAt, FreshAt, Reading, ReadRefused,
       Cell!Refuse, Cell!Enter, Cell!data, Cell!mutex, graceful
  <1>3. /\ pcBar[t] = "idle" /\ pcBar'[t] = "ret" /\ callBar'[t] = "read"
        /\ oldBar'[t] = phase /\ resBar'[t] = Err(phase, "CannotCallUnlessPhaseRead")
    BY SameErr
    DEF Inv, TypeOK, BarInv, BarAt, PlaceAt, FreshAt, ReadRefused, Cell!Refuse, Cell!Enter,
        Cell!data, Cell!mutex, graceful, pcBar, callBar, oldBar, resBar, SeenIdle, Waiting
  <1>4. QED
    BY <1>1, <1>2, <1>3, OthersShow, SameErr
    DEF ReadRefused, Cell!Refuse, Cell!Enter, Cell!data, Cell!mutex, graceful, P!ReadRefused,
        P!Refuse, P!Enter, P!data, P!mutex

LEMMA ReadRelaxedBeginMaps ==
  ASSUME Inv, BarInv, NEW t \in Threads, ReadRelaxedBegin(t)
  PROVE  Others(t) /\ BarAt(t)' /\ P!ReadBegin(t)
  <1>1. Others(t)
    BY DEF Inv, TypeOK, Others, ReadRelaxedBegin, Cell!Enter, data, mutex, graceful
  <1>2. BarAt(t)'
    BY DEF Inv, TypeOK, BarInv, BarAt, HoldsAt, PlaceAt, FreshAt, Reading, ReadRelaxedBegin,
       Cell!Enter, data, mutex, graceful
  <1>3. /\ pcBar[t] = "idle" /\ pcBar'[t] = "look" /\ callBar'[t] = "read"
        /\ oldBar'[t] = phase /\ resBar'[t] = resBar[t]
    BY DEF Inv, TypeOK, BarInv, BarAt, PlaceAt, FreshAt, NoResult, ReadRelaxedBegin, Cell!Enter,
       data, mutex, graceful, pcBar, callBar, oldBar, resBar, SeenIdle, Waiting
  <1>4. QED
    BY <1>1, <1>2, <1>3, OthersShow
    DEF ReadRelaxedBegin, Cell!Enter, data, mutex, graceful, P!ReadBegin, P!Enter, P!data,
        P!mutex

LEMMA ReadRelaxedRefusedMaps ==
  ASSUME Inv, BarInv, NEW t \in Threads, ReadRelaxedRefused(t)
  PROVE  Others(t) /\ BarAt(t)' /\ P!ReadRefused(t)
  <1>1. Others(t)
    BY DEF Inv, TypeOK, Others, ReadRelaxedRefused, Cell!Refuse, Cell!Enter, Cell!data,
       Cell!mutex, graceful
  <1>2. BarAt(t)'
    BY DEF Inv, TypeOK, BarInv, BarAt, HoldsAt, PlaceAt, FreshAt, Reading, ReadRelaxedRefused,
       Cell!Refuse, Cell!Enter, Cell!data, Cell!mutex, graceful
  <1>3. /\ pcBar[t] = "idle" /\ pcBar'[t] = "ret" /\ callBar'[t] = "read"
        /\ oldBar'[t] = phase /\ resBar'[t] = Err(phase, "CannotCallUnlessPhaseRead")
    BY SameErr
    DEF Inv, TypeOK, BarInv, BarAt, PlaceAt, FreshAt, ReadRelaxedRefused, Cell!Refuse,
        Cell!Enter, Cell!data, Cell!mutex, graceful, pcBar, callBar, oldBar, resBar, SeenIdle,
        Waiting
  <1>4. QED
    BY <1>1, <1>2, <1>3, OthersShow, SameErr
    DEF ReadRelaxedRefused, Cell!Refuse, Cell!Enter, Cell!data, Cell!mutex, graceful,
        P!ReadRefused, P!Refuse, P!Enter, P!data, P!mutex

LEMMA ReadCheckMaps ==
  ASSUME Inv, BarInv, NEW t \in Threads, ReadCheck(t)
  PROVE  Others(t) /\ BarAt(t)' /\ (P!ReadBegin(t) \/ P!ReadRefused(t) \/ UNCHANGED P!vars)
  <1>1. Others(t)
    BY DEF Inv, TypeOK, Others, ReadCheck, data, mutex
  <1>2. BarAt(t)'
    BY DEF Inv, TypeOK, BarInv, BarAt, HoldsAt, PlaceAt, FreshAt, Reading, ReadCheck, data,
       mutex
  <1>3. /\ pcBar[t] = "idle" /\ callBar[t] = "none" /\ oldBar[t] = PHASE_SETUP
        /\ resBar[t] = NoResult
        /\ pc'[t] = "wait" =>
              /\ pcBar'[t] = pcBar[t] /\ callBar'[t] = callBar[t]
              /\ oldBar'[t] = oldBar[t] /\ resBar'[t] = resBar[t]
        /\ pc'[t] = "look" =>
              /\ phase = PHASE_READ /\ pcBar'[t] = "look" /\ resBar'[t] = resBar[t]
        /\ pc'[t] = "ret" =>
              /\ phase # PHASE_READ /\ pcBar'[t] = "ret"
              /\ resBar'[t] = Err(phase, "CannotCallUnlessPhaseRead")
        /\ pc'[t] \in {"look", "ret"} => callBar'[t] = "read" /\ oldBar'[t] = phase
        /\ pc'[t] \in {"wait", "look", "ret"}
    BY SameErr, NoStep
    DEF Inv, TypeOK, BarInv, BarAt, PlaceAt, FreshAt, NoResult, ReadCheck, data, mutex, pcBar,
        callBar, oldBar, resBar, SeenIdle, Waiting
  <1>4. QED
    BY <1>1, <1>2, <1>3, OthersShow, SameErr, NoStep
    DEF ReadCheck, data, mutex, P!ReadBegin, P!ReadRefused, P!Refuse, P!Enter, P!data, P!mutex

LEMMA ReadLookMaps ==
  ASSUME Inv, BarInv, NEW t \in Threads, ReadLook(t)
  PROVE  Others(t) /\ BarAt(t)' /\ P!ReadLook(t)
  <1>1. Others(t)
    BY DEF Inv, TypeOK, Others, ReadLook, Cell!Step, Reading, data, mutex, graceful
  <1>2. BarAt(t)'
    BY DEF Inv, TypeOK, BarInv, BarAt, HoldsAt, PlaceAt, FreshAt, Reading, ReadLook, Cell!Step,
       data, mutex, graceful
  <1>3. /\ pcBar[t] = "look" /\ pcBar'[t] = IF data_cell = "Some" THEN "reading" ELSE "ret"
        /\ callBar[t] = "read" /\ callBar'[t] = callBar[t] /\ oldBar[t] = old[t]
        /\ oldBar'[t] = oldBar[t]
        /\ resBar'[t] = IF data_cell = "Some" THEN Ok
                        ELSE Err(old[t], "InternalDataUnavailable")
    BY SameErr, SameResults
    DEF Inv, TypeOK, BarInv, BarAt, PlaceAt, FreshAt, Ok, ReadLook, Cell!Step, Reading, data,
        mutex, graceful, pcBar, callBar, oldBar, resBar, SeenIdle, Waiting
  <1>4. QED
    BY <1>1, <1>2, <1>3, OthersShow, SameErr, SameResults
    DEF ReadLook, Cell!Step, Reading, data, mutex, graceful, P!ReadLook, P!Step, P!data, P!mutex

LEMMA count_upMaps ==
  ASSUME Inv, BarInv, NEW t \in Threads, count_up(t)
  PROVE  Others(t) /\ BarAt(t)' /\ UNCHANGED P!vars
  <1>1. Others(t)
    BY DEF Inv, TypeOK, Others, count_up, Cell!Step, Reading, data, mutex
  <1>2. BarAt(t)'
    BY DEF Inv, TypeOK, BarInv, BarAt, HoldsAt, PlaceAt, FreshAt, Reading, count_up, Cell!Step,
       data, mutex
  <1>3. /\ pcBar'[t] = pcBar[t] /\ callBar'[t] = callBar[t] /\ oldBar'[t] = oldBar[t]
        /\ resBar'[t] = resBar[t]
    BY DEF Inv, TypeOK, BarInv, BarAt, PlaceAt, FreshAt, count_up, Cell!Step, Reading, data,
       mutex, pcBar, callBar, oldBar, resBar, SeenIdle, Waiting
  <1>4. QED
    BY <1>1, <1>2, <1>3, NoStep DEF count_up, Cell!Step, Reading, data, mutex

LEMMA finish_readingMaps ==
  ASSUME Inv, BarInv, NEW t \in Threads, finish_reading(t)
  PROVE  Others(t) /\ BarAt(t)' /\ P!ReadEnd(t)
  <1>1. Others(t)
    BY DEF Inv, TypeOK, Others, finish_reading, Decrement, data, mutex
  <1>2. BarAt(t)'
    BY DEF Inv, TypeOK, BarInv, BarAt, HoldsAt, PlaceAt, FreshAt, Reading, finish_reading,
       Decrement, data, mutex
  <1>3. /\ pcBar[t] = "reading" /\ pcBar'[t] = "ret" /\ callBar[t] = "read"
        /\ callBar'[t] = callBar[t] /\ oldBar[t] = old[t] /\ oldBar'[t] = oldBar[t]
        /\ resBar'[t] = resBar[t]
    BY DEF Inv, TypeOK, BarInv, BarAt, PlaceAt, FreshAt, Reading, finish_reading, Decrement,
       data, mutex, pcBar, callBar, oldBar, resBar, SeenIdle, Waiting
  <1>4. QED
    BY <1>1, <1>2, <1>3, OthersShow
    DEF finish_reading, Decrement, data, mutex, P!ReadEnd, P!Step, P!data, P!mutex

LEMMA ExcessFinishReadingMaps ==
  ASSUME Inv, BarInv, NEW t \in Threads, ExcessFinishReading(t)
  PROVE  Others(t) /\ BarAt(t)' /\ UNCHANGED P!vars
  <1>1. Others(t)
    BY DEF Inv, TypeOK, Others, ExcessFinishReading, Decrement, data, mutex
  <1>2. BarAt(t)'
    BY DEF Inv, TypeOK, BarInv, BarAt, HoldsAt, PlaceAt, FreshAt, Reading, ExcessFinishReading,
       Decrement, data, mutex
  <1>3. /\ pcBar'[t] = pcBar[t] /\ callBar'[t] = callBar[t] /\ oldBar'[t] = oldBar[t]
        /\ resBar'[t] = resBar[t]
    BY DEF Inv, TypeOK, BarInv, BarAt, PlaceAt, FreshAt, NoResult, ExcessFinishReading,
       Decrement, data, mutex, pcBar, callBar, oldBar, resBar, SeenIdle, Waiting
  <1>4. QED
    BY <1>1, <1>2, <1>3, NoStep DEF ExcessFinishReading, Decrement, data, mutex

LEMMA NotifyDrainedMaps ==
  ASSUME Inv, BarInv, NEW t \in Threads, NotifyDrained(t)
  PROVE  Others(t) /\ BarAt(t)' /\ UNCHANGED P!vars
  <1>1. Others(t)
    BY DEF Inv, TypeOK, Others, NotifyDrained, NotifyAll, Woken, data, mutex, graceful
  <1>2. BarAt(t)'
    BY DEF Inv, TypeOK, BarInv, BarAt, HoldsAt, PlaceAt, FreshAt, Reading, NotifyDrained,
       NotifyAll, Woken, data, mutex, graceful
  <1>3. /\ pcBar'[t] = pcBar[t] /\ callBar'[t] = callBar[t] /\ oldBar'[t] = oldBar[t]
        /\ resBar'[t] = resBar[t]
    BY DEF Inv, TypeOK, BarInv, BarAt, PlaceAt, FreshAt, NotifyDrained, NotifyAll, Woken, data,
       mutex, graceful, pcBar, callBar, oldBar, resBar, SeenIdle, Waiting
  <1>4. QED
    BY <1>1, <1>2, <1>3, NoStep DEF NotifyDrained, NotifyAll, Woken, data, mutex, graceful

-----------------------------------------------------------------------------
(* Waiting, and the return *)

LEMMA WaitLockMaps ==
  ASSUME Inv, BarInv, NEW t \in Threads, WaitLock(t)
  PROVE  Others(t) /\ BarAt(t)' /\ UNCHANGED P!vars
  <1>1. Others(t)
    BY DEF Inv, TypeOK, Others, WaitLock, data, mutex
  <1>2. BarAt(t)'
    BY DEF Inv, TypeOK, BarInv, BarAt, HoldsAt, PlaceAt, FreshAt, Reading, WaitLock, data, mutex
  <1>3. /\ pcBar'[t] = pcBar[t] /\ callBar'[t] = callBar[t] /\ oldBar'[t] = oldBar[t]
        /\ resBar'[t] = resBar[t]
    BY DEF Inv, TypeOK, BarInv, BarAt, PlaceAt, FreshAt, GateInv, WaitLock, data, mutex, pcBar,
       callBar, oldBar, resBar, SeenIdle, Waiting
  <1>4. QED
    BY <1>1, <1>2, <1>3, NoStep DEF WaitLock, data, mutex

LEMMA WaitSleepMaps ==
  ASSUME Inv, BarInv, NEW t \in Threads, WaitSleep(t)
  PROVE  Others(t) /\ BarAt(t)' /\ UNCHANGED P!vars
  <1>1. Others(t)
    BY DEF Inv, TypeOK, Others, WaitSleep, data, mutex
  <1>2. BarAt(t)'
    BY DEF Inv, TypeOK, BarInv, BarAt, HoldsAt, PlaceAt, FreshAt, Reading, WaitSleep, data,
       mutex
  <1>3. /\ pcBar'[t] = pcBar[t] /\ callBar'[t] = callBar[t] /\ oldBar'[t] = oldBar[t]
        /\ resBar'[t] = resBar[t]
    BY DEF Inv, TypeOK, BarInv, BarAt, PlaceAt, FreshAt, GateInv, WaitSleep, data, mutex, pcBar,
       callBar, oldBar, resBar, SeenIdle, Waiting
  <1>4. QED
    BY <1>1, <1>2, <1>3, NoStep DEF WaitSleep, data, mutex

LEMMA WaitWakeMaps ==
  ASSUME Inv, BarInv, NEW t \in Threads, WaitWake(t)
  PROVE  Others(t) /\ BarAt(t)' /\ UNCHANGED P!vars
  <1>1. Others(t)
    BY DEF Inv, TypeOK, Others, WaitWake, data, mutex, graceful
  <1>2. BarAt(t)'
    BY DEF Inv, TypeOK, BarInv, BarAt, HoldsAt, PlaceAt, FreshAt, Reading, WaitWake, data,
       mutex, graceful
  <1>3. /\ pcBar'[t] = pcBar[t] /\ callBar'[t] = callBar[t] /\ oldBar'[t] = oldBar[t]
        /\ resBar'[t] = resBar[t]
    BY DEF Inv, TypeOK, BarInv, BarAt, PlaceAt, FreshAt, GateInv, WaitWake, data, mutex,
       graceful, pcBar, callBar, oldBar, resBar, SeenIdle, Waiting
  <1>4. QED
    BY <1>1, <1>2, <1>3, NoStep DEF WaitWake, data, mutex, graceful

LEMMA ReturnMaps ==
  ASSUME Inv, BarInv, NEW t \in Threads, Return(t)
  PROVE  Others(t) /\ BarAt(t)' /\ (P!Return(t) \/ UNCHANGED P!vars)
  <1>1. Others(t)
    BY DEF Inv, TypeOK, Others, Return, Cell!Return, Cell!data, Cell!mutex
  <1>2. BarAt(t)'
    BY DEF Inv, TypeOK, BarInv, BarAt, HoldsAt, PlaceAt, FreshAt, Reading, Cell!NoResult,
       NoResult, Return, Cell!Return, Cell!data, Cell!mutex
  <1>3. /\ pcBar'[t] = "idle" /\ callBar'[t] = "none" /\ oldBar'[t] = PHASE_SETUP
        /\ resBar'[t] = NoResult
        /\ call[t] # "finish_reading" => pcBar[t] = "ret"
        /\ call[t] = "finish_reading" =>
              /\ pcBar'[t] = pcBar[t] /\ callBar'[t] = callBar[t]
              /\ oldBar'[t] = oldBar[t] /\ resBar'[t] = resBar[t]
    BY NoStep, SameResults
    DEF Inv, TypeOK, BarInv, BarAt, PlaceAt, FreshAt, NoResult, Return, Cell!Return, Cell!data,
        Cell!mutex, pcBar, callBar, oldBar, resBar, SeenIdle, Waiting
  <1>4. CASE call[t] = "finish_reading"
    BY <1>1, <1>2, <1>3, <1>4, NoStep
    DEF Return, Cell!Return, Cell!data, Cell!mutex, data, mutex
  <1>5. CASE call[t] # "finish_reading"
    BY <1>1, <1>2, <1>3, <1>5, OthersShow, SameResults
    DEF Return, Cell!Return, Cell!data, Cell!mutex, P!Return, P!data, P!mutex
  <1>6. QED
    BY <1>4, <1>5

-----------------------------------------------------------------------------
(* The refinement *)

\* A new graceful cell is seen as a new PhasedCellSync.
LEMMA InitMaps == GracefulInit => BarInv /\ P!PhasedCellSyncInit
  <1> SUFFICES ASSUME GracefulInit PROVE BarInv /\ P!PhasedCellSyncInit
    OBVIOUS
  <1>1. BarInv
    BY SameResults
    DEF GracefulInit, Cell!PhasedCellSyncInit, BarInv, BarAt, HoldsAt, PlaceAt, FreshAt, Reading
  <1>2. /\ pcBar   = [t \in Threads |-> "idle"]
        /\ callBar = [t \in Threads |-> "none"]
        /\ oldBar  = [t \in Threads |-> PHASE_SETUP]
    BY DEF GracefulInit, Cell!PhasedCellSyncInit, pcBar, callBar, oldBar, SeenIdle, Waiting
  <1>3. resBar = [t \in Threads |-> P!NoResult]
    BY SameResults DEF GracefulInit, Cell!PhasedCellSyncInit, NoResult, resBar
  <1>4. QED
    BY <1>1, <1>2, <1>3 DEF GracefulInit, Cell!PhasedCellSyncInit, P!PhasedCellSyncInit

\* BarInv is kept, and what is seen is a step of PhasedCellSync or none.
Maps == BarInv' /\ [P!PhasedCellSyncNext]_P!vars

\* One step for each group of actions: <1>1 says what it is enough to show of thread t.
LEMMA NextMaps == Inv /\ BarInv /\ [GracefulNext]_vars => Maps
  <1> SUFFICES ASSUME Inv, BarInv, [GracefulNext]_vars PROVE Maps
    OBVIOUS
  <1>1. ASSUME NEW t \in Threads, Others(t), BarAt(t)',
               \/ P!transition_to_read(t) \/ P!transition_to_cleanup(t)
               \/ P!lock(t) \/ P!try_lock(t) \/ P!GuardDrop(t)
               \/ P!read(t) \/ P!ReadEnd(t) \/ P!Unlock(t) \/ P!Return(t)
               \/ UNCHANGED P!vars
        PROVE  Maps
    BY <1>1, OthersBar DEF Maps, P!PhasedCellSyncNext
  <1>2. ASSUME NEW t \in Threads, transition_to_read(t) PROVE Maps
    <2>1. /\ Others(t) /\ BarAt(t)'
          /\ P!transition_to_read(t) \/ UNCHANGED P!vars
      BY <1>2, ToReadBeginMaps, ToReadRefusedMaps, ToReadLockMaps, ToReadRunMaps,
         ToReadSwapMaps, ToReadCommitMaps, notify_read_phaseMaps
      DEF transition_to_read, P!transition_to_read
    <2>2. QED
      BY <1>1, <2>1
  <1>3. ASSUME NEW t \in Threads, transition_to_cleanup(t) PROVE Maps
    <2>1. /\ Others(t) /\ BarAt(t)'
          /\ P!transition_to_cleanup(t) \/ UNCHANGED P!vars
      BY <1>3, ToCleanupBeginMaps, ToCleanupRefusedMaps, CleanupCheckMaps, ToCleanupLockMaps,
         ToCleanupRunMaps, ToCleanupSwapMaps, ToCleanupCommitMaps
      DEF transition_to_cleanup, P!transition_to_cleanup
    <2>2. QED
      BY <1>1, <2>1
  <1>4. ASSUME NEW t \in Threads, lock(t) \/ try_lock(t) \/ GuardDrop(t) PROVE Maps
    <2>1. /\ Others(t) /\ BarAt(t)'
          /\ P!lock(t) \/ P!try_lock(t) \/ P!GuardDrop(t) \/ UNCHANGED P!vars
      BY <1>4, LockPeekMaps, LockDecideMaps, LockAcquireMaps, TryLockFailsMaps, GuardDropMaps
      DEF lock, try_lock, P!lock, P!try_lock
    <2>2. QED
      BY <1>1, <2>1
  <1>5. ASSUME NEW t \in Threads, read(t) \/ read_relaxed(t) PROVE Maps
    <2>1. Others(t) /\ BarAt(t)' /\ (P!read(t) \/ UNCHANGED P!vars)
      BY <1>5, ReadBeginMaps, ReadRefusedMaps, ReadCheckMaps, ReadLookMaps, count_upMaps,
         ReadRelaxedBeginMaps, ReadRelaxedRefusedMaps
      DEF read, read_relaxed, P!read
    <2>2. QED
      BY <1>1, <2>1
  <1>6. ASSUME NEW t \in Threads,
               finish_reading(t) \/ ExcessFinishReading(t) \/ NotifyDrained(t)
        PROVE  Maps
    BY <1>1, <1>6, finish_readingMaps, ExcessFinishReadingMaps, NotifyDrainedMaps
  <1>7. ASSUME NEW t \in Threads, WaitLock(t) \/ WaitSleep(t) \/ WaitWake(t) PROVE Maps
    BY <1>1, <1>7, WaitLockMaps, WaitSleepMaps, WaitWakeMaps
  <1>8. ASSUME NEW t \in Threads, Unlock(t) \/ Return(t) PROVE Maps
    BY <1>1, <1>8, UnlockMaps, ReturnMaps
  <1>9. CASE UNCHANGED vars
    <2>1. BarInv'
      BY <1>9 DEF vars, cellVars, BarInv, BarAt, HoldsAt, PlaceAt, FreshAt
    <2>2. pcBar' = pcBar
      BY <1>9 DEF vars, cellVars, graceful, pcBar, SeenIdle, Waiting
    <2>3. callBar' = callBar /\ oldBar' = oldBar /\ resBar' = resBar
      BY <1>9, <2>2 DEF vars, cellVars, callBar, oldBar, resBar
    <2>4. QED
      BY <1>9, <2>1, <2>2, <2>3 DEF Maps, vars, cellVars, P!vars
  <1>10. QED
    BY <1>2, <1>3, <1>4, <1>5, <1>6, <1>7, <1>8, <1>9 DEF GracefulNext

\* The graceful cell is a PhasedCellSync, seen through the mapping: for any finite set of
\* threads, waiting, time-outs, counting, notifying and calls of finish_reading that nobody
\* owes, let no method do to the phase, the data or data_mutex what PhasedCellSync would not.
THEOREM RefinesPhasedCellSync == GracefulSpec => ImplementsPhasedCellSync
  <1>1. Inv /\ BarInv /\ [GracefulNext]_vars => BarInv' /\ [P!PhasedCellSyncNext]_P!vars
    BY NextMaps DEF Maps
  <1>2. QED
    BY <1>1, InitMaps, Invariance, PTL
    DEF GracefulSpec, ImplementsPhasedCellSync, P!PhasedCellSyncSpec

-----------------------------------------------------------------------------
(* What the graceful cell inherits from PhasedCellSync *)

HIDE DEF P!PHASE_SETUP, P!PHASE_READ, P!PHASE_CLEANUP, P!PHASE_SETUP_TO_READ,
         P!PHASE_READ_TO_CLEANUP, P!PHASE_SETUP_TO_CLEANUP

PP == INSTANCE PhasedCellSyncProofs
        WITH pc <- pcBar, call <- callBar, old <- oldBar, res <- resBar

\* PP is P again, with its theorems.
LEMMA SameCell ==
  /\ P!PhasedCellSyncInit <=> PP!PhasedCellSyncInit
  /\ [P!PhasedCellSyncNext]_(P!vars) <=> [PP!PhasedCellSyncNext]_(PP!vars)
  <1>1. P!PhasedCellSyncInit <=> PP!PhasedCellSyncInit
    BY DEF P!PhasedCellSyncInit, PP!PhasedCellSyncInit, P!PHASE_SETUP, PP!PHASE_SETUP,
       P!NoResult, PP!NoResult
  <1>2. P!PhasedCellSyncNext <=> PP!PhasedCellSyncNext
    BY DEF P!PhasedCellSyncNext, P!data, P!mutex, P!Step, P!Enter,
     P!Refuse, P!change_phase, P!transition_to_read, P!ToReadBegin, P!ToReadRefused,
     P!ToReadLock, P!ToReadRun, P!ToReadSwap, P!ToReadCommit, P!ToReadFault,
     P!transition_to_cleanup, P!ToCleanupBegin, P!ToCleanupRefused, P!ToCleanupLock,
     P!ToCleanupRun, P!ToCleanupSwap, P!ToCleanupCommit, P!ToCleanupFault, P!lock, P!LockBegin,
     P!LockRefused, P!LockAcquire, P!LockFault, P!Lockable, P!try_lock, P!TryLockBegin,
     P!TryLockFails, P!GuardDrop, P!read, P!ReadBegin, P!ReadRefused, P!ReadLook, P!ReadEnd,
     P!Unlock, P!Return,
     PP!PhasedCellSyncNext, PP!data, PP!mutex, PP!Step,
     PP!Enter, PP!Refuse, PP!change_phase, PP!transition_to_read, PP!ToReadBegin,
     PP!ToReadRefused, PP!ToReadLock, PP!ToReadRun, PP!ToReadSwap, PP!ToReadCommit,
     PP!ToReadFault, PP!transition_to_cleanup, PP!ToCleanupBegin, PP!ToCleanupRefused,
     PP!ToCleanupLock, PP!ToCleanupRun, PP!ToCleanupSwap, PP!ToCleanupCommit,
     PP!ToCleanupFault, PP!lock, PP!LockBegin, PP!LockRefused, PP!LockAcquire, PP!LockFault,
     PP!Lockable, PP!try_lock, PP!TryLockBegin, PP!TryLockFails, PP!GuardDrop, PP!read,
     PP!ReadBegin, PP!ReadRefused, PP!ReadLook, PP!ReadEnd, PP!Unlock, PP!Return,
     P!PHASE_SETUP, P!PHASE_READ, P!PHASE_CLEANUP, P!PHASE_SETUP_TO_READ, P!PHASE_READ_TO_CLEANUP, P!PHASE_SETUP_TO_CLEANUP, P!Ok, P!Panic, P!NoResult, P!Err, P!u8_to_phase, P!Via, P!ToReadRefusal, P!ToCleanupRefusal, P!LockRefusal,
     PP!PHASE_SETUP, PP!PHASE_READ, PP!PHASE_CLEANUP, PP!PHASE_SETUP_TO_READ, PP!PHASE_READ_TO_CLEANUP, PP!PHASE_SETUP_TO_CLEANUP, PP!Ok, PP!Panic, PP!NoResult, PP!Err, PP!u8_to_phase, PP!Via, PP!ToReadRefusal, PP!ToCleanupRefusal, PP!LockRefusal
  <1>3. UNCHANGED P!vars <=> UNCHANGED PP!vars
    BY DEF P!vars, PP!vars
  <1>4. QED
    BY <1>1, <1>2, <1>3

\* No thread is Nobody, as PP assumes.
LEMMA NobodyIsNoThread == PP!ThreadsAssumption
  BY GracefulAssumption DEF PP!ThreadsAssumption

\* What PhasedCellSyncProofs proves of every step, it proves of the graceful cell.
LEMMA SeenAsCell == GracefulSpec => PP!PhasedCellSyncSpec
  BY RefinesPhasedCellSync, SameCell, PTL
  DEF ImplementsPhasedCellSync, P!PhasedCellSyncSpec, PP!PhasedCellSyncSpec

\* Both invariants hold, and the cell that is seen has its own.
LEMMA BothInvariants == GracefulSpec => [](Inv /\ BarInv /\ PP!Inv)
  <1>1. GracefulSpec => []BarInv
    BY InitMaps, NextMaps, Invariance, PTL DEF GracefulSpec, Maps
  <1>2. GracefulSpec => []PP!Inv
    BY SeenAsCell, PP!Invariance, NobodyIsNoThread, PTL
  <1>3. QED
    BY <1>1, <1>2, Invariance, PTL

\* The places at the data, and of who is about to return, are seen as they are.
LEMMA SeenPlaces ==
  ASSUME BarInv, NEW t \in Threads
  PROVE  /\ pc[t] \in {"run", "swap", "commit", "guard", "reading", "unlock"} => pcBar[t] = pc[t]
         /\ pc[t] = "count" => pcBar[t] = "reading"
         /\ pc[t] = "ret" /\ call[t] # "finish_reading" => pcBar[t] = "ret"
  BY DEF BarInv, BarAt, PlaceAt, pcBar, SeenIdle, Waiting, Reading

\* Closures and guards never overlap in the graceful cell, either.
THEOREM GracefulExclusiveAccess == GracefulSpec => []Cell!ExclusiveMut
  <1>1. BarInv /\ PP!Inv => Cell!ExclusiveMut
    BY SeenPlaces DEF PP!Inv, PP!MutexInv, Cell!ExclusiveMut, Cell!Mutating
  <1>2. QED BY <1>1, BothInvariants, PTL

\* Who can change the data is seen to.
LEMMA SeenMutating ==
  ASSUME BarInv, NEW t \in Threads, Cell!Mutating(t) PROVE PP!Mutating(t)
  BY SeenPlaces DEF Cell!Mutating, PP!Mutating

\* Nor does anybody change the data while the cell shows Read.
THEOREM GracefulReadIsImmutable == GracefulSpec => []Cell!ReadPhaseIsImmutable
  <1>1. BarInv /\ PP!ReadPhaseIsImmutable => Cell!ReadPhaseIsImmutable
    BY SeenMutating DEF PP!ReadPhaseIsImmutable, Cell!ReadPhaseIsImmutable, PP!PHASE_READ
  <1>2. QED
    BY <1>1, SeenAsCell, PP!ReadIsImmutable, NobodyIsNoThread, BothInvariants, PTL

\* Counted or not, a reader with its &T meets only a cleanup (whose wait has timed out, or
\* which has not seen it counted) and what comes after.
THEOREM GracefulReadersMeetCleanups == GracefulSpec => []Cell!ReadersMeetOnlyCleanup
  <1>1. BarInv /\ PP!ReadersMeetOnlyCleanup => Cell!ReadersMeetOnlyCleanup
    BY SeenMutating, SeenPlaces
    DEF PP!ReadersMeetOnlyCleanup, Cell!ReadersMeetOnlyCleanup, PP!PHASE_READ_TO_CLEANUP,
        PP!PHASE_CLEANUP
  <1>2. QED
    BY <1>1, SeenAsCell, PP!ReadersMeetCleanups, NobodyIsNoThread, BothInvariants, PTL

\* No wait, and no time-out, strands the data.
THEOREM GracefulDataStaysHome == GracefulSpec => []Cell!DataHome
  <1>1. PP!DataHome => Cell!DataHome
    BY DEF PP!DataHome, Cell!DataHome, PP!PHASE_READ, PP!PHASE_SETUP, PP!PHASE_CLEANUP
  <1>2. QED
    BY <1>1, SeenAsCell, PP!DataStaysHome, NobodyIsNoThread, PTL

\* Data whose guard's owner panicked is never read.
THEOREM GracefulPoisonStaysOut == GracefulSpec => []Cell!PoisonNeverRead
  <1>1. PP!PoisonNeverRead => Cell!PoisonNeverRead
    BY DEF PP!PoisonNeverRead, Cell!PoisonNeverRead, PP!PHASE_READ, PP!PHASE_READ_TO_CLEANUP
  <1>2. QED
    BY <1>1, SeenAsCell, PP!PoisonStaysOut, NobodyIsNoThread, PTL

\* What a result tells of the cell is still so when the caller gets it: for the errors of
\* the waits, too, which are seen as refusals.
THEOREM GracefulResultsAreTruthful == GracefulSpec => []Cell!TruthfulResults
  <1>1. ASSUME BarInv, PP!TruthfulResults, NEW t \in Threads, pc[t] = "ret"
        PROVE  Cell!Truthful(t)
    <2>1. CASE call[t] = "finish_reading"
      <3>1. res[t].kind = "None"
        BY <1>1, <2>1 DEF BarInv, BarAt, FreshAt, NoResult
      <3>2. QED
        BY <2>1, <3>1 DEF Cell!Truthful
    <2>2. CASE call[t] # "finish_reading"
      <3>1. pcBar[t] = "ret" /\ PP!Truthful(t)
        BY <1>1, <2>2, SeenPlaces DEF PP!TruthfulResults
      <3>2. callBar[t] = IF call[t] = "read_relaxed" THEN "read" ELSE call[t]
        BY <3>1 DEF callBar
      <3>3. res[t].kind # "GracefulWaitTimeout" => resBar[t].kind = res[t].kind
        BY DEF resBar, Err
      <3>4. res[t].kind = "GracefulWaitTimeout" => resBar[t].kind = "CannotCallUnlessPhaseRead"
        BY DEF resBar, Err
      <3>5. /\ PP!Reached(1) <=> Cell!Reached(1)
            /\ PP!Reached(2) <=> Cell!Reached(2)
            /\ Cell!Reached(2) => Cell!Reached(1)
        BY DEF PP!Reached, Cell!Reached, PP!Rank, Cell!Rank, PP!u8_to_phase, Cell!u8_to_phase,
           PP!PHASE_SETUP, PP!PHASE_SETUP_TO_READ, PP!PHASE_READ
      <3>6. CASE res[t].kind = "GracefulWaitTimeout"
        BY <3>1, <3>2, <3>4, <3>6 DEF PP!Truthful, Cell!Truthful, PP!PHASE_CLEANUP
      <3>7. CASE res[t].kind # "GracefulWaitTimeout"
        <4>1. resBar[t].kind = res[t].kind
          BY <3>3, <3>7
        <4>2. QED
          BY <3>1, <3>2, <3>5, <4>1 DEF PP!Truthful, Cell!Truthful, PP!PHASE_CLEANUP
      <3>8. QED
        BY <3>6, <3>7
    <2>3. QED
      BY <2>1, <2>2
  <1>2. BarInv /\ PP!TruthfulResults => Cell!TruthfulResults
    BY <1>1 DEF Cell!TruthfulResults
  <1>3. QED
    BY <1>2, SeenAsCell, PP!ResultsAreTruthful, NobodyIsNoThread, BothInvariants, PTL

\* While a transition is open, be it that it waits for readers, nobody new comes to the data
\* mutex, and who is at it only goes on.
THEOREM GracefulTransitionsWindDown == GracefulSpec => PP!TransitionsWindDown
  BY SeenAsCell, PP!OpenTransitionsWindDown, NobodyIsNoThread, PTL

\* One of those at the mutex, where a cleanup that waits for readers is seen, can go on.
THEOREM GracefulTransitionsCanMove == GracefulSpec => []PP!TransitionsCanMove
  BY SeenAsCell, PP!OpenTransitionsCanMove, NobodyIsNoThread, PTL

\* Once a cleanup has begun nobody becomes a reader any more, counted or not yet: those its
\* wait may have missed only leave.
THEOREM GracefulNoNewReaders == GracefulSpec => PP!ReadersOnlyLeave
  BY SeenAsCell, PP!NoNewReaders, NobodyIsNoThread, PTL

\* The phase moves along the edges of the lifecycle only, what `phase()` shows never goes
\* back, and a transition ends by the hand that opened it: no time-out makes another thread
\* end it, or try it again.
THEOREM GracefulKeepsToTheLifecycle ==
  GracefulSpec => PP!LP!FollowsTheGraph /\ PP!LP!NeverGoesBack /\ PP!LP!NeverTakenOver
  BY SeenAsCell, PP!KeepsToTheLifecycle, NobodyIsNoThread, PTL

-----------------------------------------------------------------------------
(* No deadlock: who waits for whom *)

\* Who holds graceful_mutex needs nothing more, and who holds data_mutex needs graceful_mutex
\* at most.
LEMMA HoldersWaitLess ==
  ASSUME Inv, BarInv, PP!Inv, NEW u \in Threads
  PROVE  /\ graceful_holder = u => WaitLevel(u) = 0
         /\ holder = u => WaitLevel(u) <= 1
  <1>1. graceful_holder = u => pc[u] \in {"check", "wait"}
    BY DEF Inv, GateInv
  <1>2. holder = u => pcBar[u] \in {"run", "swap", "commit", "unlock", "guard"}
    BY DEF PP!Inv, PP!MutexInv
  <1>3. holder = u => pc[u] \in {"run", "swap", "commit", "unlock", "guard", "notify"}
    BY <1>2 DEF pcBar
  <1>4. QED
    BY <1>1, <1>3 DEF WaitLevel, WantsData, WantsGraceful

\* Who cannot go on waits for someone: a sleeping cleanup for a counted reader or for the
\* one that has its notification to send, a sleeping reader for the transition to Read.
LEMMA SomeoneIsWaitedFor ==
  ASSUME Inv, BarInv, PP!Inv, NEW t \in Threads, Blocked(t)
  PROVE  \E u \in Threads : WaitsFor(t, u)
  <1>1. CASE WantsData(t) /\ holder # Nobody
    BY <1>1 DEF Inv, TypeOK, WaitsFor
  <1>2. CASE WantsGraceful(t) /\ graceful_holder # Nobody
    BY <1>2 DEF Inv, TypeOK, WaitsFor
  <1>3. CASE pc[t] = "asleep" /\ call[t] = "transition_to_cleanup"
    <2>1. CASE graceful_counter = 0
      BY <1>3, <2>1 DEF Inv, WakeInv, WaitsFor
    <2>2. CASE graceful_counter # 0
      <3>1. Counted # {}
        BY <2>2, FS_EmptySet DEF Inv, TypeOK, CountInv, CounterBounded
      <3>2. QED
        BY <1>3, <3>1 DEF Counted, WaitsFor
    <2>3. QED
      BY <2>1, <2>2
  <1>4. CASE pc[t] = "asleep" /\ call[t] = "read"
    <2>1. CASE phase # PHASE_SETUP_TO_READ
      BY <1>4, <2>1 DEF Inv, WakeInv, Informs, WaitsFor
    <2>2. CASE phase = PHASE_SETUP_TO_READ
      <3>1. PICK u \in Threads : PP!InTransition(u)
        BY <2>2 DEF PP!Inv, PP!PhaseInv, PP!InTransit
      <3>2. callBar[u] = "transition_to_read" /\ pcBar[u] \in {"lock", "run", "swap", "commit"}
        BY <2>2, <3>1
        DEF PP!Inv, PP!PhaseInv, PP!InTransition, PP!Via, PP!PHASE_READ_TO_CLEANUP,
            PP!PHASE_SETUP_TO_CLEANUP
      <3>3. call[u] = "transition_to_read"
        BY <3>2 DEF callBar
      <3>4. pc[u] \in {"lock", "run", "swap", "commit"}
        BY <3>2, <3>3 DEF pcBar
      <3>5. QED
        BY <1>4, <3>3, <3>4 DEF WaitsFor
    <2>3. QED
      BY <2>1, <2>2
  <1>5. QED
    BY <1>1, <1>2, <1>3, <1>4 DEF Blocked, Inv, GateInv, Waiting

\* No deadlock, for any number of threads and readers, and with wait_timeout's time-out left
\* out: whoever cannot go on waits for somebody, and every chain of threads that wait for
\* each other goes down, to a thread that can go on or a caller with a guard or a &T.
THEOREM NobodyWaitsInACircle == GracefulSpec => []NoCircularWait
  <1>1. ASSUME Inv, BarInv, PP!Inv, NEW t \in Threads, NEW u \in Threads, WaitsFor(t, u)
        PROVE  WaitLevel(u) < WaitLevel(t)
    <2>1. CASE WantsData(t) /\ holder = u
      BY <1>1, <2>1, HoldersWaitLess DEF WaitLevel, WantsData, WantsGraceful
    <2>2. CASE WantsGraceful(t) /\ graceful_holder = u
      BY <1>1, <2>2, HoldersWaitLess DEF WaitLevel, WantsData, WantsGraceful
    <2>3. CASE pc[t] = "asleep"
      BY <1>1, <2>3 DEF WaitsFor, WaitLevel, WantsData, WantsGraceful
    <2>4. QED
      BY <1>1, <2>1, <2>2, <2>3 DEF WaitsFor
  <1>2. Inv /\ BarInv /\ PP!Inv => NoCircularWait
    BY <1>1, SomeoneIsWaitedFor DEF NoCircularWait
  <1>3. QED
    BY <1>2, BothInvariants, PTL

-----------------------------------------------------------------------------
(* Errors name no phase of the future *)

\* How far the cell is, and what shows no phase that is farther.
Reach == Rank(u8_to_phase(phase))
Behind(public) == public # "None" => Rank(public) <= Reach

\* Nothing that thread t keeps in mind for a result is of the future.
LagAt(t) ==
    /\ Behind(u8_to_phase(old[t])) /\ Behind(u8_to_phase(seen[t])) /\ Behind(res[t].phase)
    /\ result_w[t] = "Timeout" => Reach = 2
LagInv == \A t \in Threads : LagAt(t)

\* A step of thread t in which it learns nothing but what is so before the step.
Learns(t) ==
    /\ \A u \in Threads \ {t} :
          old'[u] = old[u] /\ seen'[u] = seen[u] /\ res'[u] = res[u] /\ result_w'[u] = result_w[u]
    /\ Behind(u8_to_phase(old'[t])) /\ Behind(u8_to_phase(seen'[t])) /\ Behind(res'[t].phase)
    /\ result_w'[t] = "Timeout" => Reach = 2

\* Phases, and the results made of them.
LEMMA PublicPhases ==
  ASSUME NEW c
  PROVE  u8_to_phase(c) \in PublicPhase /\ u8_to_phase(c) # "None"
         /\ Rank(u8_to_phase(c)) \in {0, 1, 2}
  BY DEF u8_to_phase, PublicPhase, Rank

LEMMA BehindPhases ==
  /\ Behind(u8_to_phase(phase)) /\ Behind(u8_to_phase(PHASE_SETUP))
  /\ Behind(u8_to_phase(PHASE_SETUP_TO_READ))
  /\ Behind(Ok.phase) /\ Behind(Panic.phase) /\ Behind(NoResult.phase)
  <1>1. Behind(u8_to_phase(phase))
    BY PublicPhases DEF Behind, Reach
  <1>2. Rank(u8_to_phase(PHASE_SETUP)) = 0 /\ Rank(u8_to_phase(PHASE_SETUP_TO_READ)) = 0
    BY DEF u8_to_phase, Rank
  <1>3. Behind(u8_to_phase(PHASE_SETUP)) /\ Behind(u8_to_phase(PHASE_SETUP_TO_READ))
    BY <1>2, PublicPhases DEF Behind, Reach
  <1>4. QED
    BY <1>1, <1>3 DEF Behind, Ok, Panic, NoResult

LEMMA BehindErr ==
  ASSUME NEW c, NEW k, Behind(u8_to_phase(c))
  PROVE  Behind(Err(c, k).phase)
  BY DEF Err

LEMMA BehindRefusals ==
  /\ Behind(ToReadRefusal(phase).phase) /\ Behind(ToCleanupRefusal(phase).phase)
  /\ Behind(LockRefusal(phase).phase)
  BY BehindPhases, BehindErr DEF ToReadRefusal, ToCleanupRefusal, LockRefusal

\* Once a cleanup is under way there is no phase of the future.
LEMMA CleanupIsLast ==
  ASSUME Inv, NEW t \in Threads, InTransition(t), call[t] = "transition_to_cleanup"
  PROVE  Reach = 2 /\ \A c : Behind(u8_to_phase(c))
  <1>1. phase \in {PHASE_READ_TO_CLEANUP, PHASE_SETUP_TO_CLEANUP}
    BY DEF Inv, OwnerInv, Via
  <1>2. Reach = 2
    BY <1>1 DEF Reach, Rank, u8_to_phase
  <1>3. QED
    BY <1>2, PublicPhases DEF Behind

\* transition_to_read learns the phase it loads, and its own.
LEMMA ToReadLearns ==
  ASSUME Inv, LagInv, NEW t \in Threads, transition_to_read(t) PROVE Learns(t)
  <1>1. CASE ToReadBegin(t)
    BY <1>1, BehindPhases
    DEF Inv, TypeOK, LagInv, LagAt, Learns, ToReadBegin, Cell!ToReadBegin, Cell!Enter, graceful
  <1>2. CASE ToReadRefused(t)
    BY <1>2, BehindPhases, BehindRefusals, SameRefusals
    DEF Inv, TypeOK, LagInv, LagAt, Learns, ToReadRefused, Cell!ToReadRefused, Cell!Refuse,
        Cell!Enter, graceful
  <1>3. CASE ToReadLock(t)
    <2>1. Behind(Cell!ToReadFault(t).phase)
      BY BehindPhases, BehindErr, SameErr, SameResults DEF LagInv, LagAt, Cell!ToReadFault
    <2>2. QED
      BY <1>3, <2>1
      DEF Inv, TypeOK, LagInv, LagAt, Learns, ToReadLock, Cell!ToReadLock, Cell!Step, graceful
  <1>4. CASE ToReadRun(t)
    <2>1. res'[t].phase \in {Ok.phase, Panic.phase, u8_to_phase(PHASE_SETUP)}
      BY <1>4, SameErr, SameResults DEF Inv, TypeOK, ToReadRun, Cell!ToReadRun, Err
    <2>2. QED
      BY <1>4, <2>1, BehindPhases
      DEF Inv, TypeOK, LagInv, LagAt, Learns, ToReadRun, Cell!ToReadRun, Cell!Step, graceful
  <1>5. CASE ToReadSwap(t) \/ ToReadCommit(t) \/ notify_read_phase(t)
    BY <1>5
    DEF LagInv, LagAt, Learns, ToReadSwap, Cell!ToReadSwap, ToReadCommit, notify_read_phase,
        Cell!Step, graceful
  <1>6. QED
    BY <1>1, <1>2, <1>3, <1>4, <1>5 DEF transition_to_read

\* So does transition_to_cleanup, which comes last.
LEMMA ToCleanupLearns ==
  ASSUME Inv, BarInv, LagInv, NEW t \in Threads, transition_to_cleanup(t) PROVE Learns(t)
  <1>1. CASE ToCleanupBegin(t)
    BY <1>1, BehindPhases
    DEF Inv, TypeOK, LagInv, LagAt, Learns, ToCleanupBegin, Cell!Enter, graceful
  <1>2. CASE ToCleanupRefused(t)
    BY <1>2, BehindPhases, BehindRefusals, SameRefusals
    DEF Inv, TypeOK, LagInv, LagAt, Learns, ToCleanupRefused, Cell!ToCleanupRefused,
        Cell!Refuse, Cell!Enter, graceful
  <1>3. CASE CleanupCheck(t)
    <2>1. Reach = 2
      BY <1>3, CleanupIsLast DEF CleanupCheck, CleanupTurn, InTransition, Waiting
    <2>2. QED
      BY <1>3, <2>1 DEF Inv, TypeOK, LagInv, LagAt, Learns, CleanupCheck, CleanupTurn
  <1>4. CASE ToCleanupLock(t)
    <2>1. \A c : Behind(u8_to_phase(c))
      BY <1>4, CleanupIsLast DEF ToCleanupLock, Cell!ToCleanupLock, Cell!Step, InTransition
    <2>2. Behind(Cell!ToCleanupFault(t).phase)
      BY <2>1, BehindPhases, BehindErr, SameErr, SameResults DEF Cell!ToCleanupFault
    <2>3. QED
      BY <1>4, <2>2
      DEF Inv, TypeOK, LagInv, LagAt, Learns, ToCleanupLock, Cell!ToCleanupLock, Cell!Step,
          graceful
  <1>5. CASE ToCleanupRun(t)
    <2>1. \A c : Behind(u8_to_phase(c))
      BY <1>5, CleanupIsLast DEF ToCleanupRun, Cell!ToCleanupRun, Cell!Step, InTransition
    <2>2. res'[t].phase \in {Ok.phase, Panic.phase, u8_to_phase(PHASE_CLEANUP)}
      BY <1>5, SameErr, SameResults DEF Inv, TypeOK, ToCleanupRun, Cell!ToCleanupRun, Err
    <2>3. QED
      BY <1>5, <2>1, <2>2, BehindPhases
      DEF Inv, TypeOK, LagInv, LagAt, Learns, ToCleanupRun, Cell!ToCleanupRun, Cell!Step,
          graceful
  <1>6. CASE ToCleanupSwap(t) \/ ToCleanupCommit(t)
    BY <1>6
    DEF LagInv, LagAt, Learns, ToCleanupSwap, Cell!ToCleanupSwap, ToCleanupCommit,
        Cell!ToCleanupCommit, Cell!Step, graceful
  <1>7. QED
    BY <1>1, <1>2, <1>3, <1>4, <1>5, <1>6 DEF transition_to_cleanup

\* lock and try_lock keep two phases in mind, and use the older one for their errors.
LEMMA LockLearns ==
  ASSUME Inv, LagInv, NEW t \in Threads, lock(t) \/ try_lock(t) \/ GuardDrop(t)
  PROVE  Learns(t)
  <1>1. CASE LockPeek(t)
    BY <1>1, BehindPhases DEF Inv, TypeOK, LagInv, LagAt, Learns, LockPeek
  <1>2. CASE LockDecide(t)
    BY <1>2, BehindPhases, BehindRefusals
    DEF Inv, TypeOK, LagInv, LagAt, Learns, LockDecide, graceful
  <1>3. CASE LockAcquire(t)
    <2>1. Behind(LockFault(t).phase)
      BY BehindPhases, BehindErr DEF LagInv, LagAt, LockFault
    <2>2. QED
      BY <1>3, <2>1 DEF Inv, TypeOK, LagInv, LagAt, Learns, LockAcquire, Cell!Step, graceful
  <1>4. CASE TryLockFails(t)
    BY <1>4, BehindErr
    DEF Inv, TypeOK, LagInv, LagAt, Learns, TryLockFails, Cell!Step, graceful
  <1>5. CASE GuardDrop(t)
    BY <1>5, BehindPhases, SameResults
    DEF Inv, TypeOK, LagInv, LagAt, Learns, GuardDrop, Cell!GuardDrop, graceful
  <1>6. QED
    BY <1>1, <1>2, <1>3, <1>4, <1>5 DEF lock, try_lock

\* read loads the phase anew for every error; read_relaxed does not, but looks only after it
\* has found Read.
LEMMA ReadLearns ==
  ASSUME Inv, BarInv, LagInv, NEW t \in Threads, read(t) \/ read_relaxed(t)
  PROVE  Learns(t)
  <1>1. CASE ReadBegin(t) \/ ReadRelaxedBegin(t)
    BY <1>1, BehindPhases
    DEF Inv, TypeOK, LagInv, LagAt, Learns, ReadBegin, ReadRelaxedBegin, Cell!Enter, graceful
  <1>2. CASE ReadRefused(t) \/ ReadRelaxedRefused(t)
    BY <1>2, BehindPhases, BehindErr
    DEF Inv, TypeOK, LagInv, LagAt, Learns, ReadRefused, ReadRelaxedRefused, Cell!Refuse,
        Cell!Enter, graceful
  <1>3. CASE ReadCheck(t)
    BY <1>3, BehindPhases, BehindErr DEF Inv, TypeOK, LagInv, LagAt, Learns, ReadCheck
  <1>4. CASE ReadLook(t)
    <2>1. call[t] = "read_relaxed" => Behind(u8_to_phase(PHASE_READ))
      BY <1>4 DEF LagInv, LagAt, BarInv, BarAt, FreshAt, ReadLook, Cell!Step
    <2>2. Behind(res'[t].phase)
      BY <1>4, <2>1, BehindPhases, BehindErr
      DEF Inv, TypeOK, ReadLook, Cell!Step, Reading
    <2>3. QED
      BY <1>4, <2>2 DEF Inv, TypeOK, LagInv, LagAt, Learns, ReadLook, Cell!Step, graceful
  <1>5. CASE count_up(t)
    BY <1>5 DEF LagInv, LagAt, Learns, count_up, Cell!Step
  <1>6. QED
    BY <1>1, <1>2, <1>3, <1>4, <1>5 DEF read, read_relaxed

\* Counting, waiting and releasing load nothing; a call that is over forgets what it knew.
LEMMA OthersLearn ==
  ASSUME Inv, LagInv, NEW t \in Threads,
         \/ finish_reading(t) \/ ExcessFinishReading(t) \/ NotifyDrained(t)
         \/ WaitLock(t) \/ WaitSleep(t) \/ WaitWake(t) \/ Unlock(t) \/ Return(t)
  PROVE  Learns(t)
  <1>1. CASE \/ finish_reading(t) \/ ExcessFinishReading(t) \/ NotifyDrained(t)
             \/ WaitLock(t) \/ WaitSleep(t) \/ WaitWake(t) \/ Unlock(t)
    BY <1>1
    DEF LagInv, LagAt, Learns, finish_reading, ExcessFinishReading, Decrement, NotifyDrained,
        WaitLock, WaitSleep, WaitWake, Unlock, graceful
  <1>2. CASE Return(t)
    BY <1>2, BehindPhases, SameResults
    DEF Inv, TypeOK, LagInv, LagAt, Learns, Return, Cell!Return
  <1>3. QED
    BY <1>1, <1>2

\* The cell never gets less far.
LEMMA ReachGrows == ASSUME Inv, [GracefulNext]_vars PROVE Reach' >= Reach
  <1>1. CASE phase' = phase
    BY <1>1, PublicPhases DEF Reach
  <1>2. ASSUME NEW t \in Threads, ToReadBegin(t) \/ ToReadCommit(t)
        PROVE  Reach' >= Reach
    <2>1. phase \in {PHASE_SETUP, PHASE_SETUP_TO_READ}
      BY <1>2
      DEF Inv, OwnerInv, InTransition, ToReadBegin, Cell!ToReadBegin, ToReadCommit, Cell!Step
    <2>2. Reach = 0
      BY <2>1 DEF Reach, Rank, u8_to_phase
    <2>3. QED
      BY <2>2, PublicPhases DEF Reach
  <1>3. ASSUME NEW t \in Threads, ToCleanupBegin(t) \/ ToCleanupCommit(t)
        PROVE  Reach' >= Reach
    <2>1. phase' \in {PHASE_READ_TO_CLEANUP, PHASE_SETUP_TO_CLEANUP, PHASE_CLEANUP}
      BY <1>3
      DEF Inv, OwnerInv, InTransition, Via, ToCleanupBegin, ToCleanupCommit,
          Cell!ToCleanupCommit, Cell!change_phase, Cell!Via, Cell!Step
    <2>2. Reach' = 2
      BY <2>1 DEF Reach, Rank, u8_to_phase
    <2>3. QED
      BY <2>2, PublicPhases DEF Reach
  <1>4. QED
    BY <1>1, <1>2, <1>3
    DEF GracefulNext, vars, cellVars, transition_to_read, transition_to_cleanup, lock, try_lock,
        read, read_relaxed, ToReadRefused, Cell!ToReadRefused, Cell!Refuse, ToReadLock,
        Cell!ToReadLock, ToReadRun, Cell!ToReadRun, ToReadSwap, Cell!ToReadSwap,
        notify_read_phase, ToCleanupRefused, Cell!ToCleanupRefused, CleanupCheck, CleanupTurn,
        ToCleanupLock, Cell!ToCleanupLock, ToCleanupRun, Cell!ToCleanupRun, ToCleanupSwap,
        Cell!ToCleanupSwap, LockPeek, LockDecide, LockAcquire, TryLockFails, GuardDrop,
        Cell!GuardDrop, ReadBegin, ReadRefused, ReadCheck, ReadLook, count_up,
        ReadRelaxedBegin, ReadRelaxedRefused, finish_reading, ExcessFinishReading, Decrement,
        NotifyDrained, WaitLock, WaitSleep, WaitWake, Unlock, Return, Cell!Return

\* What was not of the future is not, after a step that learned nothing of the future.
LEMMA LagKept ==
  ASSUME Inv, [GracefulNext]_vars, LagInv, NEW t \in Threads, Learns(t) PROVE LagInv'
  <1>1. Reach' >= Reach /\ Reach \in {0, 1, 2} /\ Reach' \in {0, 1, 2}
    BY ReachGrows, PublicPhases DEF Reach
  <1>2. ASSUME NEW public, Behind(public) PROVE public # "None" => Rank(public) <= Reach'
    <2>1. Rank(public) \in {0, 1, 2}
      BY DEF Rank
    <2>2. QED
      BY <1>1, <1>2, <2>1 DEF Behind
  <1>3. ASSUME NEW u \in Threads PROVE LagAt(u)'
    <2>1. /\ Behind(u8_to_phase(old'[u])) /\ Behind(u8_to_phase(seen'[u]))
          /\ Behind(res'[u].phase)
          /\ result_w'[u] = "Timeout" => Reach = 2
      BY DEF Learns, LagInv, LagAt
    <2>2. result_w'[u] = "Timeout" => Reach' = 2
      BY <1>1, <2>1
    <2>3. QED
      BY <1>2, <2>1, <2>2 DEF LagAt, Behind
  <1>4. QED
    BY <1>3 DEF LagInv

LEMMA LagInvariance == GracefulSpec => []LagInv
  <1>1. GracefulInit => LagInv
    BY BehindPhases, SameResults
    DEF GracefulInit, Cell!PhasedCellSyncInit, LagInv, LagAt
  <1>2. ASSUME Inv, BarInv, LagInv, [GracefulNext]_vars PROVE LagInv'
    <2>1. CASE UNCHANGED vars
      BY <1>2, <2>1 DEF vars, cellVars, graceful, LagInv, LagAt, Behind, Reach
    <2>2. ASSUME NEW t \in Threads,
                 \/ transition_to_read(t) \/ transition_to_cleanup(t)
                 \/ lock(t) \/ try_lock(t) \/ GuardDrop(t)
                 \/ read(t) \/ read_relaxed(t)
                 \/ finish_reading(t) \/ ExcessFinishReading(t) \/ NotifyDrained(t)
                 \/ WaitLock(t) \/ WaitSleep(t) \/ WaitWake(t)
                 \/ Unlock(t) \/ Return(t)
          PROVE  LagInv'
      BY <1>2, <2>2, LagKept, ToReadLearns, ToCleanupLearns, LockLearns, ReadLearns,
         OthersLearn
    <2>3. QED
      BY <1>2, <2>1, <2>2 DEF GracefulNext
  <1>3. QED
    BY <1>1, <1>2, BothInvariants, PTL DEF GracefulSpec

\* Who goes for data_mutex was let in by Setup, and saw no other phase first, or is in
\* Cleanup; and who was told that the data is gone, was told so of Setup, after its end.
Lockers == {"lock", "try_lock"}
GoneAt(t) ==
    call[t] \in Lockers =>
        /\ pc[t] = "lock" => phase = PHASE_CLEANUP \/ u8_to_phase(seen[t]) = "Setup"
        /\ res[t].kind = "InternalDataUnavailable" =>
              res[t].phase = "Setup" /\ u8_to_phase(phase) # "Setup"
GoneInv == \A t \in Threads : GoneAt(t)

\* A step of thread t brings no other locker to data_mutex and gives it no result.
LockersKeep(t) ==
    \A u \in Threads \ {t} :
        /\ call'[u] = call[u] /\ seen'[u] = seen[u] /\ res'[u] = res[u]
        /\ pc'[u] = "lock" => pc[u] = "lock"

\* Setup does not come again, and Cleanup does not end.
LEMMA SetupIsOver ==
  ASSUME Inv, [GracefulNext]_vars
  PROVE  /\ u8_to_phase(phase) # "Setup" => u8_to_phase(phase') # "Setup"
         /\ phase = PHASE_CLEANUP => phase' = PHASE_CLEANUP
  <1>1. u8_to_phase(phase) # "Setup" => u8_to_phase(phase') # "Setup"
    <2>1. \A c : u8_to_phase(c) = "Setup" <=> Rank(u8_to_phase(c)) = 0
      BY PublicPhases DEF Rank, PublicPhase
    <2>2. QED
      BY <2>1, ReachGrows, PublicPhases DEF Reach
  <1>2. ASSUME NEW t \in Threads, phase = PHASE_CLEANUP
        PROVE  ~ToReadBegin(t) /\ ~ToReadCommit(t) /\ ~ToCleanupBegin(t) /\ ~ToCleanupCommit(t)
    BY <1>2
    DEF Inv, OwnerInv, InTransition, Via, ToReadBegin, Cell!ToReadBegin, ToReadCommit,
        ToCleanupBegin, ToCleanupCommit, Cell!ToCleanupCommit, Cell!Step
  <1>3. phase = PHASE_CLEANUP => phase' = PHASE_CLEANUP
    BY <1>2
    DEF GracefulNext, vars, cellVars, transition_to_read, transition_to_cleanup, lock, try_lock,
        read, read_relaxed, ToReadRefused, Cell!ToReadRefused, Cell!Refuse, ToReadLock,
        Cell!ToReadLock, ToReadRun, Cell!ToReadRun, ToReadSwap, Cell!ToReadSwap,
        notify_read_phase, ToCleanupRefused, Cell!ToCleanupRefused, CleanupCheck, CleanupTurn,
        ToCleanupLock, Cell!ToCleanupLock, ToCleanupRun, Cell!ToCleanupRun, ToCleanupSwap,
        Cell!ToCleanupSwap, LockPeek, LockDecide, LockAcquire, TryLockFails, GuardDrop,
        Cell!GuardDrop, ReadBegin, ReadRefused, ReadCheck, ReadLook, count_up,
        ReadRelaxedBegin, ReadRelaxedRefused, finish_reading, ExcessFinishReading, Decrement,
        NotifyDrained, WaitLock, WaitSleep, WaitWake, Unlock, Return, Cell!Return
  <1>4. QED
    BY <1>1, <1>3

\* A step that leaves the lockers as they are, its own thread's claim being seen to.
LEMMA GoneKept ==
  ASSUME Inv, [GracefulNext]_vars, GoneInv, NEW t \in Threads, LockersKeep(t), GoneAt(t)'
  PROVE  GoneInv'
  <1>1. ASSUME NEW u \in Threads \ {t} PROVE GoneAt(u)'
    BY SetupIsOver DEF GoneInv, GoneAt, LockersKeep
  <1>2. QED
    BY <1>1 DEF GoneInv

\* Transitions and readers are no lockers.
LEMMA TransitionsAreElsewhere ==
  ASSUME Inv, NEW t \in Threads, transition_to_read(t) \/ transition_to_cleanup(t)
  PROVE  LockersKeep(t) /\ (notify_read_phase(t) \/ call'[t] \notin Lockers)
  <1>1. CASE transition_to_read(t)
    BY <1>1
    DEF Inv, TypeOK, LockersKeep, Lockers, transition_to_read, ToReadBegin, Cell!ToReadBegin,
        ToReadRefused, Cell!ToReadRefused, ToReadLock, Cell!ToReadLock, ToReadRun,
        Cell!ToReadRun, ToReadSwap, Cell!ToReadSwap, ToReadCommit, notify_read_phase, NotifyAll,
        Woken, Cell!Refuse, Cell!Enter, Cell!Step, graceful
  <1>2. CASE transition_to_cleanup(t)
    BY <1>2
    DEF Inv, TypeOK, LockersKeep, Lockers, transition_to_cleanup, ToCleanupBegin,
        ToCleanupRefused, Cell!ToCleanupRefused, CleanupCheck, CleanupTurn, ToCleanupLock,
        Cell!ToCleanupLock, ToCleanupRun, Cell!ToCleanupRun, ToCleanupSwap, Cell!ToCleanupSwap,
        ToCleanupCommit, Cell!ToCleanupCommit, Cell!Refuse, Cell!Enter, Cell!Step, graceful
  <1>3. QED
    BY <1>1, <1>2

LEMMA ReadersAreElsewhere ==
  ASSUME Inv, NEW t \in Threads,
         read(t) \/ read_relaxed(t) \/ ExcessFinishReading(t) \/ Return(t)
  PROVE  LockersKeep(t) /\ call'[t] \notin Lockers
  BY DEF Inv, TypeOK, LockersKeep, Lockers, read, read_relaxed, ReadBegin, ReadRefused,
     ReadCheck, ReadLook, count_up, ReadRelaxedBegin, ReadRelaxedRefused, Reading,
     ExcessFinishReading, Decrement, Return, Cell!Return, Cell!Refuse, Cell!Enter, Cell!Step,
     graceful

\* Waiting, notifying and releasing bring nobody to data_mutex.
LEMMA WaitsAreElsewhere ==
  ASSUME Inv, NEW t \in Threads,
         \/ notify_read_phase(t) \/ finish_reading(t) \/ NotifyDrained(t)
         \/ WaitLock(t) \/ WaitSleep(t) \/ WaitWake(t) \/ Unlock(t)
  PROVE  /\ LockersKeep(t) /\ UNCHANGED phase
         /\ call'[t] = call[t] /\ res'[t] = res[t] /\ pc'[t] # "lock"
  BY DEF Inv, TypeOK, LockersKeep, notify_read_phase, NotifyAll, Woken, finish_reading,
     Decrement, NotifyDrained, WaitLock, WaitSleep, WaitWake, Unlock, graceful

\* data_mutex, when nobody holds it, is empty only in Read and in a cleanup from Read.
LEMMA GoneInRead ==
  ASSUME PP!Inv, holder = Nobody, data_mutex = "None", phase \in PhaseCode
  PROVE  phase \in {PHASE_READ, PHASE_READ_TO_CLEANUP}
  <1>1. phase \notin {PHASE_SETUP, PHASE_CLEANUP, PHASE_SETUP_TO_CLEANUP}
    BY DEF PP!Inv, PP!DataInv, PP!PHASE_SETUP, PP!PHASE_CLEANUP, PP!PHASE_SETUP_TO_CLEANUP
  <1>2. ASSUME phase = PHASE_SETUP_TO_READ PROVE FALSE
    <2>1. PICK u \in Threads : PP!InTransition(u)
      BY <1>2 DEF PP!Inv, PP!PhaseInv, PP!InTransit
    <2>2. callBar[u] = "transition_to_read" /\ pcBar[u] \in {"lock", "run", "swap", "commit"}
      BY <1>2, <2>1
      DEF PP!Inv, PP!PhaseInv, PP!InTransition, PP!Via, PP!PHASE_READ_TO_CLEANUP,
          PP!PHASE_SETUP_TO_CLEANUP
    <2>3. pcBar[u] # "commit"
      BY GracefulAssumption DEF PP!Inv, PP!MutexInv
    <2>4. QED
      BY <2>2, <2>3 DEF PP!Inv, PP!DataInv, PP!At
  <1>3. QED
    BY <1>1, <1>2 DEF PhaseCode

\* lock and try_lock themselves.
LEMMA LockersAreTold ==
  ASSUME Inv, BarInv, PP!Inv, LagInv, GoneInv, NEW t \in Threads,
         lock(t) \/ try_lock(t) \/ GuardDrop(t)
  PROVE  LockersKeep(t) /\ GoneAt(t)'
  <1>1. LockersKeep(t)
    BY DEF Inv, TypeOK, LockersKeep, lock, try_lock, LockPeek, LockDecide, LockAcquire,
       TryLockFails, GuardDrop, Cell!GuardDrop, Cell!Step, graceful
  <1>2. CASE LockPeek(t)
    <2>1. pc'[t] = "peeked" /\ res'[t] = NoResult
      BY <1>2 DEF Inv, TypeOK, BarInv, BarAt, FreshAt, LockPeek
    <2>2. QED
      BY <1>1, <2>1, SameResults DEF GoneAt, NoResult
  <1>3. CASE LockDecide(t)
    <2>1. CASE Cell!Lockable
      <3>1. phase \in {PHASE_SETUP, PHASE_CLEANUP}
        BY <2>1 DEF Cell!Lockable, Cell!PHASE_SETUP, Cell!PHASE_CLEANUP
      <3>2. phase = PHASE_SETUP => u8_to_phase(seen[t]) = "Setup"
        <4>1. Rank(u8_to_phase(PHASE_SETUP)) = 0
          BY DEF u8_to_phase, Rank
        <4>2. phase = PHASE_SETUP => Rank(u8_to_phase(seen[t])) = 0
          BY <4>1, PublicPhases DEF LagInv, LagAt, Behind, Reach
        <4>3. QED
          BY <4>2, PublicPhases DEF Rank, PublicPhase
      <3>3. /\ phase' = phase /\ seen'[t] = seen[t] /\ res'[t] = NoResult
        BY <1>3, <2>1 DEF Inv, TypeOK, LockDecide, graceful
      <3>4. QED
        BY <1>1, <3>1, <3>2, <3>3 DEF GoneAt, NoResult
    <2>2. CASE ~Cell!Lockable
      <3>1. pc'[t] = "ret" /\ res'[t] = LockRefusal(phase)
        BY <1>3, <2>2 DEF Inv, TypeOK, LockDecide
      <3>2. LockRefusal(phase).kind # "InternalDataUnavailable"
        BY DEF LockRefusal, Err
      <3>3. QED
        BY <1>1, <3>1, <3>2 DEF GoneAt
    <2>3. QED
      BY <2>1, <2>2
  <1>4. CASE LockAcquire(t)
    <2>1. /\ pc'[t] # "lock" /\ phase' = phase /\ res'[t] = LockFault(t)
          /\ call[t] \in Lockers /\ pc[t] = "lock" /\ holder = Nobody
      BY <1>4 DEF Inv, TypeOK, LockAcquire, Cell!Step, Lockers
    <2>2. ASSUME LockFault(t).kind = "InternalDataUnavailable"
          PROVE  data_mutex = "None" /\ LockFault(t).phase = u8_to_phase(seen[t])
      BY <2>2 DEF LockFault, Err, NoResult
    <2>3. ASSUME data_mutex = "None"
          PROVE  u8_to_phase(seen[t]) = "Setup" /\ u8_to_phase(phase) # "Setup"
      <3>1. phase \in {PHASE_READ, PHASE_READ_TO_CLEANUP}
        BY <2>1, <2>3, GoneInRead DEF Inv, TypeOK
      <3>2. phase # PHASE_CLEANUP /\ u8_to_phase(phase) # "Setup"
        BY <3>1 DEF u8_to_phase
      <3>3. QED
        BY <2>1, <3>2 DEF GoneInv, GoneAt
    <2>4. QED
      BY <1>1, <2>1, <2>2, <2>3 DEF GoneAt
  <1>5. CASE TryLockFails(t)
    <2>1. pc'[t] = "ret" /\ res'[t].kind = "MutexTryLockFailed"
      BY <1>5 DEF Inv, TypeOK, TryLockFails, Cell!Step, Err
    <2>2. QED
      BY <1>1, <2>1 DEF GoneAt
  <1>6. CASE GuardDrop(t)
    <2>1. pc'[t] = "ret" /\ res'[t].kind \in {"Ok", "Panic"}
      BY <1>6, SameResults DEF Inv, TypeOK, GuardDrop, Cell!GuardDrop, Ok, Panic
    <2>2. QED
      BY <1>1, <2>1 DEF GoneAt
  <1>7. QED
    BY <1>1, <1>2, <1>3, <1>4, <1>5, <1>6 DEF lock, try_lock

LEMMA GoneInvariance == GracefulSpec => []GoneInv
  <1>1. GracefulInit => GoneInv
    BY DEF GracefulInit, Cell!PhasedCellSyncInit, GoneInv, GoneAt, Lockers
  <1>2. ASSUME Inv, BarInv, PP!Inv, LagInv, GoneInv, [GracefulNext]_vars PROVE GoneInv'
    <2>1. CASE UNCHANGED vars
      BY <1>2, <2>1 DEF vars, cellVars, graceful, GoneInv, GoneAt
    <2>2. ASSUME NEW t \in Threads, transition_to_read(t) \/ transition_to_cleanup(t),
                 ~notify_read_phase(t)
          PROVE  GoneInv'
      BY <1>2, <2>2, TransitionsAreElsewhere, GoneKept DEF GoneAt
    <2>3. ASSUME NEW t \in Threads,
                 read(t) \/ read_relaxed(t) \/ ExcessFinishReading(t) \/ Return(t)
          PROVE  GoneInv'
      BY <1>2, <2>3, ReadersAreElsewhere, GoneKept DEF GoneAt
    <2>4. ASSUME NEW t \in Threads,
                 \/ notify_read_phase(t) \/ finish_reading(t) \/ NotifyDrained(t)
                 \/ WaitLock(t) \/ WaitSleep(t) \/ WaitWake(t) \/ Unlock(t)
          PROVE  GoneInv'
      <3>1. GoneAt(t)'
        BY <1>2, <2>4, WaitsAreElsewhere DEF GoneInv, GoneAt
      <3>2. QED
        BY <1>2, <2>4, <3>1, WaitsAreElsewhere, GoneKept
    <2>5. ASSUME NEW t \in Threads, lock(t) \/ try_lock(t) \/ GuardDrop(t)
          PROVE  GoneInv'
      BY <1>2, <2>5, LockersAreTold, GoneKept
    <2>6. QED
      BY <1>2, <2>1, <2>2, <2>3, <2>4, <2>5 DEF GracefulNext
  <1>3. QED
    BY <1>1, <1>2, BothInvariants, LagInvariance, PTL DEF GracefulSpec

\* No call names a phase that the cell has not reached, although lock and try_lock load the
\* phase once for their errors and once more to decide, and a cleanup's time-out is reported
\* long after it; and who is told that the data is gone called in Setup, which is over.
THEOREM ErrorsNameThePast == GracefulSpec => []ErrorsLagBehind
  <1>1. ASSUME LagInv, NEW t \in Threads PROVE Behind(Returned(t).phase)
    <2>1. CASE result_w[t] = "Timeout"
      <3>1. Reach = 2
        BY <1>1, <2>1 DEF LagInv, LagAt
      <3>2. \A public : Rank(public) \in {0, 1, 2}
        BY DEF Rank
      <3>3. QED
        BY <3>1, <3>2 DEF Behind
    <2>2. CASE result_w[t] # "Timeout"
      BY <1>1, <2>2 DEF Returned, LagInv, LagAt
    <2>3. QED
      BY <2>1, <2>2
  <1>2. LagInv /\ GoneInv => ErrorsLagBehind
    BY <1>1 DEF GoneInv, GoneAt, Lockers, ErrorsLagBehind, Behind, Reach
  <1>3. QED
    BY <1>2, LagInvariance, GoneInvariance, PTL
=================================================================================
