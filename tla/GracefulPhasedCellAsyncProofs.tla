---------------------- MODULE GracefulPhasedCellAsyncProofs ----------------------
(***************************************************************************)
(* Proofs about GracefulPhasedCellAsync, for any finite set of tasks and   *)
(* whichever accidents are allowed.                                        *)
(*                                                                         *)
(* Inv is inductive, and with it the cell implements PhasedCellAsync.  One *)
(* lemma per action shows both: that the step preserves Inv, and that      *)
(* through pcBar, callBar, oldBar and resBar it is a step of               *)
(* PhasedCellAsync or none.  Most steps are Quiet: no sleeper, or whoever  *)
(* is to wake it, depends on them.                                         *)
(***************************************************************************)
EXTENDS GracefulPhasedCellAsync, FiniteSetTheorems, TLAPS

\* The phase codes stand for their strings everywhere below.
USE DEF PHASE_SETUP, PHASE_READ, PHASE_CLEANUP, PHASE_SETUP_TO_READ,
        PHASE_READ_TO_CLEANUP, PHASE_SETUP_TO_CLEANUP,
        Base!PHASE_SETUP, Base!PHASE_READ, Base!PHASE_CLEANUP, Base!PHASE_SETUP_TO_READ,
        Base!PHASE_READ_TO_CLEANUP, Base!PHASE_SETUP_TO_CLEANUP,
        Cell!PHASE_SETUP, Cell!PHASE_READ, Cell!PHASE_CLEANUP, Cell!PHASE_SETUP_TO_READ,
        Cell!PHASE_READ_TO_CLEANUP, Cell!PHASE_SETUP_TO_CLEANUP,
        Base!Cell!PHASE_SETUP, Base!Cell!PHASE_READ, Base!Cell!PHASE_CLEANUP,
        Base!Cell!PHASE_SETUP_TO_READ, Base!Cell!PHASE_READ_TO_CLEANUP,
        Base!Cell!PHASE_SETUP_TO_CLEANUP,
        P!PHASE_SETUP, P!PHASE_READ, P!PHASE_CLEANUP, P!PHASE_SETUP_TO_READ,
        P!PHASE_READ_TO_CLEANUP, P!PHASE_SETUP_TO_CLEANUP,
        P!Cell!PHASE_SETUP, P!Cell!PHASE_READ, P!Cell!PHASE_CLEANUP,
        P!Cell!PHASE_SETUP_TO_READ, P!Cell!PHASE_READ_TO_CLEANUP,
        P!Cell!PHASE_SETUP_TO_CLEANUP

-----------------------------------------------------------------------------
(* The instances share the results of Phase. *)

LEMMA SameErr ==
  ASSUME NEW c, NEW k
  PROVE  /\ Base!Err(c, k) = Err(c, k) /\ Base!Cell!Err(c, k) = Err(c, k)
         /\ Cell!Err(c, k) = Err(c, k)
         /\ P!Err(c, k) = Err(c, k) /\ P!Cell!Err(c, k) = Err(c, k)
         /\ Err(c, k).kind = k
         /\ k \in PhasedErrorKind => Err(c, k) \in Result
  <1>1. /\ Base!Err(c, k) = Err(c, k) /\ Base!Cell!Err(c, k) = Err(c, k)
        /\ Cell!Err(c, k) = Err(c, k)
    BY DEF Base!Err, Base!Cell!Err, Cell!Err, Err, Base!u8_to_phase, Base!Cell!u8_to_phase,
       Cell!u8_to_phase, u8_to_phase
  <1>2. P!Err(c, k) = Err(c, k) /\ P!Cell!Err(c, k) = Err(c, k)
    BY DEF P!Err, P!Cell!Err, Err, P!u8_to_phase, P!Cell!u8_to_phase, u8_to_phase
  <1>3. Err(c, k).kind = k /\ (k \in PhasedErrorKind => Err(c, k) \in Result)
    BY DEF Err, u8_to_phase, PublicPhase, Result
  <1>4. QED
    BY <1>1, <1>2, <1>3

LEMMA SameResults ==
  /\ Base!Ok = Ok /\ Base!Panic = Panic /\ Base!NoResult = NoResult
  /\ Base!Cell!Ok = Ok /\ Base!Cell!Panic = Panic /\ Base!Cell!NoResult = NoResult
  /\ Cell!Ok = Ok
  /\ P!Ok = Ok /\ P!Panic = Panic /\ P!NoResult = NoResult
  /\ P!Cell!Ok = Ok /\ P!Cell!Panic = Panic /\ P!Cell!NoResult = NoResult
  /\ Ok \in Result /\ Panic \in Result /\ NoResult \in Result
  /\ Ok # NoResult /\ Panic # NoResult /\ Ok # Panic
  /\ Ok.kind = "Ok" /\ Panic.kind = "Panic" /\ NoResult.kind = "None"
  <1>1. /\ Base!Ok = Ok /\ Base!Panic = Panic /\ Base!NoResult = NoResult
        /\ Base!Cell!Ok = Ok /\ Base!Cell!Panic = Panic /\ Base!Cell!NoResult = NoResult
        /\ Cell!Ok = Ok
    BY DEF Base!Ok, Base!Panic, Base!NoResult, Base!Cell!Ok, Base!Cell!Panic,
       Base!Cell!NoResult, Cell!Ok, Ok, Panic, NoResult
  <1>2. /\ P!Ok = Ok /\ P!Panic = Panic /\ P!NoResult = NoResult
        /\ P!Cell!Ok = Ok /\ P!Cell!Panic = Panic /\ P!Cell!NoResult = NoResult
    BY DEF P!Ok, P!Panic, P!NoResult, P!Cell!Ok, P!Cell!Panic, P!Cell!NoResult, Ok, Panic,
       NoResult
  <1>3. Ok \in Result /\ Panic \in Result /\ NoResult \in Result
    BY DEF Result
  <1>4. /\ Ok.kind = "Ok" /\ Panic.kind = "Panic" /\ NoResult.kind = "None"
        /\ Ok # NoResult /\ Panic # NoResult /\ Ok # Panic
    BY DEF Ok, Panic, NoResult
  <1>5. QED
    BY <1>1, <1>2, <1>3, <1>4

\* The kinds of result that resBar translates.
Translated == {"GracefulWaitTimeout", "InternalDataUnavailable"}

\* Refusals are the same ones, and none is of these kinds.
LEMMA SameRefusals ==
  ASSUME NEW c
  PROVE  /\ Base!Cell!ToReadRefusal(c) = ToReadRefusal(c)
         /\ P!Cell!ToReadRefusal(c) = ToReadRefusal(c)
         /\ ToReadRefusal(c) \in Result /\ ToReadRefusal(c).kind \notin Translated
         /\ Base!Cell!ToCleanupRefusal(c) = ToCleanupRefusal(c)
         /\ P!Cell!ToCleanupRefusal(c) = ToCleanupRefusal(c)
         /\ ToCleanupRefusal(c) \in Result /\ ToCleanupRefusal(c).kind \notin Translated
         /\ Base!Cell!LockRefusal(c) = LockRefusal(c)
         /\ P!Cell!LockRefusal(c) = LockRefusal(c)
         /\ LockRefusal(c) \in Result /\ LockRefusal(c).kind \notin Translated
  <1>1. /\ Base!Cell!ToReadRefusal(c) = ToReadRefusal(c)
        /\ P!Cell!ToReadRefusal(c) = ToReadRefusal(c)
        /\ ToReadRefusal(c) \in Result /\ ToReadRefusal(c).kind \notin Translated
    BY SameErr DEF Base!Cell!ToReadRefusal, P!Cell!ToReadRefusal, ToReadRefusal, Translated,
       PhasedErrorKind
  <1>2. /\ Base!Cell!ToCleanupRefusal(c) = ToCleanupRefusal(c)
        /\ P!Cell!ToCleanupRefusal(c) = ToCleanupRefusal(c)
        /\ ToCleanupRefusal(c) \in Result /\ ToCleanupRefusal(c).kind \notin Translated
    BY SameErr DEF Base!Cell!ToCleanupRefusal, P!Cell!ToCleanupRefusal, ToCleanupRefusal,
       Translated, PhasedErrorKind
  <1>3. /\ Base!Cell!LockRefusal(c) = LockRefusal(c)
        /\ P!Cell!LockRefusal(c) = LockRefusal(c)
        /\ LockRefusal(c) \in Result /\ LockRefusal(c).kind \notin Translated
    BY SameErr DEF Base!Cell!LockRefusal, P!Cell!LockRefusal, LockRefusal, Translated,
       PhasedErrorKind
  <1>4. QED
    BY <1>1, <1>2, <1>3

\* What a method may find wrong with the data, tokio's mutex being never poisoned.
Missing(what, c) ==
    IF what = "None" THEN Err(c, "InternalDataUnavailable") ELSE NoResult

LEMMA Faults ==
  ASSUME Inv, NEW t \in Tasks
  PROVE  /\ Base!Cell!ToReadFault(t) = Missing(data_mutex, PHASE_SETUP_TO_READ)
         /\ P!Cell!ToReadFault(t) = Missing(data_mutex, PHASE_SETUP_TO_READ)
         /\ Base!Cell!ToCleanupFault(t)
              = Missing(IF old[t] = PHASE_READ THEN data_cell ELSE data_mutex, PHASE_CLEANUP)
         /\ P!Cell!ToCleanupFault(t)
              = Missing(IF oldBar[t] = PHASE_READ THEN data_cell ELSE data_mutex, PHASE_CLEANUP)
         /\ Base!LockFault(t) = Missing(data_mutex, old[t])
         /\ P!LockFault(t) = Missing(data_mutex, oldBar[t])
  <1>1. /\ Base!Cell!ToReadFault(t) = Missing(data_mutex, PHASE_SETUP_TO_READ)
        /\ P!Cell!ToReadFault(t) = Missing(data_mutex, PHASE_SETUP_TO_READ)
    BY SameErr, SameResults
    DEF Inv, TypeOK, Missing, Base!Cell!ToReadFault, P!Cell!ToReadFault
  <1>2. Base!Cell!ToCleanupFault(t)
          = Missing(IF old[t] = PHASE_READ THEN data_cell ELSE data_mutex, PHASE_CLEANUP)
    BY SameErr, SameResults DEF Inv, TypeOK, Missing, Base!Cell!ToCleanupFault
  <1>3. P!Cell!ToCleanupFault(t)
          = Missing(IF oldBar[t] = PHASE_READ THEN data_cell ELSE data_mutex, PHASE_CLEANUP)
    BY SameErr, SameResults DEF Inv, TypeOK, Missing, P!Cell!ToCleanupFault
  <1>4. Base!LockFault(t) = Missing(data_mutex, old[t])
    BY SameErr, SameResults DEF Missing, Base!LockFault
  <1>5. P!LockFault(t) = Missing(data_mutex, oldBar[t])
    BY SameErr, SameResults DEF Missing, P!LockFault
  <1>6. QED
    BY <1>1, <1>2, <1>3, <1>4, <1>5

LEMMA MissingType ==
  ASSUME NEW w, NEW c
  PROVE  /\ Missing(w, c) \in Result
         /\ Missing(w, c).kind # "GracefulWaitTimeout"
         /\ Missing(w, c) = NoResult <=> w # "None"
  <1>1. /\ Err(c, "InternalDataUnavailable") \in Result
        /\ Err(c, "InternalDataUnavailable").kind = "InternalDataUnavailable"
    BY SameErr DEF PhasedErrorKind
  <1>2. QED
    BY <1>1, SameResults DEF Missing

-----------------------------------------------------------------------------
(* The other tasks *)

\* A step of task t leaves every other task as it was, but for waking it.
Others(t) ==
    /\ \A u \in Tasks \ {t} :
          /\ call'[u] = call[u] /\ old'[u] = old[u] /\ res'[u] = res[u]
          /\ forced'[u] = forced[u]
          /\ \/ pc'[u] = pc[u]
             \/ pc[u] = "asleep" /\ pc'[u] = "woken"
          /\ holder' = u <=> holder = u
    /\ accidents \subseteq accidents'

\* What task t itself keeps.
SelfAt(t) == PlaceAt(t) /\ HoldsAt(t) /\ FreshAt(t)

\* What a call that begins changes, and the types of it.
GracefulMethod == Cell!Method \cup {"none", "finish_reading"}
TypeAtEntry ==
    /\ pc \in [Tasks -> GracefulPC] /\ call \in [Tasks -> GracefulMethod]
    /\ old \in [Tasks -> PhaseCode]

LEMMA EntryType ==
  ASSUME Inv, NEW t \in Tasks, NEW p \in GracefulPC, NEW m \in GracefulMethod,
         pc' = [pc EXCEPT ![t] = p], call' = [call EXCEPT ![t] = m],
         old' = [old EXCEPT ![t] = phase]
  PROVE  TypeAtEntry'
  <1>1. /\ pc \in [Tasks -> GracefulPC] /\ call \in [Tasks -> GracefulMethod]
        /\ old \in [Tasks -> PhaseCode] /\ phase \in PhaseCode
    BY DEF Inv, TypeOK, GracefulMethod
  <1>2. pc' \in [Tasks -> GracefulPC]
    BY <1>1
  <1>3. call' \in [Tasks -> GracefulMethod]
    BY <1>1
  <1>4. old' \in [Tasks -> PhaseCode]
    BY <1>1
  <1>5. QED
    BY <1>2, <1>3, <1>4 DEF TypeAtEntry

\* The others keep to the places of their methods.
LEMMA OthersPlace ==
  ASSUME Inv, NEW t \in Tasks, Others(t), SelfAt(t)' PROVE PlaceInv'
  <1> SUFFICES ASSUME NEW u \in Tasks \ {t} PROVE PlaceAt(u)' /\ HoldsAt(u)' /\ FreshAt(u)'
    BY DEF PlaceInv, SelfAt
  <1>1. PlaceAt(u)'
    <2>1. PlaceAt(u)
      BY DEF Inv, PlaceInv
    <2>2. CASE pc'[u] = pc[u]
      BY <2>1, <2>2 DEF PlaceAt, Waiting, Others
    <2>3. CASE pc[u] = "asleep" /\ pc'[u] = "woken"
      BY <2>1, <2>3 DEF PlaceAt, Waiting, Others
    <2>4. QED
      BY <2>2, <2>3 DEF Others
  <1>2. HoldsAt(u)'
    BY DEF Inv, PlaceInv, HoldsAt, Holding, Others
  <1>3. FreshAt(u)'
    BY DEF Inv, PlaceInv, FreshAt, GaveUp, Others
  <1>4. QED
    BY <1>1, <1>2, <1>3

\* The mapped variables are functions of the tasks, before and after a step.
LEMMA BarFunctions ==
  /\ pcBar   = [u \in Tasks |-> pcBar[u]]   /\ pcBar'   = [u \in Tasks |-> pcBar'[u]]
  /\ callBar = [u \in Tasks |-> callBar[u]] /\ callBar' = [u \in Tasks |-> callBar'[u]]
  /\ oldBar  = [u \in Tasks |-> oldBar[u]]  /\ oldBar'  = [u \in Tasks |-> oldBar'[u]]
  /\ resBar  = [u \in Tasks |-> resBar[u]]  /\ resBar'  = [u \in Tasks |-> resBar'[u]]
  <1>1. pcBar = [u \in Tasks |-> pcBar[u]] /\ pcBar' = [u \in Tasks |-> pcBar'[u]]
    BY DEF pcBar
  <1>2. callBar = [u \in Tasks |-> callBar[u]] /\ callBar' = [u \in Tasks |-> callBar'[u]]
    BY DEF callBar
  <1>3. oldBar = [u \in Tasks |-> oldBar[u]] /\ oldBar' = [u \in Tasks |-> oldBar'[u]]
    BY DEF oldBar
  <1>4. resBar = [u \in Tasks |-> resBar[u]] /\ resBar' = [u \in Tasks |-> resBar'[u]]
    BY DEF resBar
  <1>5. QED
    BY <1>1, <1>2, <1>3, <1>4

\* Seen through the mapping, only t has moved.
LEMMA OthersShow ==
  ASSUME Inv, NEW t \in Tasks, Others(t)
  PROVE  /\ pcBar'   = [pcBar   EXCEPT ![t] = pcBar'[t]]
         /\ callBar' = [callBar EXCEPT ![t] = callBar'[t]]
         /\ oldBar'  = [oldBar  EXCEPT ![t] = oldBar'[t]]
         /\ resBar'  = [resBar  EXCEPT ![t] = resBar'[t]]
         /\ callBar'[t] = callBar[t] => callBar' = callBar
         /\ oldBar'[t] = oldBar[t] => oldBar' = oldBar
         /\ resBar'[t] = resBar[t] => resBar' = resBar
  <1>1. \A u \in Tasks \ {t} : pcBar'[u] = pcBar[u]
    <2> SUFFICES ASSUME NEW u \in Tasks \ {t} PROVE pcBar'[u] = pcBar[u]
      OBVIOUS
    <2>1. pc'[u] = pc[u] \/ (pc[u] = "asleep" /\ pc'[u] = "woken" /\ PlaceAt(u))
      BY DEF Inv, PlaceInv, Others
    <2>2. SeenIdle(u)' <=> SeenIdle(u)
      BY <2>1 DEF SeenIdle, Waiting, GaveUp, Others
    <2>3. QED
      BY <2>1, <2>2 DEF PlaceAt, Waiting, SeenIdle, Others, pcBar
  <1>2. \A u \in Tasks \ {t} : callBar'[u] = callBar[u] /\ oldBar'[u] = oldBar[u]
    BY <1>1 DEF Others, callBar, oldBar
  <1>3. \A u \in Tasks \ {t} : resBar'[u] = resBar[u]
    BY DEF Others, GaveUp, resBar
  <1>4. pcBar' = [pcBar EXCEPT ![t] = pcBar'[t]]
    BY <1>1, BarFunctions
  <1>5. /\ callBar' = [callBar EXCEPT ![t] = callBar'[t]]
        /\ callBar'[t] = callBar[t] => callBar' = callBar
    BY <1>2, BarFunctions
  <1>6. /\ oldBar' = [oldBar EXCEPT ![t] = oldBar'[t]]
        /\ oldBar'[t] = oldBar[t] => oldBar' = oldBar
    BY <1>2, BarFunctions
  <1>7. /\ resBar' = [resBar EXCEPT ![t] = resBar'[t]]
        /\ resBar'[t] = resBar[t] => resBar' = resBar
    BY <1>3, BarFunctions
  <1>8. QED
    BY <1>4, <1>5, <1>6, <1>7

\* A step that leaves t, too, where it was seen is no step of PhasedCellAsync.
LEMMA NoStep ==
  ASSUME Inv, NEW t \in Tasks, Others(t),
         pcBar'[t] = pcBar[t], callBar'[t] = callBar[t], oldBar'[t] = oldBar[t],
         resBar'[t] = resBar[t], UNCHANGED <<phase, data, mutex, forced>>,
         accidents' \subseteq accidents \cup {"missed", "surplus"}
  PROVE  UNCHANGED P!vars
  <1>1. pcBar' = pcBar
    BY OthersShow, BarFunctions
  <1>2. (accidents \cap Base!Accident)' = accidents \cap Base!Accident
    BY DEF Others, Base!Accident
  <1>3. QED
    BY <1>1, <1>2, OthersShow DEF P!vars, P!cellVars, data, mutex

-----------------------------------------------------------------------------
(* Quiet steps *)

\* The places that the counter or a sleeper depends on.
Watched == {"wait", "asleep", "reading", "last", "notify", "unlock"}

\* A step of task t that opens, publishes, counts and notifies nothing.
Quiet(t) ==
    /\ UNCHANGED <<phase, graceful_counter>>
    /\ \A u \in Tasks \ {t} : pc'[u] = pc[u]
    /\ pc[t] \notin Watched /\ pc'[t] \notin {"wait", "asleep", "reading"}
    /\ InTransition(t)' => InTransition(t) /\ call'[t] = call[t] /\ old'[t] = old[t]

\* A quiet step preserves the invariant.
LEMMA QuietInv ==
  ASSUME Inv, TypeOK', NEW t \in Tasks, Others(t), SelfAt(t)', Quiet(t)
  PROVE  Inv'
  <1>1. PlaceInv'
    BY OthersPlace
  <1>2. OwnerInv'
    <2>1. ASSUME NEW u \in Tasks, InTransition(u)'
          PROVE  InTransition(u) /\ call'[u] = call[u] /\ old'[u] = old[u]
      BY <2>1 DEF InTransition, Waiting, Quiet, Others
    <2>2. phase' = phase
      BY DEF Quiet
    <2>3. QED
      BY <2>1, <2>2 DEF Inv, OwnerInv
  <1>3. CountInv'
    <2>1. Counted' = Counted
      BY DEF Counted, Quiet, Watched
    <2>2. QED
      BY <2>1 DEF Inv, CountInv, Quiet, Others
  <1>4. WakeInv'
    <2>1. \A u \in Tasks : TellsReaders(u) => TellsReaders(u)'
      BY DEF TellsReaders, NotifiesLocked, Quiet, Watched, Others
    <2>2. \A u \in Tasks : TellsCleanup(u) => TellsCleanup(u)'
      BY DEF TellsCleanup, Quiet, Watched, Others
    <2>3. QED
      BY <2>1, <2>2 DEF Inv, WakeInv, Quiet, Watched, Others
  <1>5. QED
    BY <1>1, <1>2, <1>3, <1>4 DEF Inv


-----------------------------------------------------------------------------
(* The other steps *)

\* Only the task that is in a transition publishes its outcome.
LEMMA OwnerKept ==
  ASSUME Inv, NEW t \in Tasks, Others(t),
         InTransition(t)' => InTransition(t) /\ call'[t] = call[t] /\ old'[t] = old[t],
         phase' # phase => InTransition(t) /\ ~InTransition(t)'
  PROVE  OwnerInv'
  <1>1. ASSUME NEW u \in Tasks, InTransition(u)'
        PROVE  InTransition(u) /\ call'[u] = call[u] /\ old'[u] = old[u]
    BY <1>1 DEF InTransition, Waiting, Others
  <1>2. ASSUME NEW u \in Tasks, InTransition(u)' PROVE phase' = phase
    BY <1>1, <1>2 DEF Inv, OwnerInv
  <1>3. QED
    BY <1>1, <1>2 DEF Inv, OwnerInv

\* A transition opens in a public phase, when no task is in one.
LEMMA OwnerOpens ==
  ASSUME Inv, NEW t \in Tasks, Others(t), phase \in {PHASE_SETUP, PHASE_READ, PHASE_CLEANUP},
         InTransition(t)' =>
            phase' = IF call'[t] = "transition_to_read" THEN PHASE_SETUP_TO_READ
                     ELSE Via(old'[t])
  PROVE  OwnerInv'
  <1>1. ASSUME NEW u \in Tasks PROVE ~InTransition(u)
    BY DEF Inv, OwnerInv, Via
  <1>2. ASSUME NEW u \in Tasks \ {t} PROVE ~InTransition(u)'
    BY <1>1 DEF InTransition, Waiting, Others
  <1>3. QED
    BY <1>2 DEF OwnerInv

\* What a step other than a notification owes the sleepers.
LEMMA WakeKept ==
  ASSUME Inv, NEW t \in Tasks, Others(t),
         TellsReaders(t) => TellsReaders(t)',
         TellsCleanup(t) => TellsCleanup(t)' \/ phase # PHASE_READ_TO_CLEANUP,
         phase = PHASE_SETUP_TO_READ /\ phase' # PHASE_SETUP_TO_READ
            => "contended" \in accidents' \/ TellsReaders(t)',
         graceful_counter # 0 /\ graceful_counter' = 0 => TellsCleanup(t)',
         pc'[t] \in {"wait", "asleep"} =>
            \/ pc[t] \in {"wait", "asleep"} /\ call'[t] = call[t]
            \/ call'[t] = "transition_to_cleanup" /\ graceful_counter' # 0
            \/ call'[t] = "read" /\ phase' = PHASE_SETUP_TO_READ
  PROVE  WakeInv'
  <1>1. ASSUME NEW u \in Tasks \ {t}
        PROVE  /\ TellsReaders(u) => TellsReaders(u)'
               /\ TellsCleanup(u) => TellsCleanup(u)'
               /\ pc'[u] \in {"wait", "asleep"} => pc[u] \in {"wait", "asleep"}
               /\ call'[u] = call[u]
    BY DEF TellsReaders, TellsCleanup, NotifiesLocked, Others
  <1> SUFFICES ASSUME "missed" \notin accidents', NEW u \in Tasks, pc'[u] \in {"wait", "asleep"}
               PROVE  /\ call'[u] = "transition_to_cleanup" /\ graceful_counter' = 0
                           => \E v \in Tasks : TellsCleanup(v)'
                      /\ call'[u] = "read" /\ phase' # PHASE_SETUP_TO_READ
                           => \/ "contended" \in accidents'
                              \/ \E v \in Tasks : TellsReaders(v)'
    BY DEF WakeInv
  <1>2. ASSUME pc[u] \in {"wait", "asleep"}, call'[u] = "transition_to_cleanup",
               call[u] = call'[u], graceful_counter' = 0
        PROVE  \E v \in Tasks : TellsCleanup(v)'
    <2>1. phase = PHASE_READ_TO_CLEANUP
      <3>1. PlaceAt(u)
        BY DEF Inv, PlaceInv
      <3>2. InTransition(u) /\ old[u] = PHASE_READ
        BY <1>2, <3>1 DEF PlaceAt, InTransition, Transition, Waiting
      <3>3. QED
        BY <1>2, <3>2 DEF Inv, OwnerInv, Via
    <2>2. CASE graceful_counter # 0
      BY <1>2, <2>2
    <2>3. CASE graceful_counter = 0
      <3>1. PICK v \in Tasks : TellsCleanup(v)
        BY <1>2, <2>3 DEF Inv, WakeInv, Others
      <3>2. QED
        BY <1>1, <2>1, <3>1
    <2>4. QED
      BY <2>2, <2>3
  <1>3. ASSUME pc[u] \in {"wait", "asleep"}, call'[u] = "read", call[u] = call'[u],
               phase' # PHASE_SETUP_TO_READ
        PROVE  "contended" \in accidents' \/ \E v \in Tasks : TellsReaders(v)'
    <2>1. CASE phase = PHASE_SETUP_TO_READ
      BY <1>3, <2>1
    <2>2. CASE phase # PHASE_SETUP_TO_READ
      <3>1. "contended" \in accidents \/ \E v \in Tasks : TellsReaders(v)
        BY <1>3, <2>2 DEF Inv, WakeInv, Others
      <3>2. QED
        BY <1>1, <3>1 DEF Others
    <2>3. QED
      BY <2>1, <2>2
  <1>4. QED
    BY <1>1, <1>2, <1>3

\* What the mapping leaves of a result.
LEMMA ResShows ==
  ASSUME NEW t \in Tasks
  PROVE  /\ res[t].kind \notin Translated => resBar[t] = res[t]
         /\ res'[t].kind \notin Translated => resBar'[t] = res'[t]
         /\ res[t].kind # "GracefulWaitTimeout" /\ call[t] # "read" => resBar[t] = res[t]
         /\ res'[t].kind # "GracefulWaitTimeout" /\ call'[t] # "read" => resBar'[t] = res'[t]
         /\ res'[t] = res[t] /\ call'[t] = call[t] /\ old'[t] = old[t]
              => resBar'[t] = resBar[t]
  BY DEF resBar, GaveUp, Translated
-----------------------------------------------------------------------------
(* The transitions, as in PhasedCellAsync *)

\* Opening a transition to Read.
LEMMA ToReadBeginStep ==
  ASSUME Inv, NEW t \in Tasks, NEW f \in BOOLEAN,
         Base!As(t, f), Base!Cell!ToReadBegin(t), UNCHANGED waits
  PROVE  Inv' /\ P!As(t, f) /\ P!Cell!ToReadBegin(t)
  <1>1. TypeOK'
    BY DEF Inv, TypeOK, GracefulPC, Base!AsyncPC, Base!Cell!PC, Cell!Method, PhaseCode,
       Base!Cell!ToReadBegin, Base!Cell!Enter, Base!Cell!data, Base!Cell!mutex, Base!As, waits
  <1>2. Others(t)
    BY DEF Inv, TypeOK, PlaceInv, HoldsAt, Holding, Others, Base!Cell!ToReadBegin,
       Base!Cell!Enter, Base!Cell!data, Base!Cell!mutex, Base!As, waits
  <1>3. SelfAt(t)'
    <2>1. PlaceAt(t)'
      BY DEF Inv, TypeOK, PlaceInv, PlaceAt, Transition, Waiting, Base!Cell!ToReadBegin,
         Base!Cell!Enter, Base!Cell!data, Base!Cell!mutex, Base!As, waits
    <2>2. HoldsAt(t)'
      BY DEF Inv, TypeOK, PlaceInv, PlaceAt, HoldsAt, Holding, Transition, Waiting,
         Base!Cell!ToReadBegin, Base!Cell!Enter, Base!Cell!data, Base!Cell!mutex, Base!As, waits
    <2>3. FreshAt(t)'
      BY SameResults
      DEF Inv, TypeOK, PlaceInv, PlaceAt, FreshAt, GaveUp, Transition, Base!Cell!ToReadBegin,
          Base!Cell!Enter, Base!Cell!data, Base!Cell!mutex, Base!As, waits
    <2>4. QED
      BY <2>1, <2>2, <2>3 DEF SelfAt
  <1>4. PlaceInv'
    BY <1>2, <1>3, OthersPlace
  <1>5. OwnerInv'
    <2>1. phase \in {PHASE_SETUP, PHASE_READ, PHASE_CLEANUP}
      BY DEF Base!Cell!ToReadBegin, Base!Cell!Enter, Base!Cell!data, Base!Cell!mutex, Base!As,
         waits
    <2>2. phase' = IF call'[t] = "transition_to_read" THEN PHASE_SETUP_TO_READ
                   ELSE Via(old'[t])
      BY DEF Inv, TypeOK, Via, Base!Cell!ToReadBegin, Base!Cell!Enter, Base!Cell!data,
         Base!Cell!mutex, Base!As, waits
    <2>3. QED
      BY <1>2, <2>1, <2>2, OwnerOpens
  <1>6. CountInv'
    <2>1. Counted' = Counted /\ graceful_counter' = graceful_counter
      BY DEF Inv, TypeOK, PlaceInv, PlaceAt, Counted, Base!Cell!ToReadBegin, Base!Cell!Enter,
         Base!Cell!data, Base!Cell!mutex, Base!As, waits
    <2>2. QED
      BY <1>2, <2>1 DEF Inv, CountInv, Others
  <1>7. WakeInv'
    <2>1. TellsReaders(t) => TellsReaders(t)'
      BY DEF Inv, TypeOK, PlaceInv, PlaceAt, TellsReaders, NotifiesLocked,
         Base!Cell!ToReadBegin, Base!Cell!Enter, Base!Cell!data, Base!Cell!mutex, Base!As, waits
    <2>2. TellsCleanup(t) => TellsCleanup(t)' \/ phase # PHASE_READ_TO_CLEANUP
      BY DEF Inv, TypeOK, PlaceInv, PlaceAt, TellsCleanup, Base!Cell!ToReadBegin,
         Base!Cell!Enter, Base!Cell!data, Base!Cell!mutex, Base!As, waits
    <2>3. phase = PHASE_SETUP_TO_READ /\ phase' # PHASE_SETUP_TO_READ
            => "contended" \in accidents' \/ TellsReaders(t)'
      BY DEF Inv, TypeOK, PlaceInv, PlaceAt, OwnerInv, InTransition, Transition, TellsReaders,
         NotifiesLocked, Waiting, Via, Base!Cell!ToReadBegin, Base!Cell!Enter, Base!Cell!data,
         Base!Cell!mutex, Base!As, waits
    <2>4. graceful_counter # 0 /\ graceful_counter' = 0 => TellsCleanup(t)'
      BY DEF Inv, TypeOK, PlaceInv, PlaceAt, TellsCleanup, Base!Cell!ToReadBegin,
         Base!Cell!Enter, Base!Cell!data, Base!Cell!mutex, Base!As, waits
    <2>5. pc'[t] \in {"wait", "asleep"} =>
            \/ pc[t] \in {"wait", "asleep"} /\ call'[t] = call[t]
            \/ call'[t] = "transition_to_cleanup" /\ graceful_counter' # 0
            \/ call'[t] = "read" /\ phase' = PHASE_SETUP_TO_READ
      BY DEF Inv, TypeOK, PlaceInv, PlaceAt, Base!Cell!ToReadBegin, Base!Cell!Enter,
         Base!Cell!data, Base!Cell!mutex, Base!As, waits
    <2>6. QED
      BY <1>2, <2>1, <2>2, <2>3, <2>4, <2>5, WakeKept
  <1>8. Inv'
    BY <1>1, <1>4, <1>5, <1>6, <1>7 DEF Inv
  <1>9. /\ pcBar[t] = "idle" /\ pcBar'[t] = "lock" /\ callBar'[t] = "transition_to_read"
        /\ oldBar'[t] = phase
    BY SameResults
    DEF Inv, TypeOK, PlaceInv, PlaceAt, HoldsAt, FreshAt, Holding, Transition,
        Base!Cell!ToReadBegin, Base!Cell!Enter, Base!Cell!data, Base!Cell!mutex, Base!As, waits,
        SeenIdle, Waiting, GaveUp, pcBar, callBar, oldBar, resBar
  <1>10. /\ resBar'[t] = resBar[t]
    BY ResShows, SameResults
    DEF Inv, TypeOK, PlaceInv, PlaceAt, FreshAt, GaveUp, Translated, Base!Cell!ToReadBegin,
        Base!Cell!Enter, Base!Cell!data, Base!Cell!mutex, Base!As, waits
  <1>11. QED
    BY <1>2, <1>8, <1>9, <1>10, OthersShow, SameResults
    DEF Base!Cell!ToReadBegin, Base!Cell!Enter, Base!Cell!data, Base!Cell!mutex, Base!As, waits,
        P!Cell!ToReadBegin, P!Cell!Enter, P!Cell!data, P!Cell!mutex, P!As

\* Quiet: a refusal.
LEMMA ToReadRefusedStep ==
  ASSUME Inv, NEW t \in Tasks, NEW f \in BOOLEAN,
         Base!As(t, f), Base!Cell!ToReadRefused(t), UNCHANGED waits
  PROVE  Inv' /\ P!As(t, f) /\ P!Cell!ToReadRefused(t)
  <1>1. /\ phase # PHASE_SETUP /\ pc[t] = "idle" /\ pc' = [pc EXCEPT ![t] = "ret"]
        /\ call' = [call EXCEPT ![t] = "transition_to_read"] /\ old' = [old EXCEPT ![t] = phase]
        /\ res' = [res EXCEPT ![t] = ToReadRefusal(phase)] /\ forced' = [forced EXCEPT ![t] = f]
        /\ UNCHANGED <<phase, data_mutex, data_cell, holder, poisoned, accidents>>
        /\ UNCHANGED <<graceful_counter, result_w>>
    BY SameRefusals
    DEF Base!Cell!ToReadRefused, Base!Cell!Refuse, Base!Cell!Enter, Base!Cell!data,
        Base!Cell!mutex, Base!As, waits
  <1>2. /\ res'[t] \in Result /\ res'[t].kind \notin Translated
        /\ res' = [res EXCEPT ![t] = res'[t]]
    BY <1>1, SameRefusals DEF Inv, TypeOK, Translated
  <1>3. TypeOK'
    <2>1. res' \in [Tasks -> Result] /\ forced' \in [Tasks -> BOOLEAN]
      BY <1>1, <1>2 DEF Inv, TypeOK
    <2>2. "ret" \in GracefulPC /\ "transition_to_read" \in GracefulMethod
      BY DEF GracefulPC, Base!AsyncPC, Base!Cell!PC, Cell!Method, GracefulMethod
    <2>3. TypeAtEntry'
      BY <1>1, <2>2, EntryType
    <2>4. QED
      BY <1>1, <2>1, <2>3 DEF Inv, TypeOK, TypeAtEntry, GracefulMethod
  <1>4. Others(t)
    BY <1>1
    DEF Inv, TypeOK, PlaceInv, HoldsAt, Holding, Others
  <1>5. SelfAt(t)'
    <2>1. PlaceAt(t)'
      BY <1>1
      DEF Inv, TypeOK, PlaceInv, PlaceAt, Transition, Waiting
    <2>2. HoldsAt(t)'
      BY <1>1
      DEF Inv, TypeOK, PlaceInv, PlaceAt, HoldsAt, Holding, Transition, Waiting
    <2>3. FreshAt(t)'
      BY <1>1, <1>2, SameResults
      DEF Inv, TypeOK, PlaceInv, PlaceAt, FreshAt, GaveUp, Transition, Translated
    <2>4. QED
      BY <2>1, <2>2, <2>3 DEF SelfAt
  <1>6. Quiet(t)
    BY <1>1
    DEF Inv, TypeOK, PlaceInv, PlaceAt, Quiet, Watched, InTransition, Transition, Waiting
  <1>7. Inv'
    BY <1>3, <1>4, <1>5, <1>6, QuietInv
  <1>8. /\ pcBar[t] = "idle" /\ pcBar'[t] = "ret" /\ callBar'[t] = "transition_to_read"
        /\ oldBar'[t] = phase
    BY <1>1, <1>2, SameResults, SameRefusals
    DEF Inv, TypeOK, PlaceInv, PlaceAt, HoldsAt, FreshAt, Holding, Transition, Translated,
        SeenIdle, Waiting, GaveUp, pcBar, callBar, oldBar, resBar
  <1>9. /\ resBar'[t] = ToReadRefusal(phase)
    BY <1>1, <1>2, ResShows, SameResults, SameRefusals
    DEF Inv, TypeOK, PlaceInv, PlaceAt, FreshAt, GaveUp, Translated
  <1>10. P!Cell!ToReadRefused(t)
    BY <1>1, <1>4, <1>8, <1>9, OthersShow, SameRefusals
    DEF P!Cell!ToReadRefused, P!Cell!Refuse, P!Cell!Enter, P!Cell!data, P!Cell!mutex
  <1>11. P!As(t, f)
    BY <1>1, <1>8 DEF P!As
  <1>12. QED
    BY <1>7, <1>10, <1>11

\* Quiet: a transition to Read locks data_mutex.
LEMMA ToReadLockStep ==
  ASSUME Inv, NEW t \in Tasks, NEW f \in BOOLEAN,
         Base!As(t, f), Base!Cell!ToReadLock(t), UNCHANGED waits
  PROVE  Inv' /\ P!As(t, f) /\ P!Cell!ToReadLock(t)
  <1>1. /\ call[t] = "transition_to_read" /\ pc[t] = "lock" /\ forced[t] = f
        /\ res' = [res EXCEPT ![t] = Missing(data_mutex, PHASE_SETUP_TO_READ)]
        /\ pc' = [pc EXCEPT ![t] = IF res'[t] = NoResult THEN "run" ELSE "commit"]
        /\ holder = Nobody /\ holder' = t
        /\ UNCHANGED <<phase, data_mutex, data_cell, poisoned, call, old, forced, accidents>>
        /\ UNCHANGED <<graceful_counter, result_w>>
    <2>1. /\ call[t] = "transition_to_read" /\ pc[t] = "lock" /\ forced[t] = f
          /\ res' = [res EXCEPT ![t] = Missing(data_mutex, PHASE_SETUP_TO_READ)]
      BY Faults DEF Base!Cell!ToReadLock, Base!Cell!Step, Base!As
    <2>2. pc' = [pc EXCEPT ![t] = IF res'[t] = NoResult THEN "run" ELSE "commit"]
      BY Faults, SameResults, <2>1 DEF Inv, TypeOK, Base!Cell!ToReadLock, Base!Cell!Step
    <2>3. /\ holder = Nobody /\ holder' = t
          /\ UNCHANGED <<phase, data_mutex, data_cell, poisoned, call, old, forced, accidents>>
          /\ UNCHANGED <<graceful_counter, result_w>>
      BY <2>1
      DEF Inv, TypeOK, Base!Cell!ToReadLock, Base!Cell!Step, Base!Cell!data, Base!Cell!mutex,
          Base!As, waits
    <2>4. QED
      BY <2>1, <2>2, <2>3
  <1>2. /\ res'[t] \in Result /\ res'[t].kind # "GracefulWaitTimeout"
        /\ res' = [res EXCEPT ![t] = res'[t]]
    BY <1>1, Faults, MissingType DEF Inv, TypeOK
  <1>3. TypeOK'
    BY <1>1, <1>2, GracefulAsyncAssumption
    DEF GracefulAsyncAssumption, Inv, TypeOK, GracefulPC, Base!AsyncPC, Base!Cell!PC,
        Cell!Method, PhaseCode
  <1>4. Others(t)
    BY <1>1, GracefulAsyncAssumption
    DEF GracefulAsyncAssumption, Inv, TypeOK, PlaceInv, HoldsAt, Holding, Others
  <1>5. SelfAt(t)'
    <2>1. PlaceAt(t)'
      BY <1>1 DEF Inv, TypeOK, PlaceInv, PlaceAt, Transition, Waiting
    <2>2. HoldsAt(t)'
      BY <1>1, GracefulAsyncAssumption
      DEF GracefulAsyncAssumption, Inv, TypeOK, PlaceInv, PlaceAt, HoldsAt, Holding, Transition,
          Waiting
    <2>3. FreshAt(t)'
      BY <1>1, <1>2, SameResults
      DEF Inv, TypeOK, PlaceInv, PlaceAt, FreshAt, GaveUp, Transition
    <2>4. QED
      BY <2>1, <2>2, <2>3 DEF SelfAt
  <1>6. Quiet(t)
    BY <1>1
    DEF Inv, TypeOK, PlaceInv, PlaceAt, Quiet, Watched, InTransition, Transition, Waiting
  <1>7. Inv'
    BY <1>3, <1>4, <1>5, <1>6, QuietInv
  <1>8. /\ res'[t] = Missing(data_mutex, PHASE_SETUP_TO_READ)
        /\ pc'[t] = IF res'[t] = NoResult THEN "run" ELSE "commit"
        /\ pc[t] = "lock" /\ call[t] = "transition_to_read"
        /\ call'[t] = call[t] /\ old'[t] = old[t]
    BY <1>1 DEF Inv, TypeOK
  <1>9. /\ pcBar[t] = "lock" /\ pcBar'[t] = pc'[t]
        /\ callBar[t] = "transition_to_read" /\ callBar'[t] = callBar[t]
        /\ oldBar[t] = old[t] /\ oldBar'[t] = oldBar[t]
    BY <1>8 DEF SeenIdle, Waiting, pcBar, callBar, oldBar
  <1>10. resBar'[t] = res'[t]
    BY <1>2, <1>8, ResShows
  <1>11. P!Cell!Step(t, "transition_to_read", "lock",
                    IF res'[t] = NoResult THEN "run" ELSE "commit")
    BY <1>4, <1>7, <1>8, <1>9, OthersShow DEF P!Cell!Step
  <1>12. P!Cell!ToReadFault(t) = res'[t] /\ P!Cell!NoResult = NoResult
    BY <1>8, <1>9, Faults, SameResults
  <1>13. P!Cell!ToReadLock(t)
    BY <1>1, <1>4, <1>10, <1>11, <1>12, OthersShow
    DEF P!Cell!ToReadLock, P!Cell!data
  <1>14. P!As(t, f)
    BY <1>1 DEF Inv, TypeOK, P!As
  <1>15. QED
    BY <1>7, <1>13, <1>14

\* Quiet: the closure.
LEMMA ToReadRunStep ==
  ASSUME Inv, NEW t \in Tasks, NEW f \in BOOLEAN,
         Base!As(t, f), Base!Cell!ToReadRun(t), UNCHANGED waits
  PROVE  Inv' /\ P!As(t, f) /\ P!Cell!ToReadRun(t)
  <1>1. /\ call[t] = "transition_to_read" /\ pc[t] = "run" /\ forced[t] = f
        /\ res' = [res EXCEPT ![t] = res'[t]]
        /\ res'[t] \in {Ok, Panic, Err(PHASE_SETUP, "FailToRunClosureDuringTransitionToRead")}
        /\ pc' = [pc EXCEPT ![t] = IF res'[t] = Ok THEN "swap" ELSE "commit"]
        /\ UNCHANGED <<phase, data_mutex, data_cell, holder, poisoned, call, old, forced>>
        /\ UNCHANGED <<accidents, graceful_counter, result_w>>
    <2>1. PICK r :
             /\ Base!Cell!Step(t, "transition_to_read", "run",
                               IF r = Base!Cell!Ok THEN "swap" ELSE "commit")
             /\ res' = [res EXCEPT ![t] = r]
             /\ r = Base!Cell!Ok \/ r = Base!Cell!Panic
                 \/ r = Base!Cell!Err(PHASE_SETUP, "FailToRunClosureDuringTransitionToRead")
      BY DEF Base!Cell!ToReadRun
    <2>2. /\ res'[t] = r
          /\ r \in {Ok, Panic, Err(PHASE_SETUP, "FailToRunClosureDuringTransitionToRead")}
      BY <2>1, SameResults, SameErr DEF Inv, TypeOK
    <2>3. /\ call[t] = "transition_to_read" /\ pc[t] = "run" /\ call' = call /\ old' = old
          /\ pc' = [pc EXCEPT ![t] = IF res'[t] = Ok THEN "swap" ELSE "commit"]
      BY <2>1, <2>2, SameResults DEF Base!Cell!Step
    <2>4. forced[t] = f /\ forced' = forced
      BY <2>3 DEF Inv, TypeOK, Base!As
    <2>5. UNCHANGED <<phase, data_mutex, data_cell, holder, poisoned, accidents>>
      BY DEF Base!Cell!ToReadRun, Base!Cell!data, Base!Cell!mutex, Base!As
    <2>6. QED
      BY <2>1, <2>2, <2>3, <2>4, <2>5 DEF waits
  <1>2. /\ res'[t] \in Result /\ res'[t].kind \notin Translated
        /\ res' = [res EXCEPT ![t] = res'[t]]
        /\ res'[t] \in {Ok, Panic, Err(PHASE_SETUP, "FailToRunClosureDuringTransitionToRead")}
    BY <1>1, SameErr, SameResults DEF Inv, TypeOK, Translated, PhasedErrorKind
  <1>3. TypeOK'
    BY <1>1, <1>2
    DEF Inv, TypeOK, GracefulPC, Base!AsyncPC, Base!Cell!PC, Cell!Method, PhaseCode
  <1>4. Others(t)
    BY <1>1 DEF Inv, TypeOK, PlaceInv, HoldsAt, Holding, Others
  <1>5. SelfAt(t)'
    <2>1. PlaceAt(t)'
      BY <1>1 DEF Inv, TypeOK, PlaceInv, PlaceAt, Transition, Waiting
    <2>2. HoldsAt(t)'
      BY <1>1 DEF Inv, TypeOK, PlaceInv, PlaceAt, HoldsAt, Holding, Transition, Waiting
    <2>3. FreshAt(t)'
      BY <1>1, <1>2, SameResults
      DEF Inv, TypeOK, PlaceInv, PlaceAt, FreshAt, GaveUp, Transition, Translated
    <2>4. QED
      BY <2>1, <2>2, <2>3 DEF SelfAt
  <1>6. Quiet(t)
    BY <1>1
    DEF Inv, TypeOK, PlaceInv, PlaceAt, Quiet, Watched, InTransition, Transition, Waiting
  <1>7. Inv'
    BY <1>3, <1>4, <1>5, <1>6, QuietInv
  <1>8. /\ pc[t] = "run" /\ pc'[t] = IF res'[t] = Ok THEN "swap" ELSE "commit"
        /\ call[t] = "transition_to_read" /\ call'[t] = call[t] /\ old'[t] = old[t]
    BY <1>1 DEF Inv, TypeOK
  <1>9. /\ pcBar[t] = "run" /\ pcBar'[t] = pc'[t]
        /\ callBar[t] = "transition_to_read" /\ callBar'[t] = callBar[t]
        /\ oldBar[t] = old[t] /\ oldBar'[t] = oldBar[t]
    BY <1>8 DEF SeenIdle, Waiting, pcBar, callBar, oldBar
  <1>10. resBar'[t] = res'[t]
    BY <1>2, <1>8, ResShows DEF Translated
  <1>11. P!Cell!Step(t, "transition_to_read", "run",
                    IF res'[t] = Ok THEN "swap" ELSE "commit")
    BY <1>4, <1>7, <1>8, <1>9, OthersShow DEF P!Cell!Step
  <1>12. P!Cell!ToReadRun(t)
    <2>1. res'[t] \in {P!Cell!Ok, P!Cell!Panic,
                       P!Cell!Err(PHASE_SETUP, "FailToRunClosureDuringTransitionToRead")}
      BY <1>2, SameErr, SameResults
    <2>2. /\ resBar' = [resBar EXCEPT ![t] = res'[t]]
          /\ UNCHANGED <<phase, data_mutex, data_cell, holder, poisoned>>
      BY <1>1, <1>4, <1>10, OthersShow
    <2>3. QED
      BY <1>8, <1>9, <1>11, <2>1, <2>2, SameResults
      DEF P!Cell!ToReadRun, P!Cell!data, P!Cell!mutex
  <1>13. P!As(t, f)
    BY <1>1 DEF Inv, TypeOK, P!As
  <1>14. QED
    BY <1>7, <1>12, <1>13

\* Quiet: the data moves.
LEMMA ToReadSwapStep ==
  ASSUME Inv, NEW t \in Tasks, NEW f \in BOOLEAN,
         Base!As(t, f), Base!Cell!ToReadSwap(t), UNCHANGED waits
  PROVE  Inv' /\ P!As(t, f) /\ P!Cell!ToReadSwap(t)
  <1>1. TypeOK'
    BY DEF Inv, TypeOK, GracefulPC, Base!AsyncPC, Base!Cell!PC, Cell!Method, PhaseCode,
       Base!Cell!ToReadSwap, Base!Cell!Step, Base!Cell!data, Base!Cell!mutex, Base!As, waits
  <1>2. Others(t)
    BY DEF Inv, TypeOK, PlaceInv, HoldsAt, Holding, Others, Base!Cell!ToReadSwap,
       Base!Cell!Step, Base!Cell!data, Base!Cell!mutex, Base!As, waits
  <1>3. SelfAt(t)'
    <2>1. PlaceAt(t)'
      BY DEF Inv, TypeOK, PlaceInv, PlaceAt, Transition, Waiting, Base!Cell!ToReadSwap,
         Base!Cell!Step, Base!Cell!data, Base!Cell!mutex, Base!As, waits
    <2>2. HoldsAt(t)'
      BY DEF Inv, TypeOK, PlaceInv, PlaceAt, HoldsAt, Holding, Transition, Waiting,
         Base!Cell!ToReadSwap, Base!Cell!Step, Base!Cell!data, Base!Cell!mutex, Base!As, waits
    <2>3. FreshAt(t)'
      BY SameResults
      DEF Inv, TypeOK, PlaceInv, PlaceAt, FreshAt, GaveUp, Transition, Base!Cell!ToReadSwap,
          Base!Cell!Step, Base!Cell!data, Base!Cell!mutex, Base!As, waits
    <2>4. QED
      BY <2>1, <2>2, <2>3 DEF SelfAt
  <1>4. Quiet(t)
    BY DEF Inv, TypeOK, PlaceInv, PlaceAt, Quiet, Watched, InTransition, Transition, Waiting,
       Base!Cell!ToReadSwap, Base!Cell!Step, Base!Cell!data, Base!Cell!mutex, Base!As, waits
  <1>5. Inv'
    BY <1>1, <1>2, <1>3, <1>4, QuietInv
  <1>6. /\ pcBar[t] = "idle" \/ forced[t] = f
        /\ pcBar[t] = "swap" /\ pcBar'[t] = "commit"
        /\ callBar[t] = "transition_to_read" /\ callBar'[t] = callBar[t]
        /\ oldBar'[t] = oldBar[t]
    BY SameResults
    DEF Inv, TypeOK, PlaceInv, PlaceAt, HoldsAt, FreshAt, Holding, Transition,
        Base!Cell!ToReadSwap, Base!Cell!Step, Base!Cell!data, Base!Cell!mutex, Base!As, waits,
        SeenIdle, Waiting, GaveUp, pcBar, callBar, oldBar, resBar
  <1>7. /\ resBar'[t] = resBar[t]
    BY ResShows, SameResults
    DEF Inv, TypeOK, PlaceInv, PlaceAt, FreshAt, GaveUp, Translated, Base!Cell!ToReadSwap,
        Base!Cell!Step, Base!Cell!data, Base!Cell!mutex, Base!As, waits
  <1>8. QED
    BY <1>2, <1>5, <1>6, <1>7, OthersShow, SameResults
    DEF Base!Cell!ToReadSwap, Base!Cell!Step, Base!Cell!data, Base!Cell!mutex, Base!As, waits,
        P!Cell!ToReadSwap, P!Cell!Step, P!Cell!data, P!Cell!mutex, P!As

\* Opening a transition to Cleanup that does not wait.
LEMMA ToCleanupBeginStep ==
  ASSUME Inv, NEW t \in Tasks, NEW f \in BOOLEAN,
         Base!As(t, f), Base!Cell!ToCleanupBegin(t), UNCHANGED waits
  PROVE  Inv' /\ P!As(t, f) /\ P!Cell!ToCleanupBegin(t)
  <1>1. TypeOK'
    BY DEF Inv, TypeOK, GracefulPC, Base!AsyncPC, Base!Cell!PC, Cell!Method, PhaseCode,
       Base!Cell!ToCleanupBegin, Base!Cell!Enter, Base!Cell!Via, Via, Base!Cell!data,
       Base!Cell!mutex, Base!As, waits
  <1>2. Others(t)
    BY DEF Inv, TypeOK, PlaceInv, HoldsAt, Holding, Others, Base!Cell!ToCleanupBegin,
       Base!Cell!Enter, Base!Cell!Via, Via, Base!Cell!data, Base!Cell!mutex, Base!As, waits
  <1>3. SelfAt(t)'
    <2>1. PlaceAt(t)'
      BY DEF Inv, TypeOK, PlaceInv, PlaceAt, Transition, Waiting, Base!Cell!ToCleanupBegin,
         Base!Cell!Enter, Base!Cell!Via, Via, Base!Cell!data, Base!Cell!mutex, Base!As, waits
    <2>2. HoldsAt(t)'
      BY DEF Inv, TypeOK, PlaceInv, PlaceAt, HoldsAt, Holding, Transition, Waiting,
         Base!Cell!ToCleanupBegin, Base!Cell!Enter, Base!Cell!Via, Via, Base!Cell!data,
         Base!Cell!mutex, Base!As, waits
    <2>3. FreshAt(t)'
      BY SameResults
      DEF Inv, TypeOK, PlaceInv, PlaceAt, FreshAt, GaveUp, Transition, Base!Cell!ToCleanupBegin,
          Base!Cell!Enter, Base!Cell!Via, Via, Base!Cell!data, Base!Cell!mutex, Base!As, waits
    <2>4. QED
      BY <2>1, <2>2, <2>3 DEF SelfAt
  <1>4. PlaceInv'
    BY <1>2, <1>3, OthersPlace
  <1>5. OwnerInv'
    <2>1. phase \in {PHASE_SETUP, PHASE_READ, PHASE_CLEANUP}
      BY DEF Base!Cell!ToCleanupBegin, Base!Cell!Enter, Base!Cell!Via, Via, Base!Cell!data,
         Base!Cell!mutex, Base!As, waits
    <2>2. phase' = IF call'[t] = "transition_to_read" THEN PHASE_SETUP_TO_READ
                   ELSE Via(old'[t])
      BY DEF Inv, TypeOK, Via, Base!Cell!ToCleanupBegin, Base!Cell!Enter, Base!Cell!Via,
         Base!Cell!data, Base!Cell!mutex, Base!As, waits
    <2>3. QED
      BY <1>2, <2>1, <2>2, OwnerOpens
  <1>6. CountInv'
    <2>1. Counted' = Counted /\ graceful_counter' = graceful_counter
      BY DEF Inv, TypeOK, PlaceInv, PlaceAt, Counted, Base!Cell!ToCleanupBegin, Base!Cell!Enter,
         Base!Cell!Via, Via, Base!Cell!data, Base!Cell!mutex, Base!As, waits
    <2>2. QED
      BY <1>2, <2>1 DEF Inv, CountInv, Others
  <1>7. WakeInv'
    <2>1. TellsReaders(t) => TellsReaders(t)'
      BY DEF Inv, TypeOK, PlaceInv, PlaceAt, TellsReaders, NotifiesLocked,
         Base!Cell!ToCleanupBegin, Base!Cell!Enter, Base!Cell!Via, Via, Base!Cell!data,
         Base!Cell!mutex, Base!As, waits
    <2>2. TellsCleanup(t) => TellsCleanup(t)' \/ phase # PHASE_READ_TO_CLEANUP
      BY DEF Inv, TypeOK, PlaceInv, PlaceAt, TellsCleanup, Base!Cell!ToCleanupBegin,
         Base!Cell!Enter, Base!Cell!Via, Via, Base!Cell!data, Base!Cell!mutex, Base!As, waits
    <2>3. phase = PHASE_SETUP_TO_READ /\ phase' # PHASE_SETUP_TO_READ
            => "contended" \in accidents' \/ TellsReaders(t)'
      BY DEF Inv, TypeOK, PlaceInv, PlaceAt, OwnerInv, InTransition, Transition, TellsReaders,
         NotifiesLocked, Waiting, Via, Base!Cell!ToCleanupBegin, Base!Cell!Enter, Base!Cell!Via,
         Base!Cell!data, Base!Cell!mutex, Base!As, waits
    <2>4. graceful_counter # 0 /\ graceful_counter' = 0 => TellsCleanup(t)'
      BY DEF Inv, TypeOK, PlaceInv, PlaceAt, TellsCleanup, Base!Cell!ToCleanupBegin,
         Base!Cell!Enter, Base!Cell!Via, Via, Base!Cell!data, Base!Cell!mutex, Base!As, waits
    <2>5. pc'[t] \in {"wait", "asleep"} =>
            \/ pc[t] \in {"wait", "asleep"} /\ call'[t] = call[t]
            \/ call'[t] = "transition_to_cleanup" /\ graceful_counter' # 0
            \/ call'[t] = "read" /\ phase' = PHASE_SETUP_TO_READ
      BY DEF Inv, TypeOK, PlaceInv, PlaceAt, Base!Cell!ToCleanupBegin, Base!Cell!Enter,
         Base!Cell!Via, Via, Base!Cell!data, Base!Cell!mutex, Base!As, waits
    <2>6. QED
      BY <1>2, <2>1, <2>2, <2>3, <2>4, <2>5, WakeKept
  <1>8. Inv'
    BY <1>1, <1>4, <1>5, <1>6, <1>7 DEF Inv
  <1>9. /\ pcBar[t] = "idle" /\ pcBar'[t] = "lock" /\ callBar'[t] = "transition_to_cleanup"
        /\ oldBar'[t] = phase
    BY SameResults
    DEF Inv, TypeOK, PlaceInv, PlaceAt, HoldsAt, FreshAt, Holding, Transition,
        Base!Cell!ToCleanupBegin, Base!Cell!Enter, Base!Cell!Via, Via, Base!Cell!data,
        Base!Cell!mutex, Base!As, waits, SeenIdle, Waiting, GaveUp, pcBar, callBar, oldBar,
        resBar
  <1>10. /\ resBar'[t] = resBar[t]
    BY ResShows, SameResults
    DEF Inv, TypeOK, PlaceInv, PlaceAt, FreshAt, GaveUp, Translated, Base!Cell!ToCleanupBegin,
        Base!Cell!Enter, Base!Cell!Via, Via, Base!Cell!data, Base!Cell!mutex, Base!As, waits
  <1>11. QED
    BY <1>2, <1>8, <1>9, <1>10, OthersShow, SameResults
    DEF Base!Cell!ToCleanupBegin, Base!Cell!Enter, Base!Cell!Via, Via, Base!Cell!data,
        Base!Cell!mutex, Base!As, waits, P!Cell!ToCleanupBegin, P!Cell!Enter, P!Cell!Via,
        P!Cell!data, P!Cell!mutex, P!As

\* Quiet: a refusal.
LEMMA ToCleanupRefusedStep ==
  ASSUME Inv, NEW t \in Tasks, NEW f \in BOOLEAN,
         Base!As(t, f), Base!Cell!ToCleanupRefused(t), UNCHANGED waits
  PROVE  Inv' /\ P!As(t, f) /\ P!Cell!ToCleanupRefused(t)
  <1>1. /\ phase \notin {PHASE_SETUP, PHASE_READ} /\ pc[t] = "idle"
        /\ pc' = [pc EXCEPT ![t] = "ret"]
        /\ call' = [call EXCEPT ![t] = "transition_to_cleanup"] /\ old' = [old EXCEPT ![t] = phase]
        /\ res' = [res EXCEPT ![t] = ToCleanupRefusal(phase)] /\ forced' = [forced EXCEPT ![t] = f]
        /\ UNCHANGED <<phase, data_mutex, data_cell, holder, poisoned, accidents>>
        /\ UNCHANGED <<graceful_counter, result_w>>
    BY SameRefusals
    DEF Base!Cell!ToCleanupRefused, Base!Cell!Refuse, Base!Cell!Enter, Base!Cell!data,
        Base!Cell!mutex, Base!As, waits
  <1>2. /\ res'[t] \in Result /\ res'[t].kind \notin Translated
        /\ res' = [res EXCEPT ![t] = res'[t]]
    BY <1>1, SameRefusals DEF Inv, TypeOK, Translated
  <1>3. TypeOK'
    <2>1. res' \in [Tasks -> Result] /\ forced' \in [Tasks -> BOOLEAN]
      BY <1>1, <1>2 DEF Inv, TypeOK
    <2>2. "ret" \in GracefulPC /\ "transition_to_cleanup" \in GracefulMethod
      BY DEF GracefulPC, Base!AsyncPC, Base!Cell!PC, Cell!Method, GracefulMethod
    <2>3. TypeAtEntry'
      BY <1>1, <2>2, EntryType
    <2>4. QED
      BY <1>1, <2>1, <2>3 DEF Inv, TypeOK, TypeAtEntry, GracefulMethod
  <1>4. Others(t)
    BY <1>1
    DEF Inv, TypeOK, PlaceInv, HoldsAt, Holding, Others
  <1>5. SelfAt(t)'
    <2>1. PlaceAt(t)'
      BY <1>1
      DEF Inv, TypeOK, PlaceInv, PlaceAt, Transition, Waiting
    <2>2. HoldsAt(t)'
      BY <1>1
      DEF Inv, TypeOK, PlaceInv, PlaceAt, HoldsAt, Holding, Transition, Waiting
    <2>3. FreshAt(t)'
      BY <1>1, <1>2, SameResults
      DEF Inv, TypeOK, PlaceInv, PlaceAt, FreshAt, GaveUp, Transition, Translated
    <2>4. QED
      BY <2>1, <2>2, <2>3 DEF SelfAt
  <1>6. Quiet(t)
    BY <1>1
    DEF Inv, TypeOK, PlaceInv, PlaceAt, Quiet, Watched, InTransition, Transition, Waiting
  <1>7. Inv'
    BY <1>3, <1>4, <1>5, <1>6, QuietInv
  <1>8. /\ pcBar[t] = "idle" /\ pcBar'[t] = "ret" /\ callBar'[t] = "transition_to_cleanup"
        /\ oldBar'[t] = phase
    BY <1>1, <1>2, SameResults, SameRefusals
    DEF Inv, TypeOK, PlaceInv, PlaceAt, HoldsAt, FreshAt, Holding, Transition, Translated,
        SeenIdle, Waiting, GaveUp, pcBar, callBar, oldBar, resBar
  <1>9. /\ resBar'[t] = ToCleanupRefusal(phase)
    BY <1>1, <1>2, ResShows, SameResults, SameRefusals
    DEF Inv, TypeOK, PlaceInv, PlaceAt, FreshAt, GaveUp, Translated
  <1>10. P!Cell!ToCleanupRefused(t)
    BY <1>1, <1>4, <1>8, <1>9, OthersShow, SameRefusals
    DEF P!Cell!ToCleanupRefused, P!Cell!Refuse, P!Cell!Enter, P!Cell!data, P!Cell!mutex
  <1>11. P!As(t, f)
    BY <1>1, <1>8 DEF P!As
  <1>12. QED
    BY <1>7, <1>10, <1>11

\* Quiet: a cleanup locks data_mutex.
LEMMA ToCleanupLockStep ==
  ASSUME Inv, NEW t \in Tasks, NEW f \in BOOLEAN,
         Base!As(t, f), Base!Cell!ToCleanupLock(t), UNCHANGED waits
  PROVE  Inv' /\ P!As(t, f) /\ P!Cell!ToCleanupLock(t)
  <1>1. /\ call[t] = "transition_to_cleanup" /\ pc[t] = "lock" /\ forced[t] = f
        /\ res' = [res EXCEPT ![t] =
             Missing(IF old[t] = PHASE_READ THEN data_cell ELSE data_mutex, PHASE_CLEANUP)]
        /\ pc' = [pc EXCEPT ![t] = IF res'[t] = NoResult THEN "run" ELSE "commit"]
        /\ holder = Nobody /\ holder' = t
        /\ UNCHANGED <<phase, data_mutex, data_cell, poisoned, call, old, forced, accidents>>
        /\ UNCHANGED <<graceful_counter, result_w>>
    <2>1. /\ call[t] = "transition_to_cleanup" /\ pc[t] = "lock" /\ forced[t] = f
          /\ res' = [res EXCEPT ![t] =
               Missing(IF old[t] = PHASE_READ THEN data_cell ELSE data_mutex, PHASE_CLEANUP)]
      BY Faults DEF Base!Cell!ToCleanupLock, Base!Cell!Step, Base!As
    <2>2. pc' = [pc EXCEPT ![t] = IF res'[t] = NoResult THEN "run" ELSE "commit"]
      BY Faults, SameResults, <2>1 DEF Inv, TypeOK, Base!Cell!ToCleanupLock, Base!Cell!Step
    <2>3. /\ holder = Nobody /\ holder' = t
          /\ UNCHANGED <<phase, data_mutex, data_cell, poisoned, call, old, forced, accidents>>
          /\ UNCHANGED <<graceful_counter, result_w>>
      BY <2>1
      DEF Inv, TypeOK, Base!Cell!ToCleanupLock, Base!Cell!Step, Base!Cell!data, Base!Cell!mutex,
          Base!As, waits
    <2>4. QED
      BY <2>1, <2>2, <2>3
  <1>2. /\ res'[t] \in Result /\ res'[t].kind # "GracefulWaitTimeout"
        /\ res' = [res EXCEPT ![t] = res'[t]]
    BY <1>1, Faults, MissingType DEF Inv, TypeOK
  <1>3. TypeOK'
    BY <1>1, <1>2, GracefulAsyncAssumption
    DEF GracefulAsyncAssumption, Inv, TypeOK, GracefulPC, Base!AsyncPC, Base!Cell!PC,
        Cell!Method, PhaseCode
  <1>4. Others(t)
    BY <1>1, GracefulAsyncAssumption
    DEF GracefulAsyncAssumption, Inv, TypeOK, PlaceInv, HoldsAt, Holding, Others
  <1>5. SelfAt(t)'
    <2>1. PlaceAt(t)'
      BY <1>1 DEF Inv, TypeOK, PlaceInv, PlaceAt, Transition, Waiting
    <2>2. HoldsAt(t)'
      BY <1>1, GracefulAsyncAssumption
      DEF GracefulAsyncAssumption, Inv, TypeOK, PlaceInv, PlaceAt, HoldsAt, Holding, Transition,
          Waiting
    <2>3. FreshAt(t)'
      BY <1>1, <1>2, SameResults
      DEF Inv, TypeOK, PlaceInv, PlaceAt, FreshAt, GaveUp, Transition
    <2>4. QED
      BY <2>1, <2>2, <2>3 DEF SelfAt
  <1>6. Quiet(t)
    BY <1>1
    DEF Inv, TypeOK, PlaceInv, PlaceAt, Quiet, Watched, InTransition, Transition, Waiting
  <1>7. Inv'
    BY <1>3, <1>4, <1>5, <1>6, QuietInv
  <1>8. /\ res'[t] = Missing(IF old[t] = PHASE_READ THEN data_cell ELSE data_mutex, PHASE_CLEANUP)
        /\ pc'[t] = IF res'[t] = NoResult THEN "run" ELSE "commit"
        /\ pc[t] = "lock" /\ call[t] = "transition_to_cleanup"
        /\ call'[t] = call[t] /\ old'[t] = old[t]
    BY <1>1 DEF Inv, TypeOK
  <1>9. /\ pcBar[t] = "lock" /\ pcBar'[t] = pc'[t]
        /\ callBar[t] = "transition_to_cleanup" /\ callBar'[t] = callBar[t]
        /\ oldBar[t] = old[t] /\ oldBar'[t] = oldBar[t]
    BY <1>8 DEF SeenIdle, Waiting, pcBar, callBar, oldBar
  <1>10. resBar'[t] = res'[t]
    BY <1>2, <1>8, ResShows
  <1>11. P!Cell!Step(t, "transition_to_cleanup", "lock",
                    IF res'[t] = NoResult THEN "run" ELSE "commit")
    BY <1>4, <1>7, <1>8, <1>9, OthersShow DEF P!Cell!Step
  <1>12. P!Cell!ToCleanupFault(t) = res'[t] /\ P!Cell!NoResult = NoResult
    BY <1>8, <1>9, Faults, SameResults
  <1>13. P!Cell!ToCleanupLock(t)
    BY <1>1, <1>4, <1>10, <1>11, <1>12, OthersShow
    DEF P!Cell!ToCleanupLock, P!Cell!data
  <1>14. P!As(t, f)
    BY <1>1 DEF Inv, TypeOK, P!As
  <1>15. QED
    BY <1>7, <1>13, <1>14

\* Quiet: the closure.
LEMMA ToCleanupRunStep ==
  ASSUME Inv, NEW t \in Tasks, NEW f \in BOOLEAN,
         Base!As(t, f), Base!Cell!ToCleanupRun(t), UNCHANGED waits
  PROVE  Inv' /\ P!As(t, f) /\ P!Cell!ToCleanupRun(t)
  <1>1. /\ call[t] = "transition_to_cleanup" /\ pc[t] = "run" /\ forced[t] = f
        /\ res' = [res EXCEPT ![t] = res'[t]]
        /\ res'[t] \in {Ok, Panic, Err(PHASE_CLEANUP, "FailToRunClosureDuringTransitionToCleanup")}
        /\ pc' = [pc EXCEPT ![t] = IF old[t] = PHASE_READ THEN "swap" ELSE "commit"]
        /\ UNCHANGED <<phase, data_mutex, data_cell, holder, poisoned, call, old, forced>>
        /\ UNCHANGED <<accidents, graceful_counter, result_w>>
    <2>1. PICK r :
             /\ Base!Cell!Step(t, "transition_to_cleanup", "run",
                               IF old[t] = PHASE_READ THEN "swap" ELSE "commit")
             /\ res' = [res EXCEPT ![t] = r]
             /\ r = Base!Cell!Ok \/ r = Base!Cell!Panic
                 \/ r = Base!Cell!Err(PHASE_CLEANUP, "FailToRunClosureDuringTransitionToCleanup")
      BY DEF Base!Cell!ToCleanupRun
    <2>2. /\ res'[t] = r
          /\ r \in {Ok, Panic, Err(PHASE_CLEANUP, "FailToRunClosureDuringTransitionToCleanup")}
      BY <2>1, SameResults, SameErr DEF Inv, TypeOK
    <2>3. /\ call[t] = "transition_to_cleanup" /\ pc[t] = "run" /\ call' = call /\ old' = old
          /\ pc' = [pc EXCEPT ![t] = IF old[t] = PHASE_READ THEN "swap" ELSE "commit"]
      BY <2>1, <2>2, SameResults DEF Base!Cell!Step
    <2>4. forced[t] = f /\ forced' = forced
      BY <2>3 DEF Inv, TypeOK, Base!As
    <2>5. UNCHANGED <<phase, data_mutex, data_cell, holder, poisoned, accidents>>
      BY DEF Base!Cell!ToCleanupRun, Base!Cell!data, Base!Cell!mutex, Base!As
    <2>6. QED
      BY <2>1, <2>2, <2>3, <2>4, <2>5 DEF waits
  <1>2. /\ res'[t] \in Result /\ res'[t].kind \notin Translated
        /\ res' = [res EXCEPT ![t] = res'[t]]
        /\ res'[t] \in {Ok, Panic, Err(PHASE_CLEANUP, "FailToRunClosureDuringTransitionToCleanup")}
    BY <1>1, SameErr, SameResults DEF Inv, TypeOK, Translated, PhasedErrorKind
  <1>3. TypeOK'
    BY <1>1, <1>2
    DEF Inv, TypeOK, GracefulPC, Base!AsyncPC, Base!Cell!PC, Cell!Method, PhaseCode
  <1>4. Others(t)
    BY <1>1 DEF Inv, TypeOK, PlaceInv, HoldsAt, Holding, Others
  <1>5. SelfAt(t)'
    <2>1. PlaceAt(t)'
      BY <1>1 DEF Inv, TypeOK, PlaceInv, PlaceAt, Transition, Waiting
    <2>2. HoldsAt(t)'
      BY <1>1 DEF Inv, TypeOK, PlaceInv, PlaceAt, HoldsAt, Holding, Transition, Waiting
    <2>3. FreshAt(t)'
      BY <1>1, <1>2, SameResults
      DEF Inv, TypeOK, PlaceInv, PlaceAt, FreshAt, GaveUp, Transition, Translated
    <2>4. QED
      BY <2>1, <2>2, <2>3 DEF SelfAt
  <1>6. Quiet(t)
    BY <1>1
    DEF Inv, TypeOK, PlaceInv, PlaceAt, Quiet, Watched, InTransition, Transition, Waiting
  <1>7. Inv'
    BY <1>3, <1>4, <1>5, <1>6, QuietInv
  <1>8. /\ pc[t] = "run" /\ pc'[t] = IF old[t] = PHASE_READ THEN "swap" ELSE "commit"
        /\ call[t] = "transition_to_cleanup" /\ call'[t] = call[t] /\ old'[t] = old[t]
    BY <1>1 DEF Inv, TypeOK
  <1>9. /\ pcBar[t] = "run" /\ pcBar'[t] = pc'[t]
        /\ callBar[t] = "transition_to_cleanup" /\ callBar'[t] = callBar[t]
        /\ oldBar[t] = old[t] /\ oldBar'[t] = oldBar[t]
    BY <1>8 DEF SeenIdle, Waiting, pcBar, callBar, oldBar
  <1>10. resBar'[t] = res'[t]
    BY <1>2, <1>8, ResShows DEF Translated
  <1>11. P!Cell!Step(t, "transition_to_cleanup", "run",
                    IF old[t] = PHASE_READ THEN "swap" ELSE "commit")
    BY <1>4, <1>7, <1>8, <1>9, OthersShow DEF P!Cell!Step
  <1>12. P!Cell!ToCleanupRun(t)
    <2>1. res'[t] \in {P!Cell!Ok, P!Cell!Panic,
                       P!Cell!Err(PHASE_CLEANUP, "FailToRunClosureDuringTransitionToCleanup")}
      BY <1>2, SameErr, SameResults
    <2>2. /\ resBar' = [resBar EXCEPT ![t] = res'[t]]
          /\ UNCHANGED <<phase, data_mutex, data_cell, holder, poisoned>>
      BY <1>1, <1>4, <1>10, OthersShow
    <2>3. QED
      BY <1>8, <1>9, <1>11, <2>1, <2>2, SameResults
      DEF P!Cell!ToCleanupRun, P!Cell!data, P!Cell!mutex
  <1>13. P!As(t, f)
    BY <1>1 DEF Inv, TypeOK, P!As
  <1>14. QED
    BY <1>7, <1>12, <1>13

\* Quiet: the data moves back.
LEMMA ToCleanupSwapStep ==
  ASSUME Inv, NEW t \in Tasks, NEW f \in BOOLEAN,
         Base!As(t, f), Base!Cell!ToCleanupSwap(t), UNCHANGED waits
  PROVE  Inv' /\ P!As(t, f) /\ P!Cell!ToCleanupSwap(t)
  <1>1. TypeOK'
    BY DEF Inv, TypeOK, GracefulPC, Base!AsyncPC, Base!Cell!PC, Cell!Method, PhaseCode,
       Base!Cell!ToCleanupSwap, Base!Cell!Step, Base!Cell!data, Base!Cell!mutex, Base!As, waits
  <1>2. Others(t)
    BY DEF Inv, TypeOK, PlaceInv, HoldsAt, Holding, Others, Base!Cell!ToCleanupSwap,
       Base!Cell!Step, Base!Cell!data, Base!Cell!mutex, Base!As, waits
  <1>3. SelfAt(t)'
    <2>1. PlaceAt(t)'
      BY DEF Inv, TypeOK, PlaceInv, PlaceAt, Transition, Waiting, Base!Cell!ToCleanupSwap,
         Base!Cell!Step, Base!Cell!data, Base!Cell!mutex, Base!As, waits
    <2>2. HoldsAt(t)'
      BY DEF Inv, TypeOK, PlaceInv, PlaceAt, HoldsAt, Holding, Transition, Waiting,
         Base!Cell!ToCleanupSwap, Base!Cell!Step, Base!Cell!data, Base!Cell!mutex, Base!As,
         waits
    <2>3. FreshAt(t)'
      BY SameResults
      DEF Inv, TypeOK, PlaceInv, PlaceAt, FreshAt, GaveUp, Transition, Base!Cell!ToCleanupSwap,
          Base!Cell!Step, Base!Cell!data, Base!Cell!mutex, Base!As, waits
    <2>4. QED
      BY <2>1, <2>2, <2>3 DEF SelfAt
  <1>4. Quiet(t)
    BY DEF Inv, TypeOK, PlaceInv, PlaceAt, Quiet, Watched, InTransition, Transition, Waiting,
       Base!Cell!ToCleanupSwap, Base!Cell!Step, Base!Cell!data, Base!Cell!mutex, Base!As, waits
  <1>5. Inv'
    BY <1>1, <1>2, <1>3, <1>4, QuietInv
  <1>6. /\ pcBar[t] = "idle" \/ forced[t] = f
        /\ pcBar[t] = "swap" /\ pcBar'[t] = "commit"
        /\ callBar[t] = "transition_to_cleanup" /\ callBar'[t] = callBar[t]
        /\ oldBar'[t] = oldBar[t]
    BY SameResults
    DEF Inv, TypeOK, PlaceInv, PlaceAt, HoldsAt, FreshAt, Holding, Transition,
        Base!Cell!ToCleanupSwap, Base!Cell!Step, Base!Cell!data, Base!Cell!mutex, Base!As,
        waits, SeenIdle, Waiting, GaveUp, pcBar, callBar, oldBar, resBar
  <1>7. /\ resBar'[t] = resBar[t]
    BY ResShows, SameResults
    DEF Inv, TypeOK, PlaceInv, PlaceAt, FreshAt, GaveUp, Translated, Base!Cell!ToCleanupSwap,
        Base!Cell!Step, Base!Cell!data, Base!Cell!mutex, Base!As, waits
  <1>8. QED
    BY <1>2, <1>5, <1>6, <1>7, OthersShow, SameResults
    DEF Base!Cell!ToCleanupSwap, Base!Cell!Step, Base!Cell!data, Base!Cell!mutex, Base!As,
        waits, P!Cell!ToCleanupSwap, P!Cell!Step, P!Cell!data, P!Cell!mutex, P!As

\* Publishing the end of a cleanup.
LEMMA ToCleanupCommitStep ==
  ASSUME Inv, NEW t \in Tasks, NEW f \in BOOLEAN,
         Base!As(t, f), Base!Cell!ToCleanupCommit(t), UNCHANGED waits
  PROVE  Inv' /\ P!As(t, f) /\ P!Cell!ToCleanupCommit(t)
  <1>1. TypeOK'
    BY DEF Inv, TypeOK, GracefulPC, Base!AsyncPC, Base!Cell!PC, Cell!Method, PhaseCode,
       Base!Cell!ToCleanupCommit, Base!Cell!Step, Base!Cell!change_phase, Base!Cell!Via,
       Base!Cell!data, Base!Cell!mutex, Base!As, waits
  <1>2. Others(t)
    BY DEF Inv, TypeOK, PlaceInv, HoldsAt, Holding, Others, Base!Cell!ToCleanupCommit,
       Base!Cell!Step, Base!Cell!change_phase, Base!Cell!Via, Base!Cell!data, Base!Cell!mutex,
       Base!As, waits
  <1>3. SelfAt(t)'
    <2>1. PlaceAt(t)'
      BY DEF Inv, TypeOK, PlaceInv, PlaceAt, Transition, Waiting, Base!Cell!ToCleanupCommit,
         Base!Cell!Step, Base!Cell!change_phase, Base!Cell!Via, Base!Cell!data, Base!Cell!mutex,
         Base!As, waits
    <2>2. HoldsAt(t)'
      BY DEF Inv, TypeOK, PlaceInv, PlaceAt, HoldsAt, Holding, Transition, Waiting,
         Base!Cell!ToCleanupCommit, Base!Cell!Step, Base!Cell!change_phase, Base!Cell!Via,
         Base!Cell!data, Base!Cell!mutex, Base!As, waits
    <2>3. FreshAt(t)'
      BY SameResults
      DEF Inv, TypeOK, PlaceInv, PlaceAt, FreshAt, GaveUp, Transition,
          Base!Cell!ToCleanupCommit, Base!Cell!Step, Base!Cell!change_phase, Base!Cell!Via,
          Base!Cell!data, Base!Cell!mutex, Base!As, waits
    <2>4. QED
      BY <2>1, <2>2, <2>3 DEF SelfAt
  <1>4. PlaceInv'
    BY <1>2, <1>3, OthersPlace
  <1>5. OwnerInv'
    <2>1. InTransition(t)' => InTransition(t) /\ call'[t] = call[t] /\ old'[t] = old[t]
      BY DEF Inv, TypeOK, PlaceInv, PlaceAt, InTransition, Transition, Waiting,
         Base!Cell!ToCleanupCommit, Base!Cell!Step, Base!Cell!change_phase, Base!Cell!Via,
         Base!Cell!data, Base!Cell!mutex, Base!As, waits
    <2>2. phase' # phase => InTransition(t) /\ ~InTransition(t)'
      BY DEF Inv, TypeOK, PlaceInv, PlaceAt, InTransition, Transition, Waiting,
         Base!Cell!ToCleanupCommit, Base!Cell!Step, Base!Cell!change_phase, Base!Cell!Via,
         Base!Cell!data, Base!Cell!mutex, Base!As, waits
    <2>3. QED
      BY <1>2, <2>1, <2>2, OwnerKept
  <1>6. CountInv'
    <2>1. Counted' = Counted /\ graceful_counter' = graceful_counter
      BY DEF Inv, TypeOK, PlaceInv, PlaceAt, Counted, Base!Cell!ToCleanupCommit, Base!Cell!Step,
         Base!Cell!change_phase, Base!Cell!Via, Base!Cell!data, Base!Cell!mutex, Base!As, waits
    <2>2. QED
      BY <1>2, <2>1 DEF Inv, CountInv, Others
  <1>7. WakeInv'
    <2>1. TellsReaders(t) => TellsReaders(t)'
      BY DEF Inv, TypeOK, PlaceInv, PlaceAt, TellsReaders, NotifiesLocked,
         Base!Cell!ToCleanupCommit, Base!Cell!Step, Base!Cell!change_phase, Base!Cell!Via,
         Base!Cell!data, Base!Cell!mutex, Base!As, waits
    <2>2. TellsCleanup(t) => TellsCleanup(t)' \/ phase # PHASE_READ_TO_CLEANUP
      BY DEF Inv, TypeOK, PlaceInv, PlaceAt, TellsCleanup, Base!Cell!ToCleanupCommit,
         Base!Cell!Step, Base!Cell!change_phase, Base!Cell!Via, Base!Cell!data, Base!Cell!mutex,
         Base!As, waits
    <2>3. phase = PHASE_SETUP_TO_READ /\ phase' # PHASE_SETUP_TO_READ
            => "contended" \in accidents' \/ TellsReaders(t)'
      BY DEF Inv, TypeOK, PlaceInv, PlaceAt, OwnerInv, InTransition, Transition, TellsReaders,
         NotifiesLocked, Waiting, Via, Base!Cell!ToCleanupCommit, Base!Cell!Step,
         Base!Cell!change_phase, Base!Cell!Via, Base!Cell!data, Base!Cell!mutex, Base!As, waits
    <2>4. graceful_counter # 0 /\ graceful_counter' = 0 => TellsCleanup(t)'
      BY DEF Inv, TypeOK, PlaceInv, PlaceAt, TellsCleanup, Base!Cell!ToCleanupCommit,
         Base!Cell!Step, Base!Cell!change_phase, Base!Cell!Via, Base!Cell!data, Base!Cell!mutex,
         Base!As, waits
    <2>5. pc'[t] \in {"wait", "asleep"} =>
            \/ pc[t] \in {"wait", "asleep"} /\ call'[t] = call[t]
            \/ call'[t] = "transition_to_cleanup" /\ graceful_counter' # 0
            \/ call'[t] = "read" /\ phase' = PHASE_SETUP_TO_READ
      BY DEF Inv, TypeOK, PlaceInv, PlaceAt, Base!Cell!ToCleanupCommit, Base!Cell!Step,
         Base!Cell!change_phase, Base!Cell!Via, Base!Cell!data, Base!Cell!mutex, Base!As, waits
    <2>6. QED
      BY <1>2, <2>1, <2>2, <2>3, <2>4, <2>5, WakeKept
  <1>8. Inv'
    BY <1>1, <1>4, <1>5, <1>6, <1>7 DEF Inv
  <1>9. /\ pcBar[t] = "idle" \/ forced[t] = f
        /\ pcBar[t] = "commit" /\ pcBar'[t] = "unlock"
        /\ callBar[t] = "transition_to_cleanup" /\ oldBar[t] = old[t]
        /\ callBar'[t] = callBar[t] /\ oldBar'[t] = oldBar[t]
    BY SameResults
    DEF Inv, TypeOK, PlaceInv, PlaceAt, HoldsAt, FreshAt, Holding, Transition,
        Base!Cell!ToCleanupCommit, Base!Cell!Step, Base!Cell!change_phase, Base!Cell!Via,
        Base!Cell!data, Base!Cell!mutex, Base!As, waits, SeenIdle, Waiting, GaveUp, pcBar,
        callBar, oldBar, resBar
  <1>10. /\ resBar'[t] = resBar[t]
    BY ResShows, SameResults
    DEF Inv, TypeOK, PlaceInv, PlaceAt, FreshAt, GaveUp, Translated, Base!Cell!ToCleanupCommit,
        Base!Cell!Step, Base!Cell!change_phase, Base!Cell!Via, Base!Cell!data, Base!Cell!mutex,
        Base!As, waits
  <1>11. QED
    BY <1>2, <1>8, <1>9, <1>10, OthersShow, SameResults
    DEF Base!Cell!ToCleanupCommit, Base!Cell!Step, Base!Cell!change_phase, Base!Cell!Via,
        Base!Cell!data, Base!Cell!mutex, Base!As, waits, P!Cell!ToCleanupCommit, P!Cell!Step,
        P!Cell!change_phase, P!Cell!Via, P!Cell!data, P!Cell!mutex, P!As

-----------------------------------------------------------------------------
(* Their accidents *)

\* Quiet: a closure that panics before it returns its future.
LEMMA PanicEarlyStep ==
  ASSUME Inv, NEW t \in Tasks, PanicEarly(t)
  PROVE  Inv' /\ P!PanicEarly(t)
  <1>1. /\ res'[t] \in Result /\ res'[t].kind \notin Translated
        /\ res' = [res EXCEPT ![t] = res'[t]]
    BY SameResults
    DEF Inv, TypeOK, Translated, PanicEarly, Base!PanicEarly, Base!data, Base!mutex, Base!extra,
        waits
  <1>2. TypeOK'
    BY <1>1, GracefulAsyncAssumption
    DEF GracefulAsyncAssumption, Inv, TypeOK, GracefulPC, Base!AsyncPC, Base!Cell!PC,
        Cell!Method, PhaseCode, PanicEarly, Base!PanicEarly, Base!data, Base!mutex, Base!extra,
        waits
  <1>3. Others(t)
    BY GracefulAsyncAssumption
    DEF GracefulAsyncAssumption, Inv, TypeOK, PlaceInv, HoldsAt, Holding, Others, PanicEarly,
        Base!PanicEarly, Base!data, Base!mutex, Base!extra, waits
  <1>4. SelfAt(t)'
    <2>1. PlaceAt(t)'
      BY DEF Inv, TypeOK, PlaceInv, PlaceAt, Transition, Waiting, PanicEarly, Base!PanicEarly,
         Base!data, Base!mutex, Base!extra, waits
    <2>2. HoldsAt(t)'
      BY GracefulAsyncAssumption
      DEF GracefulAsyncAssumption, Inv, TypeOK, PlaceInv, PlaceAt, HoldsAt, Holding, Transition,
          Waiting, PanicEarly, Base!PanicEarly, Base!data, Base!mutex, Base!extra, waits
    <2>3. FreshAt(t)'
      BY <1>1, SameResults
      DEF Inv, TypeOK, PlaceInv, PlaceAt, FreshAt, GaveUp, Transition, Translated, PanicEarly,
          Base!PanicEarly, Base!data, Base!mutex, Base!extra, waits
    <2>4. QED
      BY <2>1, <2>2, <2>3 DEF SelfAt
  <1>5. Quiet(t)
    BY DEF Inv, TypeOK, PlaceInv, PlaceAt, Quiet, Watched, InTransition, Transition, Waiting,
       PanicEarly, Base!PanicEarly, Base!data, Base!mutex, Base!extra, waits
  <1>6. Inv'
    BY <1>2, <1>3, <1>4, <1>5, QuietInv
  <1>7. /\ callBar[t] \in {"transition_to_read", "transition_to_cleanup"}
        /\ pcBar[t] = "run" /\ pcBar'[t] = "ret" /\ callBar'[t] = callBar[t]
        /\ oldBar'[t] = oldBar[t]
    BY <1>1, SameResults
    DEF Inv, TypeOK, PlaceInv, PlaceAt, HoldsAt, FreshAt, Holding, Transition, Translated,
        PanicEarly, Base!PanicEarly, Base!data, Base!mutex, Base!extra, waits, SeenIdle,
        Waiting, GaveUp, pcBar, callBar, oldBar, resBar
  <1>8. /\ resBar'[t] = Panic
    BY <1>1, ResShows, SameResults
    DEF Inv, TypeOK, PlaceInv, PlaceAt, FreshAt, GaveUp, Translated, PanicEarly,
        Base!PanicEarly, Base!data, Base!mutex, Base!extra, waits
  <1>9. QED
    BY <1>1, <1>3, <1>6, <1>7, <1>8, OthersShow, SameResults
    DEF Base!Accident, PanicEarly, Base!PanicEarly, Base!data, Base!mutex, Base!extra, waits,
        P!PanicEarly, P!data, P!mutex, P!extra

\* Quiet: a future is dropped at the mutex or at the closure.
LEMMA CancelStep ==
  ASSUME Inv, NEW t \in Tasks, Cancel(t)
  PROVE  Inv' /\ P!Cancel(t)
  <1>1. /\ res'[t] \in Result /\ res'[t].kind \notin Translated
        /\ res' = [res EXCEPT ![t] = res'[t]]
    BY SameResults
    DEF Inv, TypeOK, Translated, Cancel, Base!Cancel, Base!data, Base!mutex, Base!extra
  <1>2. TypeOK'
    BY <1>1, GracefulAsyncAssumption
    DEF GracefulAsyncAssumption, Inv, TypeOK, GracefulPC, Base!AsyncPC, Base!Cell!PC,
        Cell!Method, PhaseCode, waits, Cancel, Base!Cancel, Base!data, Base!mutex, Base!extra
  <1>3. Others(t)
    BY GracefulAsyncAssumption
    DEF GracefulAsyncAssumption, Inv, TypeOK, PlaceInv, HoldsAt, Holding, Others, Cancel,
        Base!Cancel, Base!data, Base!mutex, Base!extra
  <1>4. SelfAt(t)'
    <2>1. PlaceAt(t)'
      BY DEF Inv, TypeOK, PlaceInv, PlaceAt, Transition, Waiting, Cancel, Base!Cancel,
         Base!data, Base!mutex, Base!extra
    <2>2. HoldsAt(t)'
      BY GracefulAsyncAssumption
      DEF GracefulAsyncAssumption, Inv, TypeOK, PlaceInv, PlaceAt, HoldsAt, Holding, Transition,
          Waiting, Cancel, Base!Cancel, Base!data, Base!mutex, Base!extra
    <2>3. FreshAt(t)'
      BY <1>1, SameResults
      DEF Inv, TypeOK, PlaceInv, PlaceAt, FreshAt, GaveUp, Transition, Translated, Cancel,
          Base!Cancel, Base!data, Base!mutex, Base!extra
    <2>4. QED
      BY <2>1, <2>2, <2>3 DEF SelfAt
  <1>5. Quiet(t)
    BY DEF Inv, TypeOK, PlaceInv, PlaceAt, Quiet, Watched, InTransition, Transition, Waiting,
       Cancel, Base!Cancel, Base!data, Base!mutex, Base!extra
  <1>6. Inv'
    BY <1>2, <1>3, <1>4, <1>5, QuietInv
  <1>7. /\ pcBar[t] \in {"lock", "run"} /\ pcBar'[t] = "idle" /\ callBar[t] = call[t]
        /\ callBar'[t] = "none" /\ oldBar'[t] = PHASE_SETUP
    BY <1>1, SameResults
    DEF Inv, TypeOK, PlaceInv, PlaceAt, HoldsAt, FreshAt, Holding, Transition, Translated,
        Cancel, Base!Cancel, Base!data, Base!mutex, Base!extra, SeenIdle, Waiting, GaveUp,
        pcBar, callBar, oldBar, resBar
  <1>8. /\ resBar'[t] = NoResult
    BY <1>1, ResShows, SameResults
    DEF Inv, TypeOK, PlaceInv, PlaceAt, FreshAt, GaveUp, Translated, Cancel, Base!Cancel,
        Base!data, Base!mutex, Base!extra
  <1>9. QED
    BY <1>1, <1>3, <1>6, <1>7, <1>8, OthersShow, SameResults
    DEF Base!Accident, Cancel, Base!Cancel, Base!data, Base!mutex, Base!extra, P!Cancel, P!data,
        P!mutex, P!extra

\* The future of a waiting call is dropped: that of a cleanup is one about to lock.
LEMMA CancelWaitStep ==
  ASSUME Inv, NEW t \in Tasks, CancelWait(t)
  PROVE  Inv' /\ (P!Cancel(t) \/ UNCHANGED P!vars)
  <1>1. TypeOK'
    BY DEF Inv, TypeOK, GracefulPC, Base!AsyncPC, Base!Cell!PC, Cell!Method, PhaseCode,
       CancelWait, data, mutex, waits
  <1>2. Others(t)
    BY DEF Inv, TypeOK, PlaceInv, HoldsAt, Holding, Others, CancelWait, data, mutex, waits
  <1>3. SelfAt(t)'
    <2>1. PlaceAt(t)'
      BY DEF Inv, TypeOK, PlaceInv, PlaceAt, Transition, Waiting, CancelWait, data, mutex, waits
    <2>2. HoldsAt(t)'
      BY DEF Inv, TypeOK, PlaceInv, PlaceAt, HoldsAt, Holding, Transition, Waiting, CancelWait,
         data, mutex, waits
    <2>3. FreshAt(t)'
      BY SameResults
      DEF Inv, TypeOK, PlaceInv, PlaceAt, FreshAt, GaveUp, Transition, CancelWait, data, mutex,
          waits
    <2>4. QED
      BY <2>1, <2>2, <2>3 DEF SelfAt
  <1>4. PlaceInv'
    BY <1>2, <1>3, OthersPlace
  <1>5. OwnerInv'
    <2>1. InTransition(t)' => InTransition(t) /\ call'[t] = call[t] /\ old'[t] = old[t]
      BY DEF Inv, TypeOK, PlaceInv, PlaceAt, InTransition, Transition, Waiting, CancelWait,
         data, mutex, waits
    <2>2. phase' # phase => InTransition(t) /\ ~InTransition(t)'
      BY DEF Inv, TypeOK, PlaceInv, PlaceAt, InTransition, Transition, Waiting, CancelWait,
         data, mutex, waits
    <2>3. QED
      BY <1>2, <2>1, <2>2, OwnerKept
  <1>6. CountInv'
    <2>1. Counted' = Counted /\ graceful_counter' = graceful_counter
      BY DEF Inv, TypeOK, PlaceInv, PlaceAt, Counted, CancelWait, data, mutex, waits
    <2>2. QED
      BY <1>2, <2>1 DEF Inv, CountInv, Others
  <1>7. WakeInv'
    <2>1. TellsReaders(t) => TellsReaders(t)'
      BY DEF Inv, TypeOK, PlaceInv, PlaceAt, TellsReaders, NotifiesLocked, CancelWait, data,
         mutex, waits
    <2>2. TellsCleanup(t) => TellsCleanup(t)' \/ phase # PHASE_READ_TO_CLEANUP
      BY DEF Inv, TypeOK, PlaceInv, PlaceAt, TellsCleanup, CancelWait, data, mutex, waits
    <2>3. phase = PHASE_SETUP_TO_READ /\ phase' # PHASE_SETUP_TO_READ
            => "contended" \in accidents' \/ TellsReaders(t)'
      BY DEF Inv, TypeOK, PlaceInv, PlaceAt, OwnerInv, InTransition, Transition, TellsReaders,
         NotifiesLocked, Waiting, Via, CancelWait, data, mutex, waits
    <2>4. graceful_counter # 0 /\ graceful_counter' = 0 => TellsCleanup(t)'
      BY DEF Inv, TypeOK, PlaceInv, PlaceAt, TellsCleanup, CancelWait, data, mutex, waits
    <2>5. pc'[t] \in {"wait", "asleep"} =>
            \/ pc[t] \in {"wait", "asleep"} /\ call'[t] = call[t]
            \/ call'[t] = "transition_to_cleanup" /\ graceful_counter' # 0
            \/ call'[t] = "read" /\ phase' = PHASE_SETUP_TO_READ
      BY DEF Inv, TypeOK, PlaceInv, PlaceAt, CancelWait, data, mutex, waits
    <2>6. QED
      BY <1>2, <2>1, <2>2, <2>3, <2>4, <2>5, WakeKept
  <1>8. Inv'
    BY <1>1, <1>4, <1>5, <1>6, <1>7 DEF Inv
  <1>9. /\ pc[t] \in {"asleep", "woken"} /\ pc'[t] = "idle" /\ call'[t] = "none"
        /\ res'[t] = NoResult
        /\ res[t] = NoResult /\ call[t] \in {"read", "transition_to_cleanup"} /\ holder # t
        /\ ~forced[t]
    BY SameResults
    DEF Inv, TypeOK, PlaceInv, PlaceAt, HoldsAt, FreshAt, Holding, Transition, Waiting, GaveUp,
        CancelWait, data, mutex, waits
  <1>10. /\ pcBar'[t] = "idle" /\ callBar'[t] = "none" /\ oldBar'[t] = PHASE_SETUP
         /\ holder # t /\ ~forced[t]
         /\ call[t] # "read" => pcBar[t] = "lock" /\ callBar[t] = "transition_to_cleanup"
    BY <1>9, SameResults
    DEF Transition, SeenIdle, Waiting, GaveUp, pcBar, callBar, oldBar, resBar
  <1>11. /\ resBar'[t] = NoResult
         /\ call[t] = "read" => pcBar'[t] = pcBar[t] /\ callBar'[t] = callBar[t]
                              /\ oldBar'[t] = oldBar[t] /\ resBar'[t] = resBar[t]
    BY <1>9, SameResults DEF SeenIdle, Waiting, GaveUp, pcBar, callBar, oldBar, resBar
  <1>12. CASE call[t] = "read"
    <2>1. UNCHANGED <<phase, data, mutex, forced, accidents>>
      BY <1>12 DEF CancelWait, data, mutex
    <2>2. QED
      BY <1>2, <1>8, <1>11, <1>12, <2>1, NoStep DEF data, mutex
  <1>13. CASE call[t] # "read"
    <2>1. /\ pcBar'   = [pcBar   EXCEPT ![t] = "idle"]
          /\ callBar' = [callBar EXCEPT ![t] = "none"]
          /\ oldBar'  = [oldBar  EXCEPT ![t] = PHASE_SETUP]
          /\ resBar'  = [resBar  EXCEPT ![t] = P!NoResult]
      BY <1>2, <1>10, <1>11, OthersShow, SameResults
    <2>2. /\ "cancelled" \in Allowed
          /\ (accidents \cap Base!Accident)' = (accidents \cap Base!Accident) \cup {"cancelled"}
          /\ UNCHANGED <<phase, data_mutex, data_cell, holder, poisoned, forced>>
      BY <1>13 DEF CancelWait, data, mutex, Base!Accident
    <2>3. P!Cancel(t)
      BY <1>10, <1>13, <2>1, <2>2 DEF P!Cancel, P!data
    <2>4. QED
      BY <1>8, <2>3
  <1>14. QED
    BY <1>12, <1>13

\* Quiet: a forced transition finds data_mutex locked.
LEMMA ForceFailsStep ==
  ASSUME Inv, NEW t \in Tasks, ForceFails(t)
  PROVE  Inv' /\ P!ForceFails(t)
  <1>1. /\ pc[t] = "lock" /\ call[t] \in Transition /\ forced[t] /\ holder # Nobody
        /\ pc' = [pc EXCEPT ![t] = "give up"]
        /\ res' = [res EXCEPT ![t] =
             Err(IF call[t] = "transition_to_read" THEN PHASE_SETUP ELSE PHASE_CLEANUP,
                       "MutexTryLockFailed")]
        /\ "contended" \in Allowed /\ accidents' = accidents \cup {"contended"}
        /\ UNCHANGED <<phase, data_mutex, data_cell, holder, poisoned, call, old, forced>>
        /\ UNCHANGED <<graceful_counter, result_w>>
    <2> DEFINE code == IF call[t] = "transition_to_read" THEN PHASE_SETUP ELSE PHASE_CLEANUP
    <2>1. PICK m \in {"transition_to_read", "transition_to_cleanup"} :
             Base!Cell!Step(t, m, "lock", "give up")
      BY DEF ForceFails, Base!ForceFails
    <2>2. Base!Err(code, "MutexTryLockFailed") = Err(code, "MutexTryLockFailed")
      BY SameErr
    <2>3. res' = [res EXCEPT ![t] = Err(code, "MutexTryLockFailed")]
      BY <2>2 DEF ForceFails, Base!ForceFails
    <2>4. /\ forced[t] /\ holder # Nobody
          /\ "contended" \in Allowed /\ accidents' = accidents \cup {"contended"}
          /\ UNCHANGED <<phase, data_mutex, data_cell, holder, poisoned, forced>>
          /\ UNCHANGED <<graceful_counter, result_w>>
      BY DEF ForceFails, Base!ForceFails, Base!data, Base!mutex, waits
    <2>5. QED
      BY <2>1, <2>3, <2>4 DEF Transition, Base!Cell!Step
  <1>2. /\ res'[t] \in Result /\ res'[t].kind \notin Translated
        /\ res' = [res EXCEPT ![t] = res'[t]]
        /\ res'[t] = Err(IF call[t] = "transition_to_read" THEN PHASE_SETUP ELSE PHASE_CLEANUP,
                       "MutexTryLockFailed")
    <2> DEFINE code == IF call[t] = "transition_to_read" THEN PHASE_SETUP ELSE PHASE_CLEANUP
    <2>1. /\ Err(code, "MutexTryLockFailed").kind \notin Translated
          /\ Err(code, "MutexTryLockFailed") \in Result
      BY SameErr DEF PhasedErrorKind, Translated
    <2>2. QED
      BY <1>1, <2>1 DEF Inv, TypeOK
  <1>3. TypeOK'
    BY <1>1, <1>2
    DEF Inv, TypeOK, GracefulPC, Base!AsyncPC, Base!Cell!PC, Cell!Method, PhaseCode
  <1>4. Others(t)
    BY <1>1 DEF Inv, TypeOK, PlaceInv, HoldsAt, Holding, Others
  <1>5. SelfAt(t)'
    <2>1. PlaceAt(t)'
      BY <1>1 DEF Inv, TypeOK, PlaceInv, PlaceAt, Transition, Waiting
    <2>2. HoldsAt(t)'
      BY <1>1 DEF Inv, TypeOK, PlaceInv, PlaceAt, HoldsAt, Holding, Transition, Waiting
    <2>3. FreshAt(t)'
      BY <1>1, <1>2, SameResults
      DEF Inv, TypeOK, PlaceInv, PlaceAt, FreshAt, GaveUp, Transition, Translated
    <2>4. QED
      BY <2>1, <2>2, <2>3 DEF SelfAt
  <1>6. Quiet(t)
    BY <1>1
    DEF Inv, TypeOK, PlaceInv, PlaceAt, Quiet, Watched, InTransition, Transition, Waiting
  <1>7. Inv'
    BY <1>3, <1>4, <1>5, <1>6, QuietInv
  <1>8. /\ pcBar[t] = "lock" /\ pcBar'[t] = "give up" /\ callBar[t] = call[t]
        /\ call[t] \in Transition /\ callBar'[t] = callBar[t] /\ oldBar'[t] = oldBar[t]
    BY <1>1, <1>2, SameResults, SameErr
    DEF Inv, TypeOK, PlaceInv, PlaceAt, HoldsAt, FreshAt, Holding, Transition, Translated,
        SeenIdle, Waiting, GaveUp, pcBar, callBar, oldBar, resBar
  <1>9. /\ resBar'[t] = res'[t]
        /\ res'[t] = Err(IF call[t] = "transition_to_read" THEN PHASE_SETUP ELSE PHASE_CLEANUP,
                       "MutexTryLockFailed")
    BY <1>1, <1>2, ResShows, SameResults, SameErr
    DEF Inv, TypeOK, PlaceInv, PlaceAt, FreshAt, GaveUp, Translated
  <1>10. /\ pcBar'   = [pcBar EXCEPT ![t] = "give up"]
        /\ callBar' = callBar /\ oldBar' = oldBar
        /\ resBar'  = [resBar EXCEPT ![t] =
                 P!Err(IF callBar[t] = "transition_to_read" THEN PHASE_SETUP ELSE PHASE_CLEANUP,
                       "MutexTryLockFailed")]
    <2> DEFINE code == IF call[t] = "transition_to_read" THEN PHASE_SETUP ELSE PHASE_CLEANUP
    <2>1. /\ pcBar' = [pcBar EXCEPT ![t] = "give up"]
          /\ callBar' = callBar /\ oldBar' = oldBar
          /\ resBar' = [resBar EXCEPT ![t] = Err(code, "MutexTryLockFailed")]
      BY <1>4, <1>8, <1>9, OthersShow
    <2>2. Err(code, "MutexTryLockFailed") = P!Err(code, "MutexTryLockFailed")
      BY SameErr
    <2>3. QED
      BY <1>8, <2>1, <2>2
  <1>11. /\ "contended" \in Allowed /\ forced[t] /\ holder # Nobody
         /\ (accidents \cap Base!Accident)' = (accidents \cap Base!Accident) \cup {"contended"}
         /\ UNCHANGED <<phase, data_mutex, data_cell, holder, poisoned, forced>>
    BY <1>1 DEF Base!Accident
  <1>12. P!ForceFails(t)
    BY <1>8, <1>10, <1>11 DEF Transition, P!ForceFails, P!Cell!Step, P!data, P!mutex
  <1>13. QED
    BY <1>7, <1>12

\* A forced transition gives up: a sleeping reader is not told, by that accident.
LEMMA ForceGivesUpStep ==
  ASSUME Inv, NEW t \in Tasks, ForceGivesUp(t)
  PROVE  Inv' /\ P!ForceGivesUp(t)
  <1>1. TypeOK'
    BY DEF Inv, TypeOK, GracefulPC, Base!AsyncPC, Base!Cell!PC, Cell!Method, PhaseCode,
       ForceGivesUp, Base!ForceGivesUp, Base!Cell!change_phase, Base!data, Base!mutex,
       Base!extra, waits
  <1>2. Others(t)
    BY DEF Inv, TypeOK, PlaceInv, HoldsAt, Holding, Others, ForceGivesUp, Base!ForceGivesUp,
       Base!Cell!change_phase, Base!data, Base!mutex, Base!extra, waits
  <1>3. SelfAt(t)'
    <2>1. PlaceAt(t)'
      BY DEF Inv, TypeOK, PlaceInv, PlaceAt, Transition, Waiting, ForceGivesUp,
         Base!ForceGivesUp, Base!Cell!change_phase, Base!data, Base!mutex, Base!extra, waits
    <2>2. HoldsAt(t)'
      BY DEF Inv, TypeOK, PlaceInv, PlaceAt, HoldsAt, Holding, Transition, Waiting,
         ForceGivesUp, Base!ForceGivesUp, Base!Cell!change_phase, Base!data, Base!mutex,
         Base!extra, waits
    <2>3. FreshAt(t)'
      BY SameResults
      DEF Inv, TypeOK, PlaceInv, PlaceAt, FreshAt, GaveUp, Transition, ForceGivesUp,
          Base!ForceGivesUp, Base!Cell!change_phase, Base!data, Base!mutex, Base!extra, waits
    <2>4. QED
      BY <2>1, <2>2, <2>3 DEF SelfAt
  <1>4. PlaceInv'
    BY <1>2, <1>3, OthersPlace
  <1>5. OwnerInv'
    <2>1. InTransition(t)' => InTransition(t) /\ call'[t] = call[t] /\ old'[t] = old[t]
      BY DEF Inv, TypeOK, PlaceInv, PlaceAt, InTransition, Transition, Waiting, ForceGivesUp,
         Base!ForceGivesUp, Base!Cell!change_phase, Base!data, Base!mutex, Base!extra, waits
    <2>2. phase' # phase => InTransition(t) /\ ~InTransition(t)'
      BY DEF Inv, TypeOK, PlaceInv, PlaceAt, InTransition, Transition, Waiting, ForceGivesUp,
         Base!ForceGivesUp, Base!Cell!change_phase, Base!data, Base!mutex, Base!extra, waits
    <2>3. QED
      BY <1>2, <2>1, <2>2, OwnerKept
  <1>6. CountInv'
    <2>1. Counted' = Counted /\ graceful_counter' = graceful_counter
      BY DEF Inv, TypeOK, PlaceInv, PlaceAt, Counted, ForceGivesUp, Base!ForceGivesUp,
         Base!Cell!change_phase, Base!data, Base!mutex, Base!extra, waits
    <2>2. QED
      BY <1>2, <2>1 DEF Inv, CountInv, Others
  <1>7. WakeInv'
    <2>1. TellsReaders(t) => TellsReaders(t)'
      BY DEF Inv, TypeOK, PlaceInv, PlaceAt, TellsReaders, NotifiesLocked, ForceGivesUp,
         Base!ForceGivesUp, Base!Cell!change_phase, Base!data, Base!mutex, Base!extra, waits
    <2>2. TellsCleanup(t) => TellsCleanup(t)' \/ phase # PHASE_READ_TO_CLEANUP
      BY DEF Inv, TypeOK, PlaceInv, PlaceAt, TellsCleanup, ForceGivesUp, Base!ForceGivesUp,
         Base!Cell!change_phase, Base!data, Base!mutex, Base!extra, waits
    <2>3. phase = PHASE_SETUP_TO_READ /\ phase' # PHASE_SETUP_TO_READ
            => "contended" \in accidents' \/ TellsReaders(t)'
      BY DEF Inv, TypeOK, PlaceInv, PlaceAt, OwnerInv, InTransition, Transition, TellsReaders,
         NotifiesLocked, Waiting, Via, ForceGivesUp, Base!ForceGivesUp, Base!Cell!change_phase,
         Base!data, Base!mutex, Base!extra, waits
    <2>4. graceful_counter # 0 /\ graceful_counter' = 0 => TellsCleanup(t)'
      BY DEF Inv, TypeOK, PlaceInv, PlaceAt, TellsCleanup, ForceGivesUp, Base!ForceGivesUp,
         Base!Cell!change_phase, Base!data, Base!mutex, Base!extra, waits
    <2>5. pc'[t] \in {"wait", "asleep"} =>
            \/ pc[t] \in {"wait", "asleep"} /\ call'[t] = call[t]
            \/ call'[t] = "transition_to_cleanup" /\ graceful_counter' # 0
            \/ call'[t] = "read" /\ phase' = PHASE_SETUP_TO_READ
      BY DEF Inv, TypeOK, PlaceInv, PlaceAt, ForceGivesUp, Base!ForceGivesUp,
         Base!Cell!change_phase, Base!data, Base!mutex, Base!extra, waits
    <2>6. QED
      BY <1>2, <2>1, <2>2, <2>3, <2>4, <2>5, WakeKept
  <1>8. Inv'
    BY <1>1, <1>4, <1>5, <1>6, <1>7 DEF Inv
  <1>9. /\ pcBar[t] = "give up" /\ pcBar'[t] = "ret" /\ callBar[t] = call[t]
        /\ callBar'[t] = callBar[t] /\ oldBar'[t] = oldBar[t]
    BY SameResults
    DEF Inv, TypeOK, PlaceInv, PlaceAt, HoldsAt, FreshAt, Holding, Transition, ForceGivesUp,
        Base!ForceGivesUp, Base!Cell!change_phase, Base!data, Base!mutex, Base!extra, waits,
        SeenIdle, Waiting, GaveUp, pcBar, callBar, oldBar, resBar
  <1>10. /\ resBar'[t] = resBar[t]
    BY ResShows, SameResults
    DEF Inv, TypeOK, PlaceInv, PlaceAt, FreshAt, GaveUp, Translated, ForceGivesUp,
        Base!ForceGivesUp, Base!Cell!change_phase, Base!data, Base!mutex, Base!extra, waits
  <1>11. QED
    BY <1>2, <1>8, <1>9, <1>10, OthersShow, SameResults
    DEF ForceGivesUp, Base!ForceGivesUp, Base!Cell!change_phase, Base!data, Base!mutex,
        Base!extra, waits, P!ForceGivesUp, P!Cell!change_phase, P!data, P!mutex, P!extra

-----------------------------------------------------------------------------
(* lock_async, try_lock and the guard *)

\* Quiet: lock and try_lock begin.
LEMMA LockBeginStep ==
  ASSUME Inv, NEW t \in Tasks, Base!LockBegin(t), UNCHANGED waits
  PROVE  Inv' /\ P!LockBegin(t)
  <1>1. /\ pc[t] = "idle" /\ pc' = [pc EXCEPT ![t] = "lock"]
        /\ call'[t] \in {"lock", "try_lock"} /\ call' = [call EXCEPT ![t] = call'[t]]
        /\ old' = [old EXCEPT ![t] = phase] /\ phase \in {PHASE_SETUP, PHASE_CLEANUP}
        /\ UNCHANGED <<phase, data_mutex, data_cell, holder, poisoned, res, forced>>
        /\ UNCHANGED <<accidents, graceful_counter, result_w>>
    <2>1. PICK m \in {"lock", "try_lock"} :
             Base!Cell!Lockable /\ Base!Cell!Enter(t, m, "lock")
      BY DEF Base!LockBegin, Base!Cell!LockBegin, Base!Cell!TryLockBegin
    <2>2. UNCHANGED <<phase, data_mutex, data_cell, holder, poisoned, res, forced, accidents>>
      BY DEF Base!LockBegin, Base!Cell!LockBegin, Base!Cell!TryLockBegin, Base!Cell!data,
         Base!Cell!mutex, Base!extra
    <2>3. QED
      BY <2>1, <2>2 DEF Inv, TypeOK, Base!Cell!Lockable, Base!Cell!Enter, waits
  <1>2. TypeOK'
    <2>1. "lock" \in GracefulPC /\ call'[t] \in GracefulMethod
      BY <1>1 DEF GracefulPC, Base!AsyncPC, Base!Cell!PC, Cell!Method, GracefulMethod
    <2>2. TypeAtEntry'
      BY <1>1, <2>1, EntryType
    <2>3. QED
      BY <1>1, <2>2 DEF Inv, TypeOK, TypeAtEntry, GracefulMethod
  <1>3. Others(t)
    BY <1>1 DEF Inv, TypeOK, PlaceInv, HoldsAt, Holding, Others
  <1>4. SelfAt(t)'
    <2>1. PlaceAt(t)'
      BY <1>1 DEF Inv, TypeOK, PlaceInv, PlaceAt, Transition, Waiting
    <2>2. HoldsAt(t)'
      BY <1>1 DEF Inv, TypeOK, PlaceInv, PlaceAt, HoldsAt, Holding, Transition, Waiting
    <2>3. FreshAt(t)'
      BY <1>1, SameResults DEF Inv, TypeOK, PlaceInv, PlaceAt, FreshAt, GaveUp, Transition
    <2>4. QED
      BY <2>1, <2>2, <2>3 DEF SelfAt
  <1>5. Quiet(t)
    BY <1>1
    DEF Inv, TypeOK, PlaceInv, PlaceAt, Quiet, Watched, InTransition, Transition, Waiting
  <1>6. Inv'
    BY <1>2, <1>3, <1>4, <1>5, QuietInv
  <1>7. /\ pc[t] = "idle" /\ pc'[t] = "lock" /\ call[t] = "none"
        /\ call'[t] \in {"lock", "try_lock"} /\ old'[t] = phase /\ res[t] = NoResult
        /\ res'[t] = NoResult
    BY <1>1, SameResults
    DEF Inv, TypeOK, PlaceInv, PlaceAt, HoldsAt, FreshAt, Holding, Transition, Waiting, GaveUp
  <1>8. /\ pcBar[t] = "idle" /\ pcBar'[t] = "lock" /\ callBar'[t] = call'[t]
        /\ oldBar'[t] = phase
    BY <1>7, SameResults
    DEF Transition, SeenIdle, Waiting, GaveUp, pcBar, callBar, oldBar, resBar
  <1>9. /\ resBar'[t] = resBar[t]
    BY <1>7, ResShows, SameResults DEF Translated
  <1>10. /\ pcBar'   = [pcBar   EXCEPT ![t] = "lock"]
        /\ callBar' = [callBar EXCEPT ![t] = call'[t]]
        /\ oldBar'  = [oldBar  EXCEPT ![t] = phase]
        /\ resBar'  = resBar
    BY <1>3, <1>6, <1>8, <1>9, OthersShow
  <1>11. /\ phase \in {PHASE_SETUP, PHASE_CLEANUP}
         /\ UNCHANGED <<phase, data_mutex, data_cell, holder, poisoned, forced, accidents>>
    BY <1>1
  <1>12. P!LockBegin(t)
    BY <1>7, <1>8, <1>10, <1>11
    DEF P!LockBegin, P!Cell!LockBegin, P!Cell!TryLockBegin, P!Cell!Lockable, P!Cell!Enter,
        P!Cell!data, P!Cell!mutex, P!extra
  <1>13. QED
    BY <1>6, <1>12

\* Quiet: a refusal.
LEMMA LockRefusedStep ==
  ASSUME Inv, NEW t \in Tasks, Base!LockRefused(t), UNCHANGED waits
  PROVE  Inv' /\ P!LockRefused(t)
  <1>1. /\ pc[t] = "idle" /\ pc' = [pc EXCEPT ![t] = "ret"]
        /\ call'[t] \in {"lock", "try_lock"} /\ call' = [call EXCEPT ![t] = call'[t]]
        /\ old' = [old EXCEPT ![t] = phase] /\ phase \notin {PHASE_SETUP, PHASE_CLEANUP}
        /\ res' = [res EXCEPT ![t] = LockRefusal(phase)]
        /\ UNCHANGED <<phase, data_mutex, data_cell, holder, poisoned, forced, accidents>>
        /\ UNCHANGED <<graceful_counter, result_w>>
    <2>1. PICK m \in {"lock", "try_lock"} :
             Base!Cell!Refuse(t, m, Base!Cell!LockRefusal(phase))
      BY DEF Base!LockRefused, Base!Cell!LockRefused
    <2>2. UNCHANGED <<forced, accidents>> /\ ~Base!Cell!Lockable
      BY DEF Base!LockRefused, Base!Cell!LockRefused, Base!extra
    <2>3. QED
      BY <2>1, <2>2, SameRefusals
      DEF Inv, TypeOK, Base!Cell!Refuse, Base!Cell!Enter, Base!Cell!Lockable, Base!Cell!data,
          Base!Cell!mutex, waits
  <1>2. /\ res'[t] \in Result /\ res'[t].kind \notin Translated
        /\ res' = [res EXCEPT ![t] = res'[t]]
        /\ res'[t] = LockRefusal(phase)
    BY <1>1, SameRefusals DEF Inv, TypeOK, Translated
  <1>3. TypeOK'
    <2>1. res' \in [Tasks -> Result]
      BY <1>1, <1>2 DEF Inv, TypeOK
    <2>2. "ret" \in GracefulPC /\ call'[t] \in GracefulMethod
      BY <1>1 DEF GracefulPC, Base!AsyncPC, Base!Cell!PC, Cell!Method, GracefulMethod
    <2>3. TypeAtEntry'
      BY <1>1, <2>2, EntryType
    <2>4. QED
      BY <1>1, <2>1, <2>3 DEF Inv, TypeOK, TypeAtEntry, GracefulMethod
  <1>4. Others(t)
    BY <1>1 DEF Inv, TypeOK, PlaceInv, HoldsAt, Holding, Others
  <1>5. SelfAt(t)'
    <2>1. PlaceAt(t)'
      BY <1>1 DEF Inv, TypeOK, PlaceInv, PlaceAt, Transition, Waiting
    <2>2. HoldsAt(t)'
      BY <1>1 DEF Inv, TypeOK, PlaceInv, PlaceAt, HoldsAt, Holding, Transition, Waiting
    <2>3. FreshAt(t)'
      BY <1>1, <1>2, SameResults
      DEF Inv, TypeOK, PlaceInv, PlaceAt, FreshAt, GaveUp, Transition, Translated
    <2>4. QED
      BY <2>1, <2>2, <2>3 DEF SelfAt
  <1>6. Quiet(t)
    BY <1>1
    DEF Inv, TypeOK, PlaceInv, PlaceAt, Quiet, Watched, InTransition, Transition, Waiting
  <1>7. Inv'
    BY <1>3, <1>4, <1>5, <1>6, QuietInv
  <1>8. /\ pc[t] = "idle" /\ pc'[t] = "ret" /\ call[t] = "none"
        /\ call'[t] \in {"lock", "try_lock"} /\ old'[t] = phase
    <2>1. call[t] = "none"
      BY <1>1 DEF Inv, PlaceInv, PlaceAt
    <2>2. QED
      BY <1>1, <2>1 DEF Inv, TypeOK
  <1>9. /\ pcBar[t] = "idle" /\ pcBar'[t] = "ret" /\ callBar'[t] = call'[t]
        /\ oldBar'[t] = phase
    BY <1>2, <1>8, SameResults, SameRefusals
    DEF Transition, Translated, SeenIdle, Waiting, GaveUp, pcBar, callBar, oldBar, resBar
  <1>10. /\ resBar'[t] = LockRefusal(phase)
    BY <1>2, <1>8, ResShows, SameResults, SameRefusals DEF Translated
  <1>11. /\ pcBar'   = [pcBar   EXCEPT ![t] = "ret"]
         /\ callBar' = [callBar EXCEPT ![t] = call'[t]]
         /\ oldBar'  = [oldBar  EXCEPT ![t] = phase]
         /\ resBar'  = [resBar  EXCEPT ![t] = P!Cell!LockRefusal(phase)]
    BY <1>4, <1>7, <1>9, <1>10, OthersShow, SameRefusals
  <1>12. /\ phase \notin {PHASE_SETUP, PHASE_CLEANUP}
         /\ UNCHANGED <<phase, data_mutex, data_cell, holder, poisoned, forced, accidents>>
    BY <1>1
  <1>13. P!LockRefused(t)
    BY <1>8, <1>9, <1>11, <1>12
    DEF P!LockRefused, P!Cell!LockRefused, P!Cell!Lockable, P!Cell!Refuse, P!Cell!Enter,
        P!Cell!data, P!Cell!mutex, P!extra
  <1>14. QED
    BY <1>7, <1>13

\* Quiet: lock gets data_mutex.
LEMMA LockAcquireStep ==
  ASSUME Inv, NEW t \in Tasks, Base!LockAcquire(t), UNCHANGED waits
  PROVE  Inv' /\ P!LockAcquire(t)
  <1>1. /\ pc[t] = "lock" /\ call[t] \in {"lock", "try_lock"}
        /\ holder = Nobody /\ holder' = t
        /\ res' = [res EXCEPT ![t] = Missing(data_mutex, old[t])]
        /\ pc' = [pc EXCEPT ![t] = IF res'[t] = NoResult THEN "guard" ELSE "unlock"]
        /\ UNCHANGED <<phase, data_mutex, data_cell, poisoned, call, old, forced, accidents>>
        /\ UNCHANGED <<graceful_counter, result_w>>
    <2>1. PICK m \in {"lock", "try_lock"} :
             Base!Cell!Step(t, m, "lock",
                            IF Base!LockFault(t) = Base!NoResult THEN "guard" ELSE "unlock")
      BY DEF Base!LockAcquire
    <2>2. res' = [res EXCEPT ![t] = Missing(data_mutex, old[t])]
      BY Faults DEF Base!LockAcquire
    <2>3. /\ holder = Nobody /\ holder' = t
          /\ UNCHANGED <<phase, data_mutex, data_cell, poisoned, forced, accidents>>
      BY DEF Base!LockAcquire, Base!data, Base!extra
    <2>4. QED
      BY <2>1, <2>2, <2>3, Faults, SameResults DEF Inv, TypeOK, Base!Cell!Step, waits
  <1>2. /\ res'[t] \in Result /\ res'[t].kind # "GracefulWaitTimeout"
        /\ res' = [res EXCEPT ![t] = res'[t]]
        /\ res'[t] = Missing(data_mutex, old[t])
    BY <1>1, MissingType DEF Inv, TypeOK
  <1>3. TypeOK'
    BY <1>1, <1>2, GracefulAsyncAssumption
    DEF GracefulAsyncAssumption, Inv, TypeOK, GracefulPC, Base!AsyncPC, Base!Cell!PC,
        Cell!Method, PhaseCode
  <1>4. Others(t)
    BY <1>1, GracefulAsyncAssumption
    DEF GracefulAsyncAssumption, Inv, TypeOK, PlaceInv, HoldsAt, Holding, Others
  <1>5. SelfAt(t)'
    <2>1. PlaceAt(t)'
      BY <1>1 DEF Inv, TypeOK, PlaceInv, PlaceAt, Transition, Waiting
    <2>2. HoldsAt(t)'
      BY <1>1, GracefulAsyncAssumption
      DEF GracefulAsyncAssumption, Inv, TypeOK, PlaceInv, PlaceAt, HoldsAt, Holding, Transition,
          Waiting
    <2>3. FreshAt(t)'
      BY <1>1, <1>2, SameResults
      DEF Inv, TypeOK, PlaceInv, PlaceAt, FreshAt, GaveUp, Transition
    <2>4. QED
      BY <2>1, <2>2, <2>3 DEF SelfAt
  <1>6. Quiet(t)
    BY <1>1
    DEF Inv, TypeOK, PlaceInv, PlaceAt, Quiet, Watched, InTransition, Transition, Waiting
  <1>7. Inv'
    BY <1>3, <1>4, <1>5, <1>6, QuietInv
  <1>8. /\ pcBar[t] = "lock" /\ callBar[t] = call[t] /\ callBar'[t] = callBar[t]
        /\ oldBar[t] = old[t] /\ oldBar'[t] = oldBar[t]
        /\ pcBar'[t] = IF res'[t] = NoResult THEN "guard" ELSE "unlock"
    BY <1>1 DEF SeenIdle, Waiting, Inv, TypeOK, pcBar, callBar, oldBar
  <1>9. /\ resBar'[t] = res'[t] /\ res'[t] = Missing(data_mutex, old[t])
    <2>1. call'[t] # "read"
      BY <1>1
    <2>2. QED
      BY <1>2, <2>1, ResShows
  <1>10. QED
    BY <1>1, <1>2, <1>4, <1>7, <1>8, <1>9, OthersShow, Faults, MissingType, SameResults
    DEF P!LockAcquire, P!Cell!Step, P!data, P!mutex, P!extra

\* Quiet: try_lock finds data_mutex locked.
LEMMA TryLockFailsStep ==
  ASSUME Inv, NEW t \in Tasks, Base!TryLockFails(t), UNCHANGED waits
  PROVE  Inv' /\ P!TryLockFails(t)
  <1>1. /\ res'[t] \in Result /\ res'[t].kind \notin Translated
        /\ res' = [res EXCEPT ![t] = res'[t]]
        /\ res'[t] = Err(old[t], "MutexTryLockFailed")
    BY SameErr
    DEF Inv, TypeOK, Translated, PhasedErrorKind, Base!TryLockFails, Base!Cell!TryLockFails,
        Base!Cell!Step, Base!Cell!data, Base!Cell!mutex, Base!extra, waits
  <1>2. TypeOK'
    BY <1>1
    DEF Inv, TypeOK, GracefulPC, Base!AsyncPC, Base!Cell!PC, Cell!Method, PhaseCode,
        Base!TryLockFails, Base!Cell!TryLockFails, Base!Cell!Step, Base!Cell!data,
        Base!Cell!mutex, Base!extra, waits
  <1>3. Others(t)
    BY DEF Inv, TypeOK, PlaceInv, HoldsAt, Holding, Others, Base!TryLockFails,
       Base!Cell!TryLockFails, Base!Cell!Step, Base!Cell!data, Base!Cell!mutex, Base!extra,
       waits
  <1>4. SelfAt(t)'
    <2>1. PlaceAt(t)'
      BY DEF Inv, TypeOK, PlaceInv, PlaceAt, Transition, Waiting, Base!TryLockFails,
         Base!Cell!TryLockFails, Base!Cell!Step, Base!Cell!data, Base!Cell!mutex, Base!extra,
         waits
    <2>2. HoldsAt(t)'
      BY DEF Inv, TypeOK, PlaceInv, PlaceAt, HoldsAt, Holding, Transition, Waiting,
         Base!TryLockFails, Base!Cell!TryLockFails, Base!Cell!Step, Base!Cell!data,
         Base!Cell!mutex, Base!extra, waits
    <2>3. FreshAt(t)'
      BY <1>1, SameResults
      DEF Inv, TypeOK, PlaceInv, PlaceAt, FreshAt, GaveUp, Transition, Translated,
          Base!TryLockFails, Base!Cell!TryLockFails, Base!Cell!Step, Base!Cell!data,
          Base!Cell!mutex, Base!extra, waits
    <2>4. QED
      BY <2>1, <2>2, <2>3 DEF SelfAt
  <1>5. Quiet(t)
    BY DEF Inv, TypeOK, PlaceInv, PlaceAt, Quiet, Watched, InTransition, Transition, Waiting,
       Base!TryLockFails, Base!Cell!TryLockFails, Base!Cell!Step, Base!Cell!data,
       Base!Cell!mutex, Base!extra, waits
  <1>6. Inv'
    BY <1>2, <1>3, <1>4, <1>5, QuietInv
  <1>7. /\ pcBar[t] = "lock" /\ pcBar'[t] = "ret" /\ callBar[t] = "try_lock"
        /\ callBar'[t] = callBar[t] /\ oldBar[t] = old[t] /\ oldBar'[t] = oldBar[t]
    BY <1>1, SameResults, SameErr
    DEF Inv, TypeOK, PlaceInv, PlaceAt, HoldsAt, FreshAt, Holding, Transition, Translated,
        Base!TryLockFails, Base!Cell!TryLockFails, Base!Cell!Step, Base!Cell!data,
        Base!Cell!mutex, Base!extra, waits, SeenIdle, Waiting, GaveUp, pcBar, callBar, oldBar,
        resBar
  <1>8. /\ resBar'[t] = Err(old[t], "MutexTryLockFailed")
    BY <1>1, ResShows, SameResults, SameErr
    DEF Inv, TypeOK, PlaceInv, PlaceAt, FreshAt, GaveUp, Translated, Base!TryLockFails,
        Base!Cell!TryLockFails, Base!Cell!Step, Base!Cell!data, Base!Cell!mutex, Base!extra,
        waits
  <1>9. QED
    BY <1>1, <1>3, <1>6, <1>7, <1>8, OthersShow, SameErr, SameResults
    DEF Base!TryLockFails, Base!Cell!TryLockFails, Base!Cell!Step, Base!Cell!data,
        Base!Cell!mutex, Base!extra, waits, P!TryLockFails, P!Cell!TryLockFails, P!Cell!Step,
        P!Cell!data, P!Cell!mutex, P!extra

\* Quiet: a guard is dropped.
LEMMA GuardDropStep ==
  ASSUME Inv, NEW t \in Tasks, Base!GuardDrop(t), UNCHANGED waits
  PROVE  Inv' /\ P!GuardDrop(t)
  <1>1. /\ res'[t] \in Result /\ res'[t].kind \notin Translated
        /\ res' = [res EXCEPT ![t] = res'[t]]
    BY SameResults
    DEF Inv, TypeOK, Translated, Base!GuardDrop, Base!data, Base!mutex, Base!extra, waits
  <1>2. TypeOK'
    BY <1>1, GracefulAsyncAssumption
    DEF GracefulAsyncAssumption, Inv, TypeOK, GracefulPC, Base!AsyncPC, Base!Cell!PC,
        Cell!Method, PhaseCode, Base!GuardDrop, Base!data, Base!mutex, Base!extra, waits
  <1>3. Others(t)
    BY GracefulAsyncAssumption
    DEF GracefulAsyncAssumption, Inv, TypeOK, PlaceInv, HoldsAt, Holding, Others,
        Base!GuardDrop, Base!data, Base!mutex, Base!extra, waits
  <1>4. SelfAt(t)'
    <2>1. PlaceAt(t)'
      BY DEF Inv, TypeOK, PlaceInv, PlaceAt, Transition, Waiting, Base!GuardDrop, Base!data,
         Base!mutex, Base!extra, waits
    <2>2. HoldsAt(t)'
      BY GracefulAsyncAssumption
      DEF GracefulAsyncAssumption, Inv, TypeOK, PlaceInv, PlaceAt, HoldsAt, Holding, Transition,
          Waiting, Base!GuardDrop, Base!data, Base!mutex, Base!extra, waits
    <2>3. FreshAt(t)'
      BY <1>1, SameResults
      DEF Inv, TypeOK, PlaceInv, PlaceAt, FreshAt, GaveUp, Transition, Translated,
          Base!GuardDrop, Base!data, Base!mutex, Base!extra, waits
    <2>4. QED
      BY <2>1, <2>2, <2>3 DEF SelfAt
  <1>5. Quiet(t)
    BY DEF Inv, TypeOK, PlaceInv, PlaceAt, Quiet, Watched, InTransition, Transition, Waiting,
       Base!GuardDrop, Base!data, Base!mutex, Base!extra, waits
  <1>6. Inv'
    BY <1>2, <1>3, <1>4, <1>5, QuietInv
  <1>7. /\ pcBar[t] = "guard" /\ pcBar'[t] = "ret" /\ callBar'[t] = callBar[t]
        /\ oldBar'[t] = oldBar[t]
    BY <1>1, SameResults
    DEF Inv, TypeOK, PlaceInv, PlaceAt, HoldsAt, FreshAt, Holding, Transition, Translated,
        Base!GuardDrop, Base!data, Base!mutex, Base!extra, waits, SeenIdle, Waiting, GaveUp,
        pcBar, callBar, oldBar, resBar
  <1>8. /\ resBar'[t] = Ok
    BY <1>1, ResShows, SameResults
    DEF Inv, TypeOK, PlaceInv, PlaceAt, FreshAt, GaveUp, Translated, Base!GuardDrop, Base!data,
        Base!mutex, Base!extra, waits
  <1>9. QED
    BY <1>1, <1>3, <1>6, <1>7, <1>8, OthersShow, SameResults
    DEF Base!GuardDrop, Base!data, Base!mutex, Base!extra, waits, P!GuardDrop, P!data, P!mutex,
        P!extra

-----------------------------------------------------------------------------
(* What is the graceful cell's own: transitions and notifications *)

\* Publishing the outcome of a transition to Read: its owner has still to notify.
LEMMA ToReadCommitStep ==
  ASSUME Inv, NEW t \in Tasks, ToReadCommit(t)
  PROVE  Inv' /\ P!As(t, forced[t]) /\ P!Cell!ToReadCommit(t)
  <1>1. TypeOK'
    BY DEF Inv, TypeOK, GracefulPC, Base!AsyncPC, Base!Cell!PC, Cell!Method, PhaseCode,
       ToReadCommit, Cell!Step, Cell!change_phase, data, mutex, extra, waits
  <1>2. Others(t)
    BY DEF Inv, TypeOK, PlaceInv, HoldsAt, Holding, Others, ToReadCommit, Cell!Step,
       Cell!change_phase, data, mutex, extra, waits
  <1>3. SelfAt(t)'
    <2>1. PlaceAt(t)'
      BY DEF Inv, TypeOK, PlaceInv, PlaceAt, Transition, Waiting, ToReadCommit, Cell!Step,
         Cell!change_phase, data, mutex, extra, waits
    <2>2. HoldsAt(t)'
      BY DEF Inv, TypeOK, PlaceInv, PlaceAt, HoldsAt, Holding, Transition, Waiting,
         ToReadCommit, Cell!Step, Cell!change_phase, data, mutex, extra, waits
    <2>3. FreshAt(t)'
      BY SameResults
      DEF Inv, TypeOK, PlaceInv, PlaceAt, FreshAt, GaveUp, Transition, ToReadCommit, Cell!Step,
          Cell!change_phase, data, mutex, extra, waits
    <2>4. QED
      BY <2>1, <2>2, <2>3 DEF SelfAt
  <1>4. PlaceInv'
    BY <1>2, <1>3, OthersPlace
  <1>5. OwnerInv'
    <2>1. InTransition(t)' => InTransition(t) /\ call'[t] = call[t] /\ old'[t] = old[t]
      BY DEF Inv, TypeOK, PlaceInv, PlaceAt, InTransition, Transition, Waiting, ToReadCommit,
         Cell!Step, Cell!change_phase, data, mutex, extra, waits
    <2>2. phase' # phase => InTransition(t) /\ ~InTransition(t)'
      BY DEF Inv, TypeOK, PlaceInv, PlaceAt, InTransition, Transition, Waiting, ToReadCommit,
         Cell!Step, Cell!change_phase, data, mutex, extra, waits
    <2>3. QED
      BY <1>2, <2>1, <2>2, OwnerKept
  <1>6. CountInv'
    <2>1. Counted' = Counted /\ graceful_counter' = graceful_counter
      BY DEF Inv, TypeOK, PlaceInv, PlaceAt, Counted, ToReadCommit, Cell!Step,
         Cell!change_phase, data, mutex, extra, waits
    <2>2. QED
      BY <1>2, <2>1 DEF Inv, CountInv, Others
  <1>7. WakeInv'
    <2>1. TellsReaders(t) => TellsReaders(t)'
      BY DEF Inv, TypeOK, PlaceInv, PlaceAt, TellsReaders, NotifiesLocked, ToReadCommit,
         Cell!Step, Cell!change_phase, data, mutex, extra, waits
    <2>2. TellsCleanup(t) => TellsCleanup(t)' \/ phase # PHASE_READ_TO_CLEANUP
      BY DEF Inv, TypeOK, PlaceInv, PlaceAt, TellsCleanup, ToReadCommit, Cell!Step,
         Cell!change_phase, data, mutex, extra, waits
    <2>3. phase = PHASE_SETUP_TO_READ /\ phase' # PHASE_SETUP_TO_READ
            => "contended" \in accidents' \/ TellsReaders(t)'
      BY DEF Inv, TypeOK, PlaceInv, PlaceAt, OwnerInv, InTransition, Transition, TellsReaders,
         NotifiesLocked, Waiting, Via, ToReadCommit, Cell!Step, Cell!change_phase, data, mutex,
         extra, waits
    <2>4. graceful_counter # 0 /\ graceful_counter' = 0 => TellsCleanup(t)'
      BY DEF Inv, TypeOK, PlaceInv, PlaceAt, TellsCleanup, ToReadCommit, Cell!Step,
         Cell!change_phase, data, mutex, extra, waits
    <2>5. pc'[t] \in {"wait", "asleep"} =>
            \/ pc[t] \in {"wait", "asleep"} /\ call'[t] = call[t]
            \/ call'[t] = "transition_to_cleanup" /\ graceful_counter' # 0
            \/ call'[t] = "read" /\ phase' = PHASE_SETUP_TO_READ
      BY DEF Inv, TypeOK, PlaceInv, PlaceAt, ToReadCommit, Cell!Step, Cell!change_phase, data,
         mutex, extra, waits
    <2>6. QED
      BY <1>2, <2>1, <2>2, <2>3, <2>4, <2>5, WakeKept
  <1>8. Inv'
    BY <1>1, <1>4, <1>5, <1>6, <1>7 DEF Inv
  <1>9. /\ pcBar[t] = "commit" /\ pcBar'[t] = "unlock" /\ callBar[t] = "transition_to_read"
        /\ oldBar[t] = old[t] /\ callBar'[t] = callBar[t] /\ oldBar'[t] = oldBar[t]
    BY SameResults
    DEF Inv, TypeOK, PlaceInv, PlaceAt, HoldsAt, FreshAt, Holding, Transition, ToReadCommit,
        Cell!Step, Cell!change_phase, data, mutex, extra, waits, SeenIdle, Waiting, GaveUp,
        pcBar, callBar, oldBar, resBar
  <1>10. /\ resBar'[t] = resBar[t] /\ resBar[t] = res[t]
    BY ResShows, SameResults
    DEF Inv, TypeOK, PlaceInv, PlaceAt, FreshAt, GaveUp, Translated, ToReadCommit, Cell!Step,
        Cell!change_phase, data, mutex, extra, waits
  <1>11. /\ pcBar' = [pcBar EXCEPT ![t] = "unlock"]
         /\ callBar' = callBar /\ oldBar' = oldBar /\ resBar' = resBar
    BY <1>2, <1>8, <1>9, <1>10, OthersShow
  <1>12. /\ forced' = [forced EXCEPT ![t] = forced[t]]
         /\ (accidents \cap Base!Accident)' = accidents \cap Base!Accident
    BY DEF Inv, TypeOK, ToReadCommit, extra
  <1>13. /\ phase' = IF phase = PHASE_SETUP_TO_READ
                      THEN IF resBar[t] = P!Cell!Ok THEN PHASE_READ ELSE oldBar[t]
                      ELSE phase
         /\ UNCHANGED <<data_mutex, data_cell, holder, poisoned>>
    BY <1>9, <1>10, SameResults DEF ToReadCommit, Cell!change_phase, data, mutex
  <1>14. P!As(t, forced[t]) /\ P!Cell!ToReadCommit(t)
    BY <1>9, <1>11, <1>12, <1>13
    DEF P!As, P!Cell!ToReadCommit, P!Cell!change_phase, P!Cell!Step, P!Cell!data, P!Cell!mutex
  <1>15. QED
    BY <1>8, <1>14

\* notify_waiters wakes all who sleep; who is about to has missed it.
LEMMA NotifyStep ==
  ASSUME Inv, NEW t \in Tasks, Notify(t)
  PROVE  Inv' /\ UNCHANGED P!vars
  <1>1. TypeOK'
    BY DEF Inv, TypeOK, GracefulPC, Base!AsyncPC, Base!Cell!PC, Cell!Method, PhaseCode, Notify,
       NotifyWaiters, data, mutex, waits
  <1>2. Others(t)
    BY DEF Inv, TypeOK, PlaceInv, HoldsAt, Holding, Others, Notify, NotifyWaiters, data, mutex,
       waits
  <1>3. SelfAt(t)'
    <2>1. PlaceAt(t)'
      BY DEF Inv, TypeOK, PlaceInv, PlaceAt, Transition, Waiting, HoldsAt, Holding, Notify,
         NotifyWaiters, data, mutex, waits
    <2>2. HoldsAt(t)'
      BY DEF Inv, TypeOK, PlaceInv, PlaceAt, HoldsAt, Holding, Transition, Waiting, Notify,
         NotifyWaiters, data, mutex, waits
    <2>3. FreshAt(t)'
      BY SameResults
      DEF Inv, TypeOK, PlaceInv, PlaceAt, FreshAt, GaveUp, Transition, Notify, NotifyWaiters,
          data, mutex, waits
    <2>4. QED
      BY <2>1, <2>2, <2>3 DEF SelfAt
  <1>4. PlaceInv'
    BY <1>2, <1>3, OthersPlace
  <1>5. OwnerInv'
    <2>1. InTransition(t)' => InTransition(t) /\ call'[t] = call[t] /\ old'[t] = old[t]
      BY DEF Inv, TypeOK, PlaceInv, PlaceAt, InTransition, Transition, Waiting, Notify,
         NotifyWaiters, data, mutex, waits
    <2>2. phase' # phase => InTransition(t) /\ ~InTransition(t)'
      BY DEF Inv, TypeOK, PlaceInv, PlaceAt, InTransition, Transition, Waiting, Notify,
         NotifyWaiters, data, mutex, waits
    <2>3. QED
      BY <1>2, <2>1, <2>2, OwnerKept
  <1>6. CountInv'
    <2>1. Counted' = Counted /\ graceful_counter' = graceful_counter
      BY DEF Inv, TypeOK, PlaceInv, PlaceAt, Counted, Notify, NotifyWaiters, data, mutex, waits
    <2>2. QED
      BY <1>2, <2>1 DEF Inv, CountInv, Others
  <1>7. WakeInv'
    BY DEF Inv, TypeOK, PlaceInv, PlaceAt, WakeInv, Notify, NotifyWaiters
  <1>8. Inv'
    BY <1>1, <1>4, <1>5, <1>6, <1>7 DEF Inv
  <1>9. /\ pcBar'[t] = pcBar[t] /\ callBar'[t] = callBar[t] /\ oldBar'[t] = oldBar[t]
    BY SameResults
    DEF Inv, TypeOK, PlaceInv, PlaceAt, HoldsAt, FreshAt, Holding, Transition, Notify,
        NotifyWaiters, data, mutex, waits, SeenIdle, Waiting, GaveUp, pcBar, callBar, oldBar,
        resBar
  <1>10. /\ resBar'[t] = resBar[t]
    BY ResShows, SameResults
    DEF Inv, TypeOK, PlaceInv, PlaceAt, FreshAt, GaveUp, Translated, Notify, NotifyWaiters,
        data, mutex, waits
  <1>11. QED
    BY <1>2, <1>8, <1>9, <1>10, NoStep DEF Notify, NotifyWaiters, data, mutex, waits

\* data_mutex is released; a transition to Read that has not notified does so next.
LEMMA UnlockStep ==
  ASSUME Inv, NEW t \in Tasks, Unlock(t)
  PROVE  Inv' /\ P!Unlock(t)
  <1>1. TypeOK'
    BY GracefulAsyncAssumption
    DEF GracefulAsyncAssumption, Inv, TypeOK, GracefulPC, Base!AsyncPC, Base!Cell!PC,
        Cell!Method, PhaseCode, Unlock, data, mutex, extra, waits
  <1>2. Others(t)
    BY GracefulAsyncAssumption
    DEF GracefulAsyncAssumption, Inv, TypeOK, PlaceInv, HoldsAt, Holding, Others, Unlock, data,
        mutex, extra, waits
  <1>3. SelfAt(t)'
    <2>1. PlaceAt(t)'
      BY DEF Inv, TypeOK, PlaceInv, PlaceAt, Transition, Waiting, Unlock, data, mutex, extra,
         waits
    <2>2. HoldsAt(t)'
      BY GracefulAsyncAssumption
      DEF GracefulAsyncAssumption, Inv, TypeOK, PlaceInv, PlaceAt, HoldsAt, Holding, Transition,
          Waiting, Unlock, data, mutex, extra, waits
    <2>3. FreshAt(t)'
      BY SameResults
      DEF Inv, TypeOK, PlaceInv, PlaceAt, FreshAt, GaveUp, Transition, Unlock, data, mutex,
          extra, waits
    <2>4. QED
      BY <2>1, <2>2, <2>3 DEF SelfAt
  <1>4. PlaceInv'
    BY <1>2, <1>3, OthersPlace
  <1>5. OwnerInv'
    <2>1. InTransition(t)' => InTransition(t) /\ call'[t] = call[t] /\ old'[t] = old[t]
      BY DEF Inv, TypeOK, PlaceInv, PlaceAt, InTransition, Transition, Waiting, Unlock, data,
         mutex, extra, waits
    <2>2. phase' # phase => InTransition(t) /\ ~InTransition(t)'
      BY DEF Inv, TypeOK, PlaceInv, PlaceAt, InTransition, Transition, Waiting, Unlock, data,
         mutex, extra, waits
    <2>3. QED
      BY <1>2, <2>1, <2>2, OwnerKept
  <1>6. CountInv'
    <2>1. Counted' = Counted /\ graceful_counter' = graceful_counter
      BY DEF Inv, TypeOK, PlaceInv, PlaceAt, Counted, Unlock, data, mutex, extra, waits
    <2>2. QED
      BY <1>2, <2>1 DEF Inv, CountInv, Others
  <1>7. WakeInv'
    <2>1. TellsReaders(t) => TellsReaders(t)'
      BY DEF Inv, TypeOK, PlaceInv, PlaceAt, TellsReaders, NotifiesLocked, Unlock, data, mutex,
         extra, waits
    <2>2. TellsCleanup(t) => TellsCleanup(t)' \/ phase # PHASE_READ_TO_CLEANUP
      BY DEF Inv, TypeOK, PlaceInv, PlaceAt, TellsCleanup, Unlock, data, mutex, extra, waits
    <2>3. phase = PHASE_SETUP_TO_READ /\ phase' # PHASE_SETUP_TO_READ
            => "contended" \in accidents' \/ TellsReaders(t)'
      BY DEF Inv, TypeOK, PlaceInv, PlaceAt, OwnerInv, InTransition, Transition, TellsReaders,
         NotifiesLocked, Waiting, Via, Unlock, data, mutex, extra, waits
    <2>4. graceful_counter # 0 /\ graceful_counter' = 0 => TellsCleanup(t)'
      BY DEF Inv, TypeOK, PlaceInv, PlaceAt, TellsCleanup, Unlock, data, mutex, extra, waits
    <2>5. pc'[t] \in {"wait", "asleep"} =>
            \/ pc[t] \in {"wait", "asleep"} /\ call'[t] = call[t]
            \/ call'[t] = "transition_to_cleanup" /\ graceful_counter' # 0
            \/ call'[t] = "read" /\ phase' = PHASE_SETUP_TO_READ
      BY DEF Inv, TypeOK, PlaceInv, PlaceAt, Unlock, data, mutex, extra, waits
    <2>6. QED
      BY <1>2, <2>1, <2>2, <2>3, <2>4, <2>5, WakeKept
  <1>8. Inv'
    BY <1>1, <1>4, <1>5, <1>6, <1>7 DEF Inv
  <1>9. /\ pc[t] = "unlock" /\ pc'[t] \in {"notify", "ret"}
        /\ call[t] \notin {"read", "finish_reading"} /\ holder' # t /\ res'[t] = res[t]
        /\ call'[t] = call[t] /\ old'[t] = old[t]
    BY GracefulAsyncAssumption, SameResults
    DEF GracefulAsyncAssumption, Inv, TypeOK, PlaceInv, PlaceAt, HoldsAt, FreshAt, Holding,
        Transition, Waiting, GaveUp, Unlock, data, mutex, extra, waits
  <1>10. /\ pcBar[t] = "unlock" /\ pcBar'[t] = "ret" /\ callBar'[t] = callBar[t]
         /\ oldBar'[t] = oldBar[t]
    BY <1>9, SameResults
    DEF Transition, SeenIdle, Waiting, GaveUp, pcBar, callBar, oldBar, resBar
  <1>11. /\ resBar'[t] = resBar[t]
    BY <1>9, ResShows, SameResults DEF Translated
  <1>12. QED
    BY <1>2, <1>8, <1>10, <1>11, OthersShow, SameResults
    DEF Unlock, data, mutex, extra, waits, P!Unlock, P!Cell!Unlock, P!Cell!data, P!extra

\* Opening a transition to Cleanup from Read, to wait.
LEMMA GracefulToCleanupBeginStep ==
  ASSUME Inv, NEW t \in Tasks, ToCleanupBegin(t)
  PROVE  Inv' /\ P!As(t, FALSE) /\ P!Cell!ToCleanupBegin(t)
  <1>1. TypeOK'
    BY DEF Inv, TypeOK, GracefulPC, Base!AsyncPC, Base!Cell!PC, Cell!Method, PhaseCode,
       ToCleanupBegin, Cell!Enter, Via, data, mutex, extra, waits
  <1>2. Others(t)
    BY DEF Inv, TypeOK, PlaceInv, HoldsAt, Holding, Others, ToCleanupBegin, Cell!Enter, Via,
       data, mutex, extra, waits
  <1>3. SelfAt(t)'
    <2>1. PlaceAt(t)'
      BY DEF Inv, TypeOK, PlaceInv, PlaceAt, Transition, Waiting, ToCleanupBegin, Cell!Enter,
         Via, data, mutex, extra, waits
    <2>2. HoldsAt(t)'
      BY DEF Inv, TypeOK, PlaceInv, PlaceAt, HoldsAt, Holding, Transition, Waiting,
         ToCleanupBegin, Cell!Enter, Via, data, mutex, extra, waits
    <2>3. FreshAt(t)'
      BY SameResults
      DEF Inv, TypeOK, PlaceInv, PlaceAt, FreshAt, GaveUp, Transition, ToCleanupBegin,
          Cell!Enter, Via, data, mutex, extra, waits
    <2>4. QED
      BY <2>1, <2>2, <2>3 DEF SelfAt
  <1>4. PlaceInv'
    BY <1>2, <1>3, OthersPlace
  <1>5. OwnerInv'
    <2>1. phase \in {PHASE_SETUP, PHASE_READ, PHASE_CLEANUP}
      BY DEF ToCleanupBegin, Cell!Enter, Via, data, mutex, extra, waits
    <2>2. phase' = IF call'[t] = "transition_to_read" THEN PHASE_SETUP_TO_READ
                   ELSE Via(old'[t])
      BY DEF Inv, TypeOK, Via, ToCleanupBegin, Cell!Enter, data, mutex, extra, waits
    <2>3. QED
      BY <1>2, <2>1, <2>2, OwnerOpens
  <1>6. CountInv'
    <2>1. Counted' = Counted /\ graceful_counter' = graceful_counter
      BY DEF Inv, TypeOK, PlaceInv, PlaceAt, Counted, ToCleanupBegin, Cell!Enter, Via, data,
         mutex, extra, waits
    <2>2. QED
      BY <1>2, <2>1 DEF Inv, CountInv, Others
  <1>7. WakeInv'
    <2>1. TellsReaders(t) => TellsReaders(t)'
      BY DEF Inv, TypeOK, PlaceInv, PlaceAt, TellsReaders, NotifiesLocked, ToCleanupBegin,
         Cell!Enter, Via, data, mutex, extra, waits
    <2>2. TellsCleanup(t) => TellsCleanup(t)' \/ phase # PHASE_READ_TO_CLEANUP
      BY DEF Inv, TypeOK, PlaceInv, PlaceAt, TellsCleanup, ToCleanupBegin, Cell!Enter, Via,
         data, mutex, extra, waits
    <2>3. phase = PHASE_SETUP_TO_READ /\ phase' # PHASE_SETUP_TO_READ
            => "contended" \in accidents' \/ TellsReaders(t)'
      BY DEF Inv, TypeOK, PlaceInv, PlaceAt, OwnerInv, InTransition, Transition, TellsReaders,
         NotifiesLocked, Waiting, Via, ToCleanupBegin, Cell!Enter, data, mutex, extra, waits
    <2>4. graceful_counter # 0 /\ graceful_counter' = 0 => TellsCleanup(t)'
      BY DEF Inv, TypeOK, PlaceInv, PlaceAt, TellsCleanup, ToCleanupBegin, Cell!Enter, Via,
         data, mutex, extra, waits
    <2>5. pc'[t] \in {"wait", "asleep"} =>
            \/ pc[t] \in {"wait", "asleep"} /\ call'[t] = call[t]
            \/ call'[t] = "transition_to_cleanup" /\ graceful_counter' # 0
            \/ call'[t] = "read" /\ phase' = PHASE_SETUP_TO_READ
      BY DEF Inv, TypeOK, PlaceInv, PlaceAt, ToCleanupBegin, Cell!Enter, Via, data, mutex,
         extra, waits
    <2>6. QED
      BY <1>2, <2>1, <2>2, <2>3, <2>4, <2>5, WakeKept
  <1>8. Inv'
    BY <1>1, <1>4, <1>5, <1>6, <1>7 DEF Inv
  <1>9. /\ pcBar[t] = "idle" /\ pcBar'[t] = "lock" /\ callBar'[t] = "transition_to_cleanup"
        /\ oldBar'[t] = phase /\ forced[t] = FALSE
    BY SameResults
    DEF Inv, TypeOK, PlaceInv, PlaceAt, HoldsAt, FreshAt, Holding, Transition, ToCleanupBegin,
        Cell!Enter, Via, data, mutex, extra, waits, SeenIdle, Waiting, GaveUp, pcBar, callBar,
        oldBar, resBar
  <1>10. /\ resBar'[t] = resBar[t]
    BY ResShows, SameResults
    DEF Inv, TypeOK, PlaceInv, PlaceAt, FreshAt, GaveUp, Translated, ToCleanupBegin, Cell!Enter,
        Via, data, mutex, extra, waits
  <1>11. /\ pcBar'   = [pcBar   EXCEPT ![t] = "lock"]
         /\ callBar' = [callBar EXCEPT ![t] = "transition_to_cleanup"]
         /\ oldBar'  = [oldBar  EXCEPT ![t] = phase]
         /\ resBar'  = resBar
    BY <1>2, <1>8, <1>9, <1>10, OthersShow
  <1>12. /\ forced' = [forced EXCEPT ![t] = FALSE]
         /\ (accidents \cap Base!Accident)' = accidents \cap Base!Accident
    BY <1>9 DEF Inv, TypeOK, ToCleanupBegin, extra
  <1>13. /\ phase = PHASE_READ /\ phase' = P!Cell!Via(phase)
         /\ UNCHANGED <<data_mutex, data_cell, holder, poisoned>>
    BY DEF ToCleanupBegin, P!Cell!Via, data, mutex
  <1>14. P!As(t, FALSE) /\ P!Cell!ToCleanupBegin(t)
    BY <1>9, <1>11, <1>12, <1>13
    DEF P!As, P!Cell!ToCleanupBegin, P!Cell!Enter, P!Cell!data, P!Cell!mutex
  <1>15. QED
    BY <1>8, <1>14

\* A cleanup sleeps only while a reader is counted.
LEMMA CleanupCheckStep ==
  ASSUME Inv, NEW t \in Tasks, CleanupCheck(t)
  PROVE  Inv' /\ UNCHANGED P!vars
  <1>1. TypeOK'
    BY DEF Inv, TypeOK, GracefulPC, Base!AsyncPC, Base!Cell!PC, Cell!Method, PhaseCode,
       CleanupCheck, Cell!Step, data, mutex, extra, waits
  <1>2. Others(t)
    BY DEF Inv, TypeOK, PlaceInv, HoldsAt, Holding, Others, CleanupCheck, Cell!Step, data,
       mutex, extra, waits
  <1>3. SelfAt(t)'
    <2>1. PlaceAt(t)'
      BY DEF Inv, TypeOK, PlaceInv, PlaceAt, Transition, Waiting, CleanupCheck, Cell!Step, data,
         mutex, extra, waits
    <2>2. HoldsAt(t)'
      BY DEF Inv, TypeOK, PlaceInv, PlaceAt, HoldsAt, Holding, Transition, Waiting,
         CleanupCheck, Cell!Step, data, mutex, extra, waits
    <2>3. FreshAt(t)'
      BY SameResults
      DEF Inv, TypeOK, PlaceInv, PlaceAt, FreshAt, GaveUp, Transition, CleanupCheck, Cell!Step,
          data, mutex, extra, waits
    <2>4. QED
      BY <2>1, <2>2, <2>3 DEF SelfAt
  <1>4. PlaceInv'
    BY <1>2, <1>3, OthersPlace
  <1>5. OwnerInv'
    <2>1. InTransition(t)' => InTransition(t) /\ call'[t] = call[t] /\ old'[t] = old[t]
      BY DEF Inv, TypeOK, PlaceInv, PlaceAt, InTransition, Transition, Waiting, CleanupCheck,
         Cell!Step, data, mutex, extra, waits
    <2>2. phase' # phase => InTransition(t) /\ ~InTransition(t)'
      BY DEF Inv, TypeOK, PlaceInv, PlaceAt, InTransition, Transition, Waiting, CleanupCheck,
         Cell!Step, data, mutex, extra, waits
    <2>3. QED
      BY <1>2, <2>1, <2>2, OwnerKept
  <1>6. CountInv'
    <2>1. Counted' = Counted /\ graceful_counter' = graceful_counter
      BY DEF Inv, TypeOK, PlaceInv, PlaceAt, Counted, CleanupCheck, Cell!Step, data, mutex,
         extra, waits
    <2>2. QED
      BY <1>2, <2>1 DEF Inv, CountInv, Others
  <1>7. WakeInv'
    <2>1. TellsReaders(t) => TellsReaders(t)'
      BY DEF Inv, TypeOK, PlaceInv, PlaceAt, TellsReaders, NotifiesLocked, CleanupCheck,
         Cell!Step, data, mutex, extra, waits
    <2>2. TellsCleanup(t) => TellsCleanup(t)' \/ phase # PHASE_READ_TO_CLEANUP
      BY DEF Inv, TypeOK, PlaceInv, PlaceAt, TellsCleanup, CleanupCheck, Cell!Step, data, mutex,
         extra, waits
    <2>3. phase = PHASE_SETUP_TO_READ /\ phase' # PHASE_SETUP_TO_READ
            => "contended" \in accidents' \/ TellsReaders(t)'
      BY DEF Inv, TypeOK, PlaceInv, PlaceAt, OwnerInv, InTransition, Transition, TellsReaders,
         NotifiesLocked, Waiting, Via, CleanupCheck, Cell!Step, data, mutex, extra, waits
    <2>4. graceful_counter # 0 /\ graceful_counter' = 0 => TellsCleanup(t)'
      BY DEF Inv, TypeOK, PlaceInv, PlaceAt, TellsCleanup, CleanupCheck, Cell!Step, data, mutex,
         extra, waits
    <2>5. pc'[t] \in {"wait", "asleep"} =>
            \/ pc[t] \in {"wait", "asleep"} /\ call'[t] = call[t]
            \/ call'[t] = "transition_to_cleanup" /\ graceful_counter' # 0
            \/ call'[t] = "read" /\ phase' = PHASE_SETUP_TO_READ
      BY DEF Inv, TypeOK, PlaceInv, PlaceAt, CleanupCheck, Cell!Step, data, mutex, extra, waits
    <2>6. QED
      BY <1>2, <2>1, <2>2, <2>3, <2>4, <2>5, WakeKept
  <1>8. Inv'
    BY <1>1, <1>4, <1>5, <1>6, <1>7 DEF Inv
  <1>9. /\ pcBar'[t] = pcBar[t] /\ callBar'[t] = callBar[t] /\ oldBar'[t] = oldBar[t]
    BY SameResults
    DEF Inv, TypeOK, PlaceInv, PlaceAt, HoldsAt, FreshAt, Holding, Transition, CleanupCheck,
        Cell!Step, data, mutex, extra, waits, SeenIdle, Waiting, GaveUp, pcBar, callBar, oldBar,
        resBar
  <1>10. /\ resBar'[t] = resBar[t]
    BY ResShows, SameResults
    DEF Inv, TypeOK, PlaceInv, PlaceAt, FreshAt, GaveUp, Translated, CleanupCheck, Cell!Step,
        data, mutex, extra, waits
  <1>11. QED
    BY <1>2, <1>8, <1>9, <1>10, NoStep DEF CleanupCheck, Cell!Step, data, mutex, extra, waits

\* A task goes to sleep.
LEMMA WaitSleepStep ==
  ASSUME Inv, NEW t \in Tasks, WaitSleep(t)
  PROVE  Inv' /\ UNCHANGED P!vars
  <1>1. TypeOK'
    BY DEF Inv, TypeOK, GracefulPC, Base!AsyncPC, Base!Cell!PC, Cell!Method, PhaseCode,
       WaitSleep, data, mutex, extra, waits
  <1>2. Others(t)
    BY DEF Inv, TypeOK, PlaceInv, HoldsAt, Holding, Others, WaitSleep, data, mutex, extra, waits
  <1>3. SelfAt(t)'
    <2>1. PlaceAt(t)'
      BY DEF Inv, TypeOK, PlaceInv, PlaceAt, Transition, Waiting, WaitSleep, data, mutex, extra,
         waits
    <2>2. HoldsAt(t)'
      BY DEF Inv, TypeOK, PlaceInv, PlaceAt, HoldsAt, Holding, Transition, Waiting, WaitSleep,
         data, mutex, extra, waits
    <2>3. FreshAt(t)'
      BY SameResults
      DEF Inv, TypeOK, PlaceInv, PlaceAt, FreshAt, GaveUp, Transition, WaitSleep, data, mutex,
          extra, waits
    <2>4. QED
      BY <2>1, <2>2, <2>3 DEF SelfAt
  <1>4. PlaceInv'
    BY <1>2, <1>3, OthersPlace
  <1>5. OwnerInv'
    <2>1. InTransition(t)' => InTransition(t) /\ call'[t] = call[t] /\ old'[t] = old[t]
      BY DEF Inv, TypeOK, PlaceInv, PlaceAt, InTransition, Transition, Waiting, WaitSleep, data,
         mutex, extra, waits
    <2>2. phase' # phase => InTransition(t) /\ ~InTransition(t)'
      BY DEF Inv, TypeOK, PlaceInv, PlaceAt, InTransition, Transition, Waiting, WaitSleep, data,
         mutex, extra, waits
    <2>3. QED
      BY <1>2, <2>1, <2>2, OwnerKept
  <1>6. CountInv'
    <2>1. Counted' = Counted /\ graceful_counter' = graceful_counter
      BY DEF Inv, TypeOK, PlaceInv, PlaceAt, Counted, WaitSleep, data, mutex, extra, waits
    <2>2. QED
      BY <1>2, <2>1 DEF Inv, CountInv, Others
  <1>7. WakeInv'
    <2>1. TellsReaders(t) => TellsReaders(t)'
      BY DEF Inv, TypeOK, PlaceInv, PlaceAt, TellsReaders, NotifiesLocked, WaitSleep, data,
         mutex, extra, waits
    <2>2. TellsCleanup(t) => TellsCleanup(t)' \/ phase # PHASE_READ_TO_CLEANUP
      BY DEF Inv, TypeOK, PlaceInv, PlaceAt, TellsCleanup, WaitSleep, data, mutex, extra, waits
    <2>3. phase = PHASE_SETUP_TO_READ /\ phase' # PHASE_SETUP_TO_READ
            => "contended" \in accidents' \/ TellsReaders(t)'
      BY DEF Inv, TypeOK, PlaceInv, PlaceAt, OwnerInv, InTransition, Transition, TellsReaders,
         NotifiesLocked, Waiting, Via, WaitSleep, data, mutex, extra, waits
    <2>4. graceful_counter # 0 /\ graceful_counter' = 0 => TellsCleanup(t)'
      BY DEF Inv, TypeOK, PlaceInv, PlaceAt, TellsCleanup, WaitSleep, data, mutex, extra, waits
    <2>5. pc'[t] \in {"wait", "asleep"} =>
            \/ pc[t] \in {"wait", "asleep"} /\ call'[t] = call[t]
            \/ call'[t] = "transition_to_cleanup" /\ graceful_counter' # 0
            \/ call'[t] = "read" /\ phase' = PHASE_SETUP_TO_READ
      BY DEF Inv, TypeOK, PlaceInv, PlaceAt, WaitSleep, data, mutex, extra, waits
    <2>6. QED
      BY <1>2, <2>1, <2>2, <2>3, <2>4, <2>5, WakeKept
  <1>8. Inv'
    BY <1>1, <1>4, <1>5, <1>6, <1>7 DEF Inv
  <1>9. /\ pcBar'[t] = pcBar[t] /\ callBar'[t] = callBar[t] /\ oldBar'[t] = oldBar[t]
    BY SameResults
    DEF Inv, TypeOK, PlaceInv, PlaceAt, HoldsAt, FreshAt, Holding, Transition, WaitSleep, data,
        mutex, extra, waits, SeenIdle, Waiting, GaveUp, pcBar, callBar, oldBar, resBar
  <1>10. /\ resBar'[t] = resBar[t]
    BY ResShows, SameResults
    DEF Inv, TypeOK, PlaceInv, PlaceAt, FreshAt, GaveUp, Translated, WaitSleep, data, mutex,
        extra, waits
  <1>11. QED
    BY <1>2, <1>8, <1>9, <1>10, NoStep DEF WaitSleep, data, mutex, extra, waits

\* A task that was notified is polled.
LEMMA WaitPollStep ==
  ASSUME Inv, NEW t \in Tasks, WaitPoll(t)
  PROVE  Inv' /\ UNCHANGED P!vars
  <1>1. TypeOK'
    BY DEF Inv, TypeOK, GracefulPC, Base!AsyncPC, Base!Cell!PC, Cell!Method, PhaseCode,
       WaitPoll, data, mutex, extra, waits
  <1>2. Others(t)
    BY DEF Inv, TypeOK, PlaceInv, HoldsAt, Holding, Others, WaitPoll, data, mutex, extra, waits
  <1>3. SelfAt(t)'
    <2>1. PlaceAt(t)'
      BY DEF Inv, TypeOK, PlaceInv, PlaceAt, Transition, Waiting, WaitPoll, data, mutex, extra,
         waits
    <2>2. HoldsAt(t)'
      BY DEF Inv, TypeOK, PlaceInv, PlaceAt, HoldsAt, Holding, Transition, Waiting, WaitPoll,
         data, mutex, extra, waits
    <2>3. FreshAt(t)'
      BY SameResults
      DEF Inv, TypeOK, PlaceInv, PlaceAt, FreshAt, GaveUp, Transition, WaitPoll, data, mutex,
          extra, waits
    <2>4. QED
      BY <2>1, <2>2, <2>3 DEF SelfAt
  <1>4. PlaceInv'
    BY <1>2, <1>3, OthersPlace
  <1>5. OwnerInv'
    <2>1. InTransition(t)' => InTransition(t) /\ call'[t] = call[t] /\ old'[t] = old[t]
      BY DEF Inv, TypeOK, PlaceInv, PlaceAt, InTransition, Transition, Waiting, WaitPoll, data,
         mutex, extra, waits
    <2>2. phase' # phase => InTransition(t) /\ ~InTransition(t)'
      BY DEF Inv, TypeOK, PlaceInv, PlaceAt, InTransition, Transition, Waiting, WaitPoll, data,
         mutex, extra, waits
    <2>3. QED
      BY <1>2, <2>1, <2>2, OwnerKept
  <1>6. CountInv'
    <2>1. Counted' = Counted /\ graceful_counter' = graceful_counter
      BY DEF Inv, TypeOK, PlaceInv, PlaceAt, Counted, WaitPoll, data, mutex, extra, waits
    <2>2. QED
      BY <1>2, <2>1 DEF Inv, CountInv, Others
  <1>7. WakeInv'
    <2>1. TellsReaders(t) => TellsReaders(t)'
      BY DEF Inv, TypeOK, PlaceInv, PlaceAt, TellsReaders, NotifiesLocked, WaitPoll, data,
         mutex, extra, waits
    <2>2. TellsCleanup(t) => TellsCleanup(t)' \/ phase # PHASE_READ_TO_CLEANUP
      BY DEF Inv, TypeOK, PlaceInv, PlaceAt, TellsCleanup, WaitPoll, data, mutex, extra, waits
    <2>3. phase = PHASE_SETUP_TO_READ /\ phase' # PHASE_SETUP_TO_READ
            => "contended" \in accidents' \/ TellsReaders(t)'
      BY DEF Inv, TypeOK, PlaceInv, PlaceAt, OwnerInv, InTransition, Transition, TellsReaders,
         NotifiesLocked, Waiting, Via, WaitPoll, data, mutex, extra, waits
    <2>4. graceful_counter # 0 /\ graceful_counter' = 0 => TellsCleanup(t)'
      BY DEF Inv, TypeOK, PlaceInv, PlaceAt, TellsCleanup, WaitPoll, data, mutex, extra, waits
    <2>5. pc'[t] \in {"wait", "asleep"} =>
            \/ pc[t] \in {"wait", "asleep"} /\ call'[t] = call[t]
            \/ call'[t] = "transition_to_cleanup" /\ graceful_counter' # 0
            \/ call'[t] = "read" /\ phase' = PHASE_SETUP_TO_READ
      BY DEF Inv, TypeOK, PlaceInv, PlaceAt, WaitPoll, data, mutex, extra, waits
    <2>6. QED
      BY <1>2, <2>1, <2>2, <2>3, <2>4, <2>5, WakeKept
  <1>8. Inv'
    BY <1>1, <1>4, <1>5, <1>6, <1>7 DEF Inv
  <1>9. /\ pcBar'[t] = pcBar[t] /\ callBar'[t] = callBar[t] /\ oldBar'[t] = oldBar[t]
    BY SameResults
    DEF Inv, TypeOK, PlaceInv, PlaceAt, HoldsAt, FreshAt, Holding, Transition, WaitPoll, data,
        mutex, extra, waits, SeenIdle, Waiting, GaveUp, pcBar, callBar, oldBar, resBar
  <1>10. /\ resBar'[t] = resBar[t]
    BY ResShows, SameResults
    DEF Inv, TypeOK, PlaceInv, PlaceAt, FreshAt, GaveUp, Translated, WaitPoll, data, mutex,
        extra, waits
  <1>11. QED
    BY <1>2, <1>8, <1>9, <1>10, NoStep DEF WaitPoll, data, mutex, extra, waits

\* A wait is over without a notification.
LEMMA WaitTimeoutStep ==
  ASSUME Inv, NEW t \in Tasks, WaitTimeout(t)
  PROVE  Inv' /\ UNCHANGED P!vars
  <1>1. /\ pc[t] = "asleep"
        /\ pc' = [pc EXCEPT ![t] = IF call[t] = "read" THEN "ret" ELSE "lock"]
        /\ res' = [res EXCEPT ![t] = IF call[t] = "read"
                                   THEN Err(PHASE_SETUP_TO_READ, "GracefulWaitTimeout")
                                   ELSE res[t]]
        /\ result_w' = [result_w EXCEPT ![t] = IF call[t] = "read" THEN result_w[t]
                                             ELSE "Timeout"]
        /\ UNCHANGED <<phase, data_mutex, data_cell, holder, poisoned, call, old, forced>>
        /\ UNCHANGED <<accidents, graceful_counter>>
    BY DEF Inv, TypeOK, WaitTimeout, data, mutex, extra, waits
  <1>2. /\ res'[t] \in Result
        /\ res'[t] = IF call[t] = "read" THEN Err(PHASE_SETUP_TO_READ, "GracefulWaitTimeout")
                                        ELSE res[t]
    BY <1>1, SameErr DEF Inv, TypeOK, Translated, PhasedErrorKind
  <1>3. TypeOK'
    BY <1>1, <1>2
    DEF Inv, TypeOK, GracefulPC, Base!AsyncPC, Base!Cell!PC, Cell!Method, PhaseCode
  <1>4. Others(t)
    BY <1>1 DEF Inv, TypeOK, PlaceInv, HoldsAt, Holding, Others
  <1>5. SelfAt(t)'
    <2>1. PlaceAt(t)'
      BY <1>1 DEF Inv, TypeOK, PlaceInv, PlaceAt, Transition, Waiting
    <2>2. HoldsAt(t)'
      BY <1>1 DEF Inv, TypeOK, PlaceInv, PlaceAt, HoldsAt, Holding, Transition, Waiting
    <2>3. FreshAt(t)'
      BY <1>1, <1>2, SameResults
      DEF Inv, TypeOK, PlaceInv, PlaceAt, FreshAt, GaveUp, Transition, Translated
    <2>4. QED
      BY <2>1, <2>2, <2>3 DEF SelfAt
  <1>6. PlaceInv'
    BY <1>4, <1>5, OthersPlace
  <1>7. OwnerInv'
    <2>1. InTransition(t)' => InTransition(t) /\ call'[t] = call[t] /\ old'[t] = old[t]
      BY <1>1 DEF Inv, TypeOK, PlaceInv, PlaceAt, InTransition, Transition, Waiting
    <2>2. phase' # phase => InTransition(t) /\ ~InTransition(t)'
      BY <1>1 DEF Inv, TypeOK, PlaceInv, PlaceAt, InTransition, Transition, Waiting
    <2>3. QED
      BY <1>4, <2>1, <2>2, OwnerKept
  <1>8. CountInv'
    <2>1. Counted' = Counted /\ graceful_counter' = graceful_counter
      BY <1>1 DEF Inv, TypeOK, PlaceInv, PlaceAt, Counted
    <2>2. QED
      BY <1>4, <2>1 DEF Inv, CountInv, Others
  <1>9. WakeInv'
    <2>1. TellsReaders(t) => TellsReaders(t)'
      BY <1>1, <1>2, SameResults
      DEF Inv, TypeOK, PlaceInv, PlaceAt, TellsReaders, NotifiesLocked
    <2>2. TellsCleanup(t) => TellsCleanup(t)' \/ phase # PHASE_READ_TO_CLEANUP
      BY <1>1 DEF Inv, TypeOK, PlaceInv, PlaceAt, TellsCleanup
    <2>3. phase = PHASE_SETUP_TO_READ /\ phase' # PHASE_SETUP_TO_READ
            => "contended" \in accidents' \/ TellsReaders(t)'
      BY <1>1, <1>2, SameResults
      DEF Inv, TypeOK, PlaceInv, PlaceAt, OwnerInv, InTransition, Transition, TellsReaders,
          NotifiesLocked, Waiting, Via
    <2>4. graceful_counter # 0 /\ graceful_counter' = 0 => TellsCleanup(t)'
      BY <1>1 DEF Inv, TypeOK, PlaceInv, PlaceAt, TellsCleanup
    <2>5. pc'[t] \in {"wait", "asleep"} =>
            \/ pc[t] \in {"wait", "asleep"} /\ call'[t] = call[t]
            \/ call'[t] = "transition_to_cleanup" /\ graceful_counter' # 0
            \/ call'[t] = "read" /\ phase' = PHASE_SETUP_TO_READ
      BY <1>1 DEF Inv, TypeOK, PlaceInv, PlaceAt
    <2>6. QED
      BY <1>4, <2>1, <2>2, <2>3, <2>4, <2>5, WakeKept
  <1>10. Inv'
    BY <1>3, <1>6, <1>7, <1>8, <1>9 DEF Inv
  <1>11. /\ pc[t] = "asleep" /\ pc'[t] = IF call[t] = "read" THEN "ret" ELSE "lock"
         /\ call[t] \in {"read", "transition_to_cleanup"} /\ call'[t] = call[t]
         /\ old'[t] = old[t] /\ res[t] = NoResult
    BY <1>1, <1>2, SameResults, SameErr
    DEF Inv, TypeOK, PlaceInv, PlaceAt, HoldsAt, FreshAt, Holding, Transition, Waiting
  <1>12. /\ pcBar'[t] = pcBar[t] /\ callBar'[t] = callBar[t] /\ oldBar'[t] = oldBar[t]
    BY <1>2, <1>11, SameResults, SameErr
    DEF Transition, Translated, SeenIdle, Waiting, GaveUp, pcBar, callBar, oldBar, resBar
  <1>13. /\ resBar'[t] = resBar[t]
    BY <1>2, <1>11, ResShows, SameResults, SameErr DEF GaveUp, resBar
  <1>14. QED
    <2>1. UNCHANGED <<phase, data, mutex, forced>>
      BY <1>1 DEF data, mutex
    <2>2. accidents' \subseteq accidents \cup {"missed", "surplus"}
      BY <1>1
    <2>3. QED
      BY <1>4, <1>10, <1>12, <1>13, <2>1, <2>2, NoStep

-----------------------------------------------------------------------------
(* read_async, read_relaxed and finish_reading *)

\* A reader waits: it has not called yet.
LEMMA ReadWaitStep ==
  ASSUME Inv, NEW t \in Tasks, ReadWait(t)
  PROVE  Inv' /\ UNCHANGED P!vars
  <1>1. TypeOK'
    BY DEF Inv, TypeOK, GracefulPC, Base!AsyncPC, Base!Cell!PC, Cell!Method, PhaseCode,
       ReadWait, Cell!Enter, data, mutex, extra, waits
  <1>2. Others(t)
    BY DEF Inv, TypeOK, PlaceInv, HoldsAt, Holding, Others, ReadWait, Cell!Enter, data, mutex,
       extra, waits
  <1>3. SelfAt(t)'
    <2>1. PlaceAt(t)'
      BY DEF Inv, TypeOK, PlaceInv, PlaceAt, Transition, Waiting, ReadWait, Cell!Enter, data,
         mutex, extra, waits
    <2>2. HoldsAt(t)'
      BY DEF Inv, TypeOK, PlaceInv, PlaceAt, HoldsAt, Holding, Transition, Waiting, ReadWait,
         Cell!Enter, data, mutex, extra, waits
    <2>3. FreshAt(t)'
      BY SameResults
      DEF Inv, TypeOK, PlaceInv, PlaceAt, FreshAt, GaveUp, Transition, ReadWait, Cell!Enter,
          data, mutex, extra, waits
    <2>4. QED
      BY <2>1, <2>2, <2>3 DEF SelfAt
  <1>4. PlaceInv'
    BY <1>2, <1>3, OthersPlace
  <1>5. OwnerInv'
    <2>1. InTransition(t)' => InTransition(t) /\ call'[t] = call[t] /\ old'[t] = old[t]
      BY DEF Inv, TypeOK, PlaceInv, PlaceAt, InTransition, Transition, Waiting, ReadWait,
         Cell!Enter, data, mutex, extra, waits
    <2>2. phase' # phase => InTransition(t) /\ ~InTransition(t)'
      BY DEF Inv, TypeOK, PlaceInv, PlaceAt, InTransition, Transition, Waiting, ReadWait,
         Cell!Enter, data, mutex, extra, waits
    <2>3. QED
      BY <1>2, <2>1, <2>2, OwnerKept
  <1>6. CountInv'
    <2>1. Counted' = Counted /\ graceful_counter' = graceful_counter
      BY DEF Inv, TypeOK, PlaceInv, PlaceAt, Counted, ReadWait, Cell!Enter, data, mutex, extra,
         waits
    <2>2. QED
      BY <1>2, <2>1 DEF Inv, CountInv, Others
  <1>7. WakeInv'
    <2>1. TellsReaders(t) => TellsReaders(t)'
      BY DEF Inv, TypeOK, PlaceInv, PlaceAt, TellsReaders, NotifiesLocked, ReadWait, Cell!Enter,
         data, mutex, extra, waits
    <2>2. TellsCleanup(t) => TellsCleanup(t)' \/ phase # PHASE_READ_TO_CLEANUP
      BY DEF Inv, TypeOK, PlaceInv, PlaceAt, TellsCleanup, ReadWait, Cell!Enter, data, mutex,
         extra, waits
    <2>3. phase = PHASE_SETUP_TO_READ /\ phase' # PHASE_SETUP_TO_READ
            => "contended" \in accidents' \/ TellsReaders(t)'
      BY DEF Inv, TypeOK, PlaceInv, PlaceAt, OwnerInv, InTransition, Transition, TellsReaders,
         NotifiesLocked, Waiting, Via, ReadWait, Cell!Enter, data, mutex, extra, waits
    <2>4. graceful_counter # 0 /\ graceful_counter' = 0 => TellsCleanup(t)'
      BY DEF Inv, TypeOK, PlaceInv, PlaceAt, TellsCleanup, ReadWait, Cell!Enter, data, mutex,
         extra, waits
    <2>5. pc'[t] \in {"wait", "asleep"} =>
            \/ pc[t] \in {"wait", "asleep"} /\ call'[t] = call[t]
            \/ call'[t] = "transition_to_cleanup" /\ graceful_counter' # 0
            \/ call'[t] = "read" /\ phase' = PHASE_SETUP_TO_READ
      BY DEF Inv, TypeOK, PlaceInv, PlaceAt, ReadWait, Cell!Enter, data, mutex, extra, waits
    <2>6. QED
      BY <1>2, <2>1, <2>2, <2>3, <2>4, <2>5, WakeKept
  <1>8. Inv'
    BY <1>1, <1>4, <1>5, <1>6, <1>7 DEF Inv
  <1>9. /\ pcBar'[t] = pcBar[t] /\ callBar'[t] = callBar[t] /\ oldBar'[t] = oldBar[t]
    BY SameResults
    DEF Inv, TypeOK, PlaceInv, PlaceAt, HoldsAt, FreshAt, Holding, Transition, ReadWait,
        Cell!Enter, data, mutex, extra, waits, SeenIdle, Waiting, GaveUp, pcBar, callBar,
        oldBar, resBar
  <1>10. /\ resBar'[t] = resBar[t]
    BY ResShows, SameResults
    DEF Inv, TypeOK, PlaceInv, PlaceAt, FreshAt, GaveUp, Translated, ReadWait, Cell!Enter, data,
        mutex, extra, waits
  <1>11. QED
    BY <1>2, <1>8, <1>9, <1>10, NoStep DEF ReadWait, Cell!Enter, data, mutex, extra, waits

\* Quiet: read goes on at once.
LEMMA ReadBeginStep ==
  ASSUME Inv, NEW t \in Tasks, Cell!ReadBegin(t), UNCHANGED <<extra, waits>>
  PROVE  Inv' /\ P!Cell!ReadBegin(t) /\ UNCHANGED P!extra
  <1>1. TypeOK'
    BY DEF Inv, TypeOK, GracefulPC, Base!AsyncPC, Base!Cell!PC, Cell!Method, PhaseCode,
       Cell!ReadBegin, Cell!Enter, Cell!data, Cell!mutex, extra, waits
  <1>2. Others(t)
    BY DEF Inv, TypeOK, PlaceInv, HoldsAt, Holding, Others, Cell!ReadBegin, Cell!Enter,
       Cell!data, Cell!mutex, extra, waits
  <1>3. SelfAt(t)'
    <2>1. PlaceAt(t)'
      BY DEF Inv, TypeOK, PlaceInv, PlaceAt, Transition, Waiting, Cell!ReadBegin, Cell!Enter,
         Cell!data, Cell!mutex, extra, waits
    <2>2. HoldsAt(t)'
      BY DEF Inv, TypeOK, PlaceInv, PlaceAt, HoldsAt, Holding, Transition, Waiting,
         Cell!ReadBegin, Cell!Enter, Cell!data, Cell!mutex, extra, waits
    <2>3. FreshAt(t)'
      BY SameResults
      DEF Inv, TypeOK, PlaceInv, PlaceAt, FreshAt, GaveUp, Transition, Cell!ReadBegin,
          Cell!Enter, Cell!data, Cell!mutex, extra, waits
    <2>4. QED
      BY <2>1, <2>2, <2>3 DEF SelfAt
  <1>4. Quiet(t)
    BY DEF Inv, TypeOK, PlaceInv, PlaceAt, Quiet, Watched, InTransition, Transition, Waiting,
       Cell!ReadBegin, Cell!Enter, Cell!data, Cell!mutex, extra, waits
  <1>5. Inv'
    BY <1>1, <1>2, <1>3, <1>4, QuietInv
  <1>6. /\ pcBar[t] = "idle" /\ pcBar'[t] = "look" /\ callBar'[t] = "read"
        /\ oldBar'[t] = phase
    BY SameResults
    DEF Inv, TypeOK, PlaceInv, PlaceAt, HoldsAt, FreshAt, Holding, Transition, Cell!ReadBegin,
        Cell!Enter, Cell!data, Cell!mutex, extra, waits, SeenIdle, Waiting, GaveUp, pcBar,
        callBar, oldBar, resBar
  <1>7. /\ resBar'[t] = resBar[t]
    BY ResShows, SameResults
    DEF Inv, TypeOK, PlaceInv, PlaceAt, FreshAt, GaveUp, Translated, Cell!ReadBegin, Cell!Enter,
        Cell!data, Cell!mutex, extra, waits
  <1>8. QED
    BY <1>2, <1>5, <1>6, <1>7, OthersShow, SameResults
    DEF Cell!ReadBegin, Cell!Enter, Cell!data, Cell!mutex, extra, waits, P!Cell!ReadBegin,
        P!Cell!Enter, P!Cell!data, P!Cell!mutex, P!extra

\* Quiet: a refusal.
LEMMA ReadRefusedStep ==
  ASSUME Inv, NEW t \in Tasks, Cell!ReadRefused(t), UNCHANGED <<extra, waits>>
  PROVE  Inv' /\ P!Cell!ReadRefused(t) /\ UNCHANGED P!extra
  <1>1. /\ phase # PHASE_READ /\ pc[t] = "idle" /\ pc' = [pc EXCEPT ![t] = "ret"]
        /\ call' = [call EXCEPT ![t] = "read"] /\ old' = [old EXCEPT ![t] = phase]
        /\ res' = [res EXCEPT ![t] = Err(phase, "CannotCallUnlessPhaseRead")]
        /\ UNCHANGED <<phase, data_mutex, data_cell, holder, poisoned, forced, accidents>>
        /\ UNCHANGED <<graceful_counter, result_w>>
    BY SameErr
    DEF Cell!ReadRefused, Cell!Refuse, Cell!Enter, Cell!data, Cell!mutex, extra, waits
  <1>2. /\ res'[t] \in Result /\ res'[t].kind \notin Translated
        /\ res' = [res EXCEPT ![t] = res'[t]]
        /\ res'[t] = Err(phase, "CannotCallUnlessPhaseRead")
    BY <1>1, SameErr DEF Inv, TypeOK, Translated, PhasedErrorKind
  <1>3. TypeOK'
    <2>1. res' \in [Tasks -> Result]
      BY <1>1, <1>2 DEF Inv, TypeOK
    <2>2. "ret" \in GracefulPC /\ "read" \in GracefulMethod
      BY DEF GracefulPC, Base!AsyncPC, Base!Cell!PC, Cell!Method, GracefulMethod
    <2>3. TypeAtEntry'
      BY <1>1, <2>2, EntryType
    <2>4. QED
      BY <1>1, <2>1, <2>3 DEF Inv, TypeOK, TypeAtEntry, GracefulMethod
  <1>4. Others(t)
    BY <1>1 DEF Inv, TypeOK, PlaceInv, HoldsAt, Holding, Others
  <1>5. SelfAt(t)'
    <2>1. PlaceAt(t)'
      BY <1>1 DEF Inv, TypeOK, PlaceInv, PlaceAt, Transition, Waiting
    <2>2. HoldsAt(t)'
      BY <1>1 DEF Inv, TypeOK, PlaceInv, PlaceAt, HoldsAt, Holding, Transition, Waiting
    <2>3. FreshAt(t)'
      BY <1>1, <1>2, SameResults
      DEF Inv, TypeOK, PlaceInv, PlaceAt, FreshAt, GaveUp, Transition, Translated
    <2>4. QED
      BY <2>1, <2>2, <2>3 DEF SelfAt
  <1>6. Quiet(t)
    BY <1>1
    DEF Inv, TypeOK, PlaceInv, PlaceAt, Quiet, Watched, InTransition, Transition, Waiting
  <1>7. Inv'
    BY <1>3, <1>4, <1>5, <1>6, QuietInv
  <1>8. /\ pc[t] = "idle" /\ pc'[t] = "ret" /\ call[t] = "none" /\ call'[t] = "read"
        /\ old'[t] = phase
    <2>1. call[t] = "none"
      BY <1>1 DEF Inv, PlaceInv, PlaceAt
    <2>2. QED
      BY <1>1, <2>1 DEF Inv, TypeOK
  <1>9. /\ pcBar[t] = "idle" /\ pcBar'[t] = "ret" /\ callBar'[t] = "read"
        /\ oldBar'[t] = phase
    BY <1>2, <1>8, SameResults, SameErr
    DEF Transition, Translated, SeenIdle, Waiting, GaveUp, pcBar, callBar, oldBar, resBar
  <1>10. /\ resBar'[t] = Err(phase, "CannotCallUnlessPhaseRead")
    BY <1>2, <1>8, ResShows, SameResults, SameErr DEF Translated
  <1>11. QED
    BY <1>1, <1>2, <1>4, <1>7, <1>9, <1>10, OthersShow, SameErr, SameResults
    DEF P!Cell!ReadRefused, P!Cell!Refuse, P!Cell!Enter, P!Cell!data, P!Cell!mutex, P!extra

\* A reader that has waited calls when it goes on, or is refused.
LEMMA ReadCheckStep ==
  ASSUME Inv, NEW t \in Tasks, ReadCheck(t)
  PROVE  /\ Inv'
         /\ \/ P!Cell!ReadBegin(t) /\ UNCHANGED P!extra
            \/ P!Cell!ReadRefused(t) /\ UNCHANGED P!extra
            \/ UNCHANGED P!vars
  <1>1. /\ pc[t] = "check" /\ call[t] = "read"
        /\ old' = [old EXCEPT ![t] = phase]
        /\ pc' = [pc EXCEPT ![t] = IF phase = PHASE_READ THEN "look"
                               ELSE IF phase = PHASE_SETUP_TO_READ THEN "wait" ELSE "ret"]
        /\ res' = [res EXCEPT ![t] = IF phase \in {PHASE_READ, PHASE_SETUP_TO_READ} THEN res[t]
                                   ELSE Err(phase, "CannotCallUnlessPhaseRead")]
        /\ UNCHANGED <<phase, data_mutex, data_cell, holder, poisoned, call, forced>>
        /\ UNCHANGED <<accidents, graceful_counter, result_w>>
    BY DEF ReadCheck, data, mutex, extra, waits
  <1>2. /\ res'[t] \in Result /\ res'[t].kind \notin Translated
        /\ res' = [res EXCEPT ![t] = res'[t]]
    BY <1>1, SameErr DEF Inv, TypeOK, Translated, PhasedErrorKind, PlaceInv, FreshAt, NoResult
  <1>3. TypeOK'
    BY <1>1, <1>2
    DEF Inv, TypeOK, GracefulPC, Base!AsyncPC, Base!Cell!PC, Cell!Method, PhaseCode
  <1>4. Others(t)
    BY <1>1 DEF Inv, TypeOK, PlaceInv, HoldsAt, Holding, Others
  <1>5. SelfAt(t)'
    <2>1. PlaceAt(t)'
      BY <1>1 DEF Inv, TypeOK, PlaceInv, PlaceAt, Transition, Waiting
    <2>2. HoldsAt(t)'
      BY <1>1 DEF Inv, TypeOK, PlaceInv, PlaceAt, HoldsAt, Holding, Transition, Waiting
    <2>3. FreshAt(t)'
      BY <1>1, <1>2, SameResults
      DEF Inv, TypeOK, PlaceInv, PlaceAt, FreshAt, GaveUp, Transition, Translated
    <2>4. QED
      BY <2>1, <2>2, <2>3 DEF SelfAt
  <1>6. PlaceInv'
    BY <1>4, <1>5, OthersPlace
  <1>7. OwnerInv'
    <2>1. InTransition(t)' => InTransition(t) /\ call'[t] = call[t] /\ old'[t] = old[t]
      BY <1>1 DEF Inv, TypeOK, PlaceInv, PlaceAt, InTransition, Transition, Waiting
    <2>2. phase' # phase => InTransition(t) /\ ~InTransition(t)'
      BY <1>1 DEF Inv, TypeOK, PlaceInv, PlaceAt, InTransition, Transition, Waiting
    <2>3. QED
      BY <1>4, <2>1, <2>2, OwnerKept
  <1>8. CountInv'
    <2>1. Counted' = Counted /\ graceful_counter' = graceful_counter
      BY <1>1 DEF Inv, TypeOK, PlaceInv, PlaceAt, Counted
    <2>2. QED
      BY <1>4, <2>1 DEF Inv, CountInv, Others
  <1>9. WakeInv'
    <2>1. TellsReaders(t) => TellsReaders(t)'
      BY <1>1, <1>2, SameResults
      DEF Inv, TypeOK, PlaceInv, PlaceAt, TellsReaders, NotifiesLocked
    <2>2. TellsCleanup(t) => TellsCleanup(t)' \/ phase # PHASE_READ_TO_CLEANUP
      BY <1>1 DEF Inv, TypeOK, PlaceInv, PlaceAt, TellsCleanup
    <2>3. phase = PHASE_SETUP_TO_READ /\ phase' # PHASE_SETUP_TO_READ
            => "contended" \in accidents' \/ TellsReaders(t)'
      BY <1>1, <1>2, SameResults
      DEF Inv, TypeOK, PlaceInv, PlaceAt, OwnerInv, InTransition, Transition, TellsReaders,
          NotifiesLocked, Waiting, Via
    <2>4. graceful_counter # 0 /\ graceful_counter' = 0 => TellsCleanup(t)'
      BY <1>1 DEF Inv, TypeOK, PlaceInv, PlaceAt, TellsCleanup
    <2>5. pc'[t] \in {"wait", "asleep"} =>
            \/ pc[t] \in {"wait", "asleep"} /\ call'[t] = call[t]
            \/ call'[t] = "transition_to_cleanup" /\ graceful_counter' # 0
            \/ call'[t] = "read" /\ phase' = PHASE_SETUP_TO_READ
      BY <1>1 DEF Inv, TypeOK, PlaceInv, PlaceAt
    <2>6. QED
      BY <1>4, <2>1, <2>2, <2>3, <2>4, <2>5, WakeKept
  <1>10. Inv'
    BY <1>3, <1>6, <1>7, <1>8, <1>9 DEF Inv
  <1>11. /\ pc[t] = "check" /\ call[t] = "read" /\ call'[t] = "read" /\ old'[t] = phase
         /\ res[t] = NoResult
         /\ phase = PHASE_READ => pc'[t] = "look" /\ res'[t] = NoResult
         /\ phase = PHASE_SETUP_TO_READ => pc'[t] = "wait" /\ res'[t] = NoResult
         /\ phase \notin {PHASE_READ, PHASE_SETUP_TO_READ} =>
              pc'[t] = "ret" /\ res'[t] = Err(phase, "CannotCallUnlessPhaseRead")
    <2>1. res[t] = NoResult
      BY <1>1 DEF Inv, PlaceInv, FreshAt
    <2>2. call'[t] = "read" /\ old'[t] = phase
      BY <1>1 DEF Inv, TypeOK
    <2>3. /\ pc'[t] = IF phase = PHASE_READ THEN "look"
                     ELSE IF phase = PHASE_SETUP_TO_READ THEN "wait" ELSE "ret"
          /\ res'[t] = IF phase \in {PHASE_READ, PHASE_SETUP_TO_READ} THEN res[t]
                      ELSE Err(phase, "CannotCallUnlessPhaseRead")
      BY <1>1 DEF Inv, TypeOK
    <2>4. QED
      BY <1>1, <2>1, <2>2, <2>3
  <1>12. /\ pcBar[t] = "idle" /\ callBar[t] = "none"
         /\ phase # PHASE_SETUP_TO_READ => callBar'[t] = "read" /\ oldBar'[t] = phase
    BY <1>2, <1>11, SameResults, SameErr
    DEF Transition, Translated, SeenIdle, Waiting, GaveUp, pcBar, callBar, oldBar, resBar
  <1>13. /\ phase = PHASE_SETUP_TO_READ =>
              /\ pcBar'[t] = pcBar[t] /\ callBar'[t] = callBar[t]
              /\ oldBar'[t] = oldBar[t] /\ resBar'[t] = resBar[t]
         /\ phase = PHASE_READ => pcBar'[t] = "look" /\ resBar'[t] = resBar[t]
         /\ phase \notin {PHASE_READ, PHASE_SETUP_TO_READ} =>
              /\ pcBar'[t] = "ret"
              /\ resBar'[t] = Err(phase, "CannotCallUnlessPhaseRead")
    BY <1>2, <1>11, SameResults, SameErr
    DEF Translated, SeenIdle, Waiting, GaveUp, pcBar, callBar, oldBar, resBar
  <1>14. UNCHANGED <<phase, data_mutex, data_cell, holder, poisoned, forced, accidents>>
    BY <1>1
  <1>15. CASE phase = PHASE_SETUP_TO_READ
    <2>1. UNCHANGED <<phase, data, mutex, forced>>
      BY <1>14 DEF data, mutex
    <2>2. accidents' \subseteq accidents \cup {"missed", "surplus"}
      BY <1>14
    <2>3. QED
      BY <1>4, <1>10, <1>13, <1>15, <2>1, <2>2, NoStep
  <1>16. CASE phase = PHASE_READ
    <2>1. P!Cell!ReadBegin(t)
      BY <1>4, <1>12, <1>13, <1>14, <1>16, OthersShow
      DEF P!Cell!ReadBegin, P!Cell!Enter, P!Cell!data, P!Cell!mutex
    <2>2. QED
      BY <1>10, <1>14, <2>1 DEF P!extra
  <1>17. CASE phase \notin {PHASE_READ, PHASE_SETUP_TO_READ}
    <2>1. P!Cell!ReadRefused(t)
      BY <1>4, <1>12, <1>13, <1>14, <1>17, OthersShow, SameErr
      DEF P!Cell!ReadRefused, P!Cell!Refuse, P!Cell!Enter, P!Cell!data, P!Cell!mutex
    <2>2. QED
      BY <1>10, <1>14, <2>1 DEF P!extra
  <1>18. QED
    BY <1>15, <1>16, <1>17

\* Quiet: read makes its &T, or finds none.
LEMMA ReadLookStep ==
  ASSUME Inv, NEW t \in Tasks, ReadLook(t)
  PROVE  Inv' /\ P!Cell!ReadLook(t) /\ UNCHANGED P!extra
  <1>1. /\ res'[t] \in Result /\ res'[t].kind # "GracefulWaitTimeout"
        /\ res' = [res EXCEPT ![t] = res'[t]]
        /\ data_cell = "Some" => res'[t] = Ok
        /\ data_cell # "Some" => res'[t].kind = "InternalDataUnavailable"
    <2>1. PICK code : res' = [res EXCEPT ![t] = IF data_cell = "Some" THEN Ok
                                      ELSE Err(code, "InternalDataUnavailable")]
      BY DEF ReadLook
    <2>2. /\ Err(code, "InternalDataUnavailable") \in Result
          /\ Err(code, "InternalDataUnavailable").kind = "InternalDataUnavailable"
      BY SameErr DEF PhasedErrorKind
    <2>3. QED
      BY <2>1, <2>2, SameResults DEF Inv, TypeOK
  <1>2. TypeOK'
    BY <1>1
    DEF Inv, TypeOK, GracefulPC, Base!AsyncPC, Base!Cell!PC, Cell!Method, PhaseCode, ReadLook,
        data, mutex, extra, waits, Cell!Step
  <1>3. Others(t)
    BY DEF Inv, TypeOK, PlaceInv, HoldsAt, Holding, Others, ReadLook, data, mutex, extra, waits,
       Cell!Step
  <1>4. SelfAt(t)'
    <2>1. PlaceAt(t)'
      BY DEF Inv, TypeOK, PlaceInv, PlaceAt, Transition, Waiting, ReadLook, data, mutex, extra,
         waits, Cell!Step
    <2>2. HoldsAt(t)'
      BY DEF Inv, TypeOK, PlaceInv, PlaceAt, HoldsAt, Holding, Transition, Waiting, ReadLook,
         data, mutex, extra, waits, Cell!Step
    <2>3. FreshAt(t)'
      BY <1>1, SameResults
      DEF Inv, TypeOK, PlaceInv, PlaceAt, FreshAt, GaveUp, Transition, ReadLook, data, mutex,
          extra, waits, Cell!Step
    <2>4. QED
      BY <2>1, <2>2, <2>3 DEF SelfAt
  <1>5. Quiet(t)
    BY DEF Inv, TypeOK, PlaceInv, PlaceAt, Quiet, Watched, InTransition, Transition, Waiting,
       ReadLook, data, mutex, extra, waits, Cell!Step
  <1>6. Inv'
    BY <1>2, <1>3, <1>4, <1>5, QuietInv
  <1>7. /\ pc[t] = "look" /\ pc'[t] = IF data_cell = "Some" THEN "count" ELSE "ret"
        /\ call[t] = "read" /\ call'[t] = call[t] /\ old'[t] = old[t] /\ res[t] = NoResult
    BY <1>1, SameResults, SameErr
    DEF Inv, TypeOK, PlaceInv, PlaceAt, HoldsAt, FreshAt, Holding, Transition, Waiting,
        ReadLook, data, mutex, extra, waits, Cell!Step
  <1>8. /\ pcBar[t] = "look" /\ pcBar'[t] = IF data_cell = "Some" THEN "reading" ELSE "ret"
        /\ callBar[t] = "read" /\ callBar'[t] = callBar[t] /\ oldBar[t] = old[t]
        /\ oldBar'[t] = oldBar[t]
    BY <1>1, <1>7, SameResults, SameErr
    DEF Transition, SeenIdle, Waiting, GaveUp, pcBar, callBar, oldBar, resBar
  <1>9. /\ resBar'[t] = IF data_cell = "Some" THEN Ok ELSE Err(old[t], "InternalDataUnavailable")
    BY <1>1, <1>7, SameResults, SameErr DEF GaveUp, resBar
  <1>10. QED
    BY <1>1, <1>3, <1>6, <1>8, <1>9, OthersShow, SameErr, SameResults
    DEF ReadLook, data, mutex, extra, waits, Cell!Step, P!Cell!ReadLook, P!Cell!Step,
        P!Cell!data, P!Cell!mutex, P!extra

\* The reader is counted.
LEMMA count_upStep ==
  ASSUME Inv, NEW t \in Tasks, count_up(t)
  PROVE  Inv' /\ UNCHANGED P!vars
  <1>1. graceful_counter \in Nat
    BY DEF Inv, TypeOK
  <1>2. graceful_counter' \in Nat
    BY <1>1 DEF count_up
  <1>3. graceful_counter' # 0
    BY <1>1 DEF count_up
  <1>4. TypeOK'
    BY <1>2
    DEF Inv, TypeOK, GracefulPC, Base!AsyncPC, Base!Cell!PC, Cell!Method, PhaseCode, count_up,
        data, mutex, extra, waits, Cell!Step
  <1>5. Others(t)
    BY DEF Inv, TypeOK, PlaceInv, HoldsAt, Holding, Others, count_up, data, mutex, extra, waits,
       Cell!Step
  <1>6. SelfAt(t)'
    <2>1. PlaceAt(t)'
      BY DEF Inv, TypeOK, PlaceInv, PlaceAt, Transition, Waiting, count_up, data, mutex, extra,
         waits, Cell!Step
    <2>2. HoldsAt(t)'
      BY DEF Inv, TypeOK, PlaceInv, PlaceAt, HoldsAt, Holding, Transition, Waiting, count_up,
         data, mutex, extra, waits, Cell!Step
    <2>3. FreshAt(t)'
      BY SameResults
      DEF Inv, TypeOK, PlaceInv, PlaceAt, FreshAt, GaveUp, Transition, count_up, data, mutex,
          extra, waits, Cell!Step
    <2>4. QED
      BY <2>1, <2>2, <2>3 DEF SelfAt
  <1>7. PlaceInv'
    BY <1>5, <1>6, OthersPlace
  <1>8. OwnerInv'
    <2>1. InTransition(t)' => InTransition(t) /\ call'[t] = call[t] /\ old'[t] = old[t]
      BY DEF Inv, TypeOK, PlaceInv, PlaceAt, InTransition, Transition, Waiting, count_up, data,
         mutex, extra, waits, Cell!Step
    <2>2. phase' # phase => InTransition(t) /\ ~InTransition(t)'
      BY DEF Inv, TypeOK, PlaceInv, PlaceAt, InTransition, Transition, Waiting, count_up, data,
         mutex, extra, waits, Cell!Step
    <2>3. QED
      BY <1>5, <2>1, <2>2, OwnerKept
  <1>9. CountInv'
    <2>1. Counted' = Counted \cup {t}
      BY DEF Inv, TypeOK, Counted, count_up, Cell!Step
    <2>2. IsFiniteSet(Counted)
      BY GracefulAsyncAssumption, FS_Subset DEF GracefulAsyncAssumption, Counted
    <2>3. Cardinality(Counted') = Cardinality(Counted) + 1
      BY <2>1, <2>2, FS_AddElement DEF Counted, count_up, Cell!Step
    <2>4. graceful_counter' = graceful_counter + 1 /\ accidents' = accidents
      BY DEF count_up, extra
    <2>5. QED
      BY <2>2, <2>3, <2>4, FS_CardinalityType DEF Inv, TypeOK, CountInv
  <1>10. WakeInv'
    <2>1. TellsReaders(t) => TellsReaders(t)'
      BY DEF Inv, TypeOK, PlaceInv, PlaceAt, TellsReaders, NotifiesLocked, count_up, data,
         mutex, extra, waits, Cell!Step
    <2>2. TellsCleanup(t) => TellsCleanup(t)' \/ phase # PHASE_READ_TO_CLEANUP
      BY DEF Inv, TypeOK, PlaceInv, PlaceAt, TellsCleanup, count_up, data, mutex, extra, waits,
         Cell!Step
    <2>3. phase = PHASE_SETUP_TO_READ /\ phase' # PHASE_SETUP_TO_READ
            => "contended" \in accidents' \/ TellsReaders(t)'
      BY DEF Inv, TypeOK, PlaceInv, PlaceAt, OwnerInv, InTransition, Transition, TellsReaders,
         NotifiesLocked, Waiting, Via, count_up, data, mutex, extra, waits, Cell!Step
    <2>4. graceful_counter # 0 /\ graceful_counter' = 0 => TellsCleanup(t)'
      BY <1>3
    <2>5. pc'[t] \in {"wait", "asleep"} =>
            \/ pc[t] \in {"wait", "asleep"} /\ call'[t] = call[t]
            \/ call'[t] = "transition_to_cleanup" /\ graceful_counter' # 0
            \/ call'[t] = "read" /\ phase' = PHASE_SETUP_TO_READ
      BY DEF Inv, TypeOK, PlaceInv, PlaceAt, count_up, data, mutex, extra, waits, Cell!Step
    <2>6. QED
      BY <1>5, <2>1, <2>2, <2>3, <2>4, <2>5, WakeKept
  <1>11. Inv'
    BY <1>4, <1>7, <1>8, <1>9, <1>10 DEF Inv
  <1>12. /\ pcBar'[t] = pcBar[t] /\ callBar'[t] = callBar[t] /\ oldBar'[t] = oldBar[t]
    BY SameResults
    DEF Inv, TypeOK, PlaceInv, PlaceAt, HoldsAt, FreshAt, Holding, Transition, count_up, data,
        mutex, extra, waits, Cell!Step, SeenIdle, Waiting, GaveUp, pcBar, callBar, oldBar,
        resBar
  <1>13. /\ resBar'[t] = resBar[t]
    BY ResShows, SameResults
    DEF Inv, TypeOK, PlaceInv, PlaceAt, FreshAt, GaveUp, Translated, count_up, data, mutex,
        extra, waits, Cell!Step
  <1>14. QED
    BY <1>5, <1>11, <1>12, <1>13, NoStep DEF count_up, data, mutex, extra, waits, Cell!Step

\* The reader that takes the counter to 0 has still to notify.
LEMMA finish_readingStep ==
  ASSUME Inv, NEW t \in Tasks, finish_reading(t)
  PROVE  Inv' /\ P!Cell!ReadEnd(t) /\ UNCHANGED P!extra
  <1>1. graceful_counter \in Nat
    BY DEF Inv, TypeOK
  <1>2. graceful_counter' \in Nat
    BY <1>1 DEF finish_reading, Decrement
  <1>3. graceful_counter' = 0 /\ graceful_counter # 0 => graceful_counter = 1
    BY <1>1 DEF finish_reading, Decrement
  <1>4. TypeOK'
    BY <1>2
    DEF Inv, TypeOK, GracefulPC, Base!AsyncPC, Base!Cell!PC, Cell!Method, PhaseCode,
        finish_reading, Decrement, data, mutex, extra, waits
  <1>5. Others(t)
    BY DEF Inv, TypeOK, PlaceInv, HoldsAt, Holding, Others, finish_reading, Decrement, data,
       mutex, extra, waits
  <1>6. SelfAt(t)'
    <2>1. PlaceAt(t)'
      BY DEF Inv, TypeOK, PlaceInv, PlaceAt, Transition, Waiting, finish_reading, Decrement,
         data, mutex, extra, waits
    <2>2. HoldsAt(t)'
      BY DEF Inv, TypeOK, PlaceInv, PlaceAt, HoldsAt, Holding, Transition, Waiting,
         finish_reading, Decrement, data, mutex, extra, waits
    <2>3. FreshAt(t)'
      BY SameResults
      DEF Inv, TypeOK, PlaceInv, PlaceAt, FreshAt, GaveUp, Transition, finish_reading,
          Decrement, data, mutex, extra, waits
    <2>4. QED
      BY <2>1, <2>2, <2>3 DEF SelfAt
  <1>7. PlaceInv'
    BY <1>5, <1>6, OthersPlace
  <1>8. OwnerInv'
    <2>1. InTransition(t)' => InTransition(t) /\ call'[t] = call[t] /\ old'[t] = old[t]
      BY DEF Inv, TypeOK, PlaceInv, PlaceAt, InTransition, Transition, Waiting, finish_reading,
         Decrement, data, mutex, extra, waits
    <2>2. phase' # phase => InTransition(t) /\ ~InTransition(t)'
      BY DEF Inv, TypeOK, PlaceInv, PlaceAt, InTransition, Transition, Waiting, finish_reading,
         Decrement, data, mutex, extra, waits
    <2>3. QED
      BY <1>5, <2>1, <2>2, OwnerKept
  <1>9. CountInv'
    <2>1. Counted' = Counted \ {t} /\ t \in Counted
      BY DEF Inv, TypeOK, Counted, finish_reading, Decrement
    <2>2. IsFiniteSet(Counted)
      BY GracefulAsyncAssumption, FS_Subset DEF GracefulAsyncAssumption, Counted
    <2>3. Cardinality(Counted') = Cardinality(Counted) - 1 /\ Cardinality(Counted) # 0
      BY <2>1, <2>2, FS_RemoveElement, FS_EmptySet
    <2>4. /\ graceful_counter' = IF graceful_counter = 0 THEN 0 ELSE graceful_counter - 1
          /\ accidents' = accidents
      BY DEF finish_reading, Decrement
    <2>5. QED
      BY <2>2, <2>3, <2>4, FS_CardinalityType DEF Inv, TypeOK, CountInv
  <1>10. WakeInv'
    <2>1. TellsReaders(t) => TellsReaders(t)'
      BY DEF Inv, TypeOK, PlaceInv, PlaceAt, TellsReaders, NotifiesLocked, finish_reading,
         Decrement, data, mutex, extra, waits
    <2>2. TellsCleanup(t) => TellsCleanup(t)' \/ phase # PHASE_READ_TO_CLEANUP
      BY DEF Inv, TypeOK, PlaceInv, PlaceAt, TellsCleanup, finish_reading, Decrement, data,
         mutex, extra, waits
    <2>3. phase = PHASE_SETUP_TO_READ /\ phase' # PHASE_SETUP_TO_READ
            => "contended" \in accidents' \/ TellsReaders(t)'
      BY DEF Inv, TypeOK, PlaceInv, PlaceAt, OwnerInv, InTransition, Transition, TellsReaders,
         NotifiesLocked, Waiting, Via, finish_reading, Decrement, data, mutex, extra, waits
    <2>4. graceful_counter # 0 /\ graceful_counter' = 0 => TellsCleanup(t)'
      BY <1>3
      DEF Inv, TypeOK, PlaceInv, PlaceAt, TellsCleanup, finish_reading, Decrement, data, mutex,
          extra, waits
    <2>5. pc'[t] \in {"wait", "asleep"} =>
            \/ pc[t] \in {"wait", "asleep"} /\ call'[t] = call[t]
            \/ call'[t] = "transition_to_cleanup" /\ graceful_counter' # 0
            \/ call'[t] = "read" /\ phase' = PHASE_SETUP_TO_READ
      BY DEF Inv, TypeOK, PlaceInv, PlaceAt, finish_reading, Decrement, data, mutex, extra,
         waits
    <2>6. QED
      BY <1>5, <2>1, <2>2, <2>3, <2>4, <2>5, WakeKept
  <1>11. Inv'
    BY <1>4, <1>7, <1>8, <1>9, <1>10 DEF Inv
  <1>12. /\ pcBar[t] = "reading" /\ pcBar'[t] = "ret" /\ callBar[t] = "read"
         /\ callBar'[t] = callBar[t] /\ oldBar'[t] = oldBar[t]
    BY SameResults
    DEF Inv, TypeOK, PlaceInv, PlaceAt, HoldsAt, FreshAt, Holding, Transition, finish_reading,
        Decrement, data, mutex, extra, waits, SeenIdle, Waiting, GaveUp, pcBar, callBar, oldBar,
        resBar
  <1>13. /\ resBar'[t] = resBar[t]
    BY ResShows, SameResults
    DEF Inv, TypeOK, PlaceInv, PlaceAt, FreshAt, GaveUp, Translated, finish_reading, Decrement,
        data, mutex, extra, waits
  <1>14. QED
    BY <1>5, <1>11, <1>12, <1>13, OthersShow, SameResults
    DEF finish_reading, Decrement, data, mutex, extra, waits, P!Cell!ReadEnd, P!Cell!Step,
        P!Cell!data, P!Cell!mutex, P!extra

\* So has a caller that was no reader.
LEMMA ExcessFinishReadingStep ==
  ASSUME Inv, NEW t \in Tasks, ExcessFinishReading(t)
  PROVE  Inv' /\ UNCHANGED P!vars
  <1>1. graceful_counter \in Nat
    BY DEF Inv, TypeOK
  <1>2. graceful_counter' \in Nat
    BY <1>1 DEF ExcessFinishReading, Decrement
  <1>3. graceful_counter' = 0 /\ graceful_counter # 0 => graceful_counter = 1
    BY <1>1 DEF ExcessFinishReading, Decrement
  <1>4. TypeOK'
    BY <1>2
    DEF Inv, TypeOK, GracefulPC, Base!AsyncPC, Base!Cell!PC, Cell!Method, PhaseCode,
        ExcessFinishReading, Decrement, data, mutex, extra, waits
  <1>5. Others(t)
    BY DEF Inv, TypeOK, PlaceInv, HoldsAt, Holding, Others, ExcessFinishReading, Decrement,
       data, mutex, extra, waits
  <1>6. SelfAt(t)'
    <2>1. PlaceAt(t)'
      BY DEF Inv, TypeOK, PlaceInv, PlaceAt, Transition, Waiting, ExcessFinishReading,
         Decrement, data, mutex, extra, waits
    <2>2. HoldsAt(t)'
      BY DEF Inv, TypeOK, PlaceInv, PlaceAt, HoldsAt, Holding, Transition, Waiting,
         ExcessFinishReading, Decrement, data, mutex, extra, waits
    <2>3. FreshAt(t)'
      BY SameResults
      DEF Inv, TypeOK, PlaceInv, PlaceAt, FreshAt, GaveUp, Transition, ExcessFinishReading,
          Decrement, data, mutex, extra, waits
    <2>4. QED
      BY <2>1, <2>2, <2>3 DEF SelfAt
  <1>7. PlaceInv'
    BY <1>5, <1>6, OthersPlace
  <1>8. OwnerInv'
    <2>1. InTransition(t)' => InTransition(t) /\ call'[t] = call[t] /\ old'[t] = old[t]
      BY DEF Inv, TypeOK, PlaceInv, PlaceAt, InTransition, Transition, Waiting,
         ExcessFinishReading, Decrement, data, mutex, extra, waits
    <2>2. phase' # phase => InTransition(t) /\ ~InTransition(t)'
      BY DEF Inv, TypeOK, PlaceInv, PlaceAt, InTransition, Transition, Waiting,
         ExcessFinishReading, Decrement, data, mutex, extra, waits
    <2>3. QED
      BY <1>5, <2>1, <2>2, OwnerKept
  <1>9. CountInv'
    <2>1. Counted' = Counted /\ "surplus" \in accidents'
      BY DEF Inv, TypeOK, Counted, ExcessFinishReading, Decrement
    <2>2. graceful_counter' = IF graceful_counter = 0 THEN 0 ELSE graceful_counter - 1
      BY DEF ExcessFinishReading, Decrement
    <2>3. Cardinality(Counted) \in Nat
      BY GracefulAsyncAssumption, FS_Subset, FS_CardinalityType
      DEF GracefulAsyncAssumption, Counted
    <2>4. QED
      BY <2>1, <2>2, <2>3 DEF Inv, TypeOK, CountInv
  <1>10. WakeInv'
    <2>1. TellsReaders(t) => TellsReaders(t)'
      BY DEF Inv, TypeOK, PlaceInv, PlaceAt, TellsReaders, NotifiesLocked, ExcessFinishReading,
         Decrement, data, mutex, extra, waits
    <2>2. TellsCleanup(t) => TellsCleanup(t)' \/ phase # PHASE_READ_TO_CLEANUP
      BY DEF Inv, TypeOK, PlaceInv, PlaceAt, TellsCleanup, ExcessFinishReading, Decrement, data,
         mutex, extra, waits
    <2>3. phase = PHASE_SETUP_TO_READ /\ phase' # PHASE_SETUP_TO_READ
            => "contended" \in accidents' \/ TellsReaders(t)'
      BY DEF Inv, TypeOK, PlaceInv, PlaceAt, OwnerInv, InTransition, Transition, TellsReaders,
         NotifiesLocked, Waiting, Via, ExcessFinishReading, Decrement, data, mutex, extra, waits
    <2>4. graceful_counter # 0 /\ graceful_counter' = 0 => TellsCleanup(t)'
      BY <1>3
      DEF Inv, TypeOK, PlaceInv, PlaceAt, TellsCleanup, ExcessFinishReading, Decrement, data,
          mutex, extra, waits
    <2>5. pc'[t] \in {"wait", "asleep"} =>
            \/ pc[t] \in {"wait", "asleep"} /\ call'[t] = call[t]
            \/ call'[t] = "transition_to_cleanup" /\ graceful_counter' # 0
            \/ call'[t] = "read" /\ phase' = PHASE_SETUP_TO_READ
      BY DEF Inv, TypeOK, PlaceInv, PlaceAt, ExcessFinishReading, Decrement, data, mutex, extra,
         waits
    <2>6. QED
      BY <1>5, <2>1, <2>2, <2>3, <2>4, <2>5, WakeKept
  <1>11. Inv'
    BY <1>4, <1>7, <1>8, <1>9, <1>10 DEF Inv
  <1>12. /\ pcBar'[t] = pcBar[t] /\ callBar'[t] = callBar[t] /\ oldBar'[t] = oldBar[t]
    BY SameResults
    DEF Inv, TypeOK, PlaceInv, PlaceAt, HoldsAt, FreshAt, Holding, Transition,
        ExcessFinishReading, Decrement, data, mutex, extra, waits, SeenIdle, Waiting, GaveUp,
        pcBar, callBar, oldBar, resBar
  <1>13. /\ resBar'[t] = resBar[t]
    BY ResShows, SameResults
    DEF Inv, TypeOK, PlaceInv, PlaceAt, FreshAt, GaveUp, Translated, ExcessFinishReading,
        Decrement, data, mutex, extra, waits
  <1>14. QED
    BY <1>5, <1>11, <1>12, <1>13, NoStep
    DEF ExcessFinishReading, Decrement, data, mutex, extra, waits

\* The last reader goes on to notify if a cleanup is in progress: one that sleeps has come
\* from Read.
LEMMA LastReaderStep ==
  ASSUME Inv, NEW t \in Tasks, LastReader(t)
  PROVE  Inv' /\ UNCHANGED P!vars
  <1>1. TypeOK'
    BY DEF Inv, TypeOK, GracefulPC, Base!AsyncPC, Base!Cell!PC, Cell!Method, PhaseCode,
       LastReader, data, mutex, extra, waits
  <1>2. Others(t)
    BY DEF Inv, TypeOK, PlaceInv, HoldsAt, Holding, Others, LastReader, data, mutex, extra,
       waits
  <1>3. SelfAt(t)'
    <2>1. PlaceAt(t)'
      BY DEF Inv, TypeOK, PlaceInv, PlaceAt, Transition, Waiting, LastReader, data, mutex,
         extra, waits
    <2>2. HoldsAt(t)'
      BY DEF Inv, TypeOK, PlaceInv, PlaceAt, HoldsAt, Holding, Transition, Waiting, LastReader,
         data, mutex, extra, waits
    <2>3. FreshAt(t)'
      BY SameResults
      DEF Inv, TypeOK, PlaceInv, PlaceAt, FreshAt, GaveUp, Transition, LastReader, data, mutex,
          extra, waits
    <2>4. QED
      BY <2>1, <2>2, <2>3 DEF SelfAt
  <1>4. PlaceInv'
    BY <1>2, <1>3, OthersPlace
  <1>5. OwnerInv'
    <2>1. InTransition(t)' => InTransition(t) /\ call'[t] = call[t] /\ old'[t] = old[t]
      BY DEF Inv, TypeOK, PlaceInv, PlaceAt, InTransition, Transition, Waiting, LastReader,
         data, mutex, extra, waits
    <2>2. phase' # phase => InTransition(t) /\ ~InTransition(t)'
      BY DEF Inv, TypeOK, PlaceInv, PlaceAt, InTransition, Transition, Waiting, LastReader,
         data, mutex, extra, waits
    <2>3. QED
      BY <1>2, <2>1, <2>2, OwnerKept
  <1>6. CountInv'
    <2>1. Counted' = Counted /\ graceful_counter' = graceful_counter
      BY DEF Inv, TypeOK, PlaceInv, PlaceAt, Counted, LastReader, data, mutex, extra, waits
    <2>2. QED
      BY <1>2, <2>1 DEF Inv, CountInv, Others
  <1>7. WakeInv'
    <2>1. TellsReaders(t) => TellsReaders(t)'
      BY DEF Inv, TypeOK, PlaceInv, PlaceAt, TellsReaders, NotifiesLocked, LastReader, data,
         mutex, extra, waits
    <2>2. TellsCleanup(t) => TellsCleanup(t)' \/ phase # PHASE_READ_TO_CLEANUP
      BY DEF Inv, TypeOK, PlaceInv, PlaceAt, TellsCleanup, LastReader, data, mutex, extra, waits
    <2>3. phase = PHASE_SETUP_TO_READ /\ phase' # PHASE_SETUP_TO_READ
            => "contended" \in accidents' \/ TellsReaders(t)'
      BY DEF Inv, TypeOK, PlaceInv, PlaceAt, OwnerInv, InTransition, Transition, TellsReaders,
         NotifiesLocked, Waiting, Via, LastReader, data, mutex, extra, waits
    <2>4. graceful_counter # 0 /\ graceful_counter' = 0 => TellsCleanup(t)'
      BY DEF Inv, TypeOK, PlaceInv, PlaceAt, TellsCleanup, LastReader, data, mutex, extra, waits
    <2>5. pc'[t] \in {"wait", "asleep"} =>
            \/ pc[t] \in {"wait", "asleep"} /\ call'[t] = call[t]
            \/ call'[t] = "transition_to_cleanup" /\ graceful_counter' # 0
            \/ call'[t] = "read" /\ phase' = PHASE_SETUP_TO_READ
      BY DEF Inv, TypeOK, PlaceInv, PlaceAt, LastReader, data, mutex, extra, waits
    <2>6. QED
      BY <1>2, <2>1, <2>2, <2>3, <2>4, <2>5, WakeKept
  <1>8. Inv'
    BY <1>1, <1>4, <1>5, <1>6, <1>7 DEF Inv
  <1>9. /\ pcBar'[t] = pcBar[t] /\ callBar'[t] = callBar[t] /\ oldBar'[t] = oldBar[t]
    BY SameResults
    DEF Inv, TypeOK, PlaceInv, PlaceAt, HoldsAt, FreshAt, Holding, Transition, LastReader, data,
        mutex, extra, waits, SeenIdle, Waiting, GaveUp, pcBar, callBar, oldBar, resBar
  <1>10. /\ resBar'[t] = resBar[t]
    BY ResShows, SameResults
    DEF Inv, TypeOK, PlaceInv, PlaceAt, FreshAt, GaveUp, Translated, LastReader, data, mutex,
        extra, waits
  <1>11. QED
    BY <1>2, <1>8, <1>9, <1>10, NoStep DEF LastReader, data, mutex, extra, waits

-----------------------------------------------------------------------------
(* The return *)

\* Quiet: a caller gets its result.
LEMMA ReturnStep ==
  ASSUME Inv, NEW t \in Tasks, Return(t)
  PROVE  Inv' /\ (P!Return(t) \/ UNCHANGED P!vars)
  <1>1. /\ res'[t] \in Result /\ res'[t].kind \notin Translated
        /\ res' = [res EXCEPT ![t] = res'[t]]
    BY SameResults
    DEF Inv, TypeOK, Translated, Return, Base!Return, Base!Cell!Return, Base!Cell!data,
        Base!Cell!mutex
  <1>2. TypeOK'
    BY <1>1
    DEF Inv, TypeOK, GracefulPC, Base!AsyncPC, Base!Cell!PC, Cell!Method, PhaseCode, Return,
        Base!Return, Base!Cell!Return, Base!Cell!data, Base!Cell!mutex
  <1>3. Others(t)
    BY DEF Inv, TypeOK, PlaceInv, HoldsAt, Holding, Others, Return, Base!Return,
       Base!Cell!Return, Base!Cell!data, Base!Cell!mutex
  <1>4. SelfAt(t)'
    <2>1. PlaceAt(t)'
      BY DEF Inv, TypeOK, PlaceInv, PlaceAt, Transition, Waiting, Return, Base!Return,
         Base!Cell!Return, Base!Cell!data, Base!Cell!mutex
    <2>2. HoldsAt(t)'
      BY DEF Inv, TypeOK, PlaceInv, PlaceAt, HoldsAt, Holding, Transition, Waiting, Return,
         Base!Return, Base!Cell!Return, Base!Cell!data, Base!Cell!mutex
    <2>3. FreshAt(t)'
      BY <1>1, SameResults
      DEF Inv, TypeOK, PlaceInv, PlaceAt, FreshAt, GaveUp, Transition, Translated, Return,
          Base!Return, Base!Cell!Return, Base!Cell!data, Base!Cell!mutex
    <2>4. QED
      BY <2>1, <2>2, <2>3 DEF SelfAt
  <1>5. Quiet(t)
    BY DEF Inv, TypeOK, PlaceInv, PlaceAt, Quiet, Watched, InTransition, Transition, Waiting,
       Return, Base!Return, Base!Cell!Return, Base!Cell!data, Base!Cell!mutex
  <1>6. Inv'
    BY <1>2, <1>3, <1>4, <1>5, QuietInv
  <1>7. /\ pc[t] = "ret" /\ pc'[t] = "idle" /\ call'[t] = "none" /\ res'[t] = NoResult
        /\ call[t] = "finish_reading" => res[t] = NoResult
        /\ call[t] \in {"read", "finish_reading"} => ~forced[t]
    BY <1>1, SameResults
    DEF Inv, TypeOK, PlaceInv, PlaceAt, HoldsAt, FreshAt, Holding, Transition, Waiting, Return,
        Base!Return, Base!Cell!Return, Base!Cell!data, Base!Cell!mutex
  <1>8. /\ pcBar'[t] = "idle" /\ callBar'[t] = "none" /\ oldBar'[t] = PHASE_SETUP
    BY <1>1, <1>7, SameResults
    DEF Transition, Translated, SeenIdle, Waiting, GaveUp, pcBar, callBar, oldBar, resBar
  <1>9. /\ resBar'[t] = NoResult
        /\ \/ pcBar[t] = "ret"
           \/ /\ pcBar'[t] = pcBar[t] /\ callBar'[t] = callBar[t]
              /\ oldBar'[t] = oldBar[t] /\ resBar'[t] = resBar[t] /\ ~forced[t]
    BY <1>1, <1>7, SameResults
    DEF Translated, SeenIdle, Waiting, GaveUp, pcBar, callBar, oldBar, resBar
  <1>10. UNCHANGED <<phase, data_mutex, data_cell, holder, poisoned, accidents>>
    BY DEF Return, Base!Return, Base!Cell!Return, Base!Cell!data, Base!Cell!mutex
  <1>11. forced' = [forced EXCEPT ![t] = FALSE]
    BY DEF Return, Base!Return
  <1>12. CASE pcBar[t] = "ret"
    <2>1. P!Return(t)
      BY <1>3, <1>8, <1>9, <1>10, <1>11, <1>12, OthersShow, SameResults
      DEF P!Return, P!Cell!Return, P!Cell!data, P!Cell!mutex
    <2>2. QED
      BY <1>6, <2>1
  <1>13. CASE pcBar[t] # "ret"
    <2>1. forced' = forced
      BY <1>9, <1>11, <1>13 DEF Inv, TypeOK
    <2>2. QED
      BY <1>3, <1>6, <1>9, <1>10, <1>13, <2>1, NoStep DEF data, mutex
  <1>14. QED
    BY <1>12, <1>13

-----------------------------------------------------------------------------
(* All steps *)

\* The initial states satisfy the invariant and are PhasedCellAsync's.
LEMMA InitStep == GracefulInit => Inv /\ P!AsyncInit
  <1> SUFFICES ASSUME GracefulInit PROVE Inv /\ P!AsyncInit
    OBVIOUS
  <1> USE DEF GracefulInit, Base!AsyncInit, Base!Cell!PhasedCellSyncInit
  <1>1. TypeOK
    BY SameResults DEF TypeOK, PhaseCode, GracefulPC, Base!AsyncPC, Base!Cell!PC, Cell!Method
  <1>2. PlaceInv
    BY GracefulAsyncAssumption, SameResults
    DEF GracefulAsyncAssumption, PlaceInv, PlaceAt, HoldsAt, FreshAt, Holding, Transition,
        Waiting, GaveUp
  <1>3. OwnerInv /\ WakeInv
    BY DEF OwnerInv, WakeInv, InTransition, Transition, Waiting
  <1>4. CountInv
    <2>1. Counted = {}
      BY DEF Counted
    <2>2. QED
      BY <2>1, FS_EmptySet DEF CountInv
  <1>5. /\ pcBar  = [t \in Tasks |-> "idle"]      /\ callBar = [t \in Tasks |-> "none"]
        /\ oldBar = [t \in Tasks |-> PHASE_SETUP] /\ resBar  = [t \in Tasks |-> NoResult]
    BY SameResults DEF SeenIdle, Waiting, GaveUp, pcBar, callBar, oldBar, resBar
  <1>6. P!AsyncInit
    BY <1>5, SameResults DEF P!AsyncInit, P!Cell!PhasedCellSyncInit
  <1>7. QED
    BY <1>1, <1>2, <1>3, <1>4, <1>6 DEF Inv

\* A transition to Read up to its commit, forced or not.
LEMMA ToReadStep ==
  ASSUME Inv, NEW t \in Tasks, NEW f \in BOOLEAN,
         Base!As(t, f), Base!Cell!transition_to_read(t), pc[t] # "commit", UNCHANGED waits
  PROVE  Inv' /\ P!As(t, f) /\ P!Cell!transition_to_read(t)
  <1>1. CASE Base!Cell!ToReadBegin(t)
    BY <1>1, ToReadBeginStep DEF P!Cell!transition_to_read
  <1>2. CASE Base!Cell!ToReadRefused(t)
    BY <1>2, ToReadRefusedStep DEF P!Cell!transition_to_read
  <1>3. CASE Base!Cell!ToReadLock(t)
    BY <1>3, ToReadLockStep DEF P!Cell!transition_to_read
  <1>4. CASE Base!Cell!ToReadRun(t)
    BY <1>4, ToReadRunStep DEF P!Cell!transition_to_read
  <1>5. CASE Base!Cell!ToReadSwap(t)
    BY <1>5, ToReadSwapStep DEF P!Cell!transition_to_read
  <1>6. ~Base!Cell!ToReadCommit(t)
    BY DEF Base!Cell!ToReadCommit, Base!Cell!Step
  <1>7. QED
    BY <1>1, <1>2, <1>3, <1>4, <1>5, <1>6 DEF Base!Cell!transition_to_read

\* A transition to Cleanup that does not wait, forced or not.
LEMMA ToCleanupStep ==
  ASSUME Inv, NEW t \in Tasks, NEW f \in BOOLEAN,
         Base!As(t, f), Base!Cell!transition_to_cleanup(t), UNCHANGED waits
  PROVE  Inv' /\ P!As(t, f) /\ P!Cell!transition_to_cleanup(t)
  <1>1. CASE Base!Cell!ToCleanupBegin(t)
    BY <1>1, ToCleanupBeginStep DEF P!Cell!transition_to_cleanup
  <1>2. CASE Base!Cell!ToCleanupRefused(t)
    BY <1>2, ToCleanupRefusedStep DEF P!Cell!transition_to_cleanup
  <1>3. CASE Base!Cell!ToCleanupLock(t)
    BY <1>3, ToCleanupLockStep DEF P!Cell!transition_to_cleanup
  <1>4. CASE Base!Cell!ToCleanupRun(t)
    BY <1>4, ToCleanupRunStep DEF P!Cell!transition_to_cleanup
  <1>5. CASE Base!Cell!ToCleanupSwap(t)
    BY <1>5, ToCleanupSwapStep DEF P!Cell!transition_to_cleanup
  <1>6. CASE Base!Cell!ToCleanupCommit(t)
    BY <1>6, ToCleanupCommitStep DEF P!Cell!transition_to_cleanup
  <1>7. QED
    BY <1>1, <1>2, <1>3, <1>4, <1>5, <1>6 DEF Base!Cell!transition_to_cleanup

\* The methods of the guard.
LEMMA LockStep ==
  ASSUME Inv, NEW t \in Tasks, lock(t)
  PROVE  Inv' /\ P!lock(t)
  <1>1. CASE Base!LockBegin(t)
    BY <1>1, LockBeginStep DEF lock, P!lock
  <1>2. CASE Base!LockRefused(t)
    BY <1>2, LockRefusedStep DEF lock, P!lock
  <1>3. CASE Base!LockAcquire(t)
    BY <1>3, LockAcquireStep DEF lock, P!lock
  <1>4. CASE Base!TryLockFails(t)
    BY <1>4, TryLockFailsStep DEF lock, P!lock
  <1>5. CASE Base!GuardDrop(t)
    BY <1>5, GuardDropStep DEF lock, P!lock
  <1>6. QED
    BY <1>1, <1>2, <1>3, <1>4, <1>5 DEF lock, Base!lock

\* read_async and read_relaxed.
LEMMA ReadStep ==
  ASSUME Inv, NEW t \in Tasks, read(t)
  PROVE  Inv' /\ (P!read(t) \/ UNCHANGED P!vars)
  <1>1. CASE ReadWait(t)
    BY <1>1, ReadWaitStep
  <1>2. CASE Cell!ReadBegin(t) /\ UNCHANGED <<extra, waits>>
    BY <1>2, ReadBeginStep DEF P!read, P!Cell!read
  <1>3. CASE Cell!ReadRefused(t) /\ UNCHANGED <<extra, waits>>
    BY <1>3, ReadRefusedStep DEF P!read, P!Cell!read
  <1>4. CASE ReadCheck(t)
    BY <1>4, ReadCheckStep DEF P!read, P!Cell!read
  <1>5. CASE ReadLook(t)
    BY <1>5, ReadLookStep DEF P!read, P!Cell!read
  <1>6. CASE count_up(t)
    BY <1>6, count_upStep
  <1>7. QED
    BY <1>1, <1>2, <1>3, <1>4, <1>5, <1>6 DEF read, ReadAtOnce

\* finish_reading.
LEMMA FinishStep ==
  ASSUME Inv, NEW t \in Tasks, count_down(t)
  PROVE  Inv' /\ (P!ReadEnd(t) \/ UNCHANGED P!vars)
  <1>1. CASE finish_reading(t)
    BY <1>1, finish_readingStep DEF P!ReadEnd
  <1>2. CASE ExcessFinishReading(t)
    BY <1>2, ExcessFinishReadingStep
  <1>3. CASE LastReader(t)
    BY <1>3, LastReaderStep
  <1>4. QED
    BY <1>1, <1>2, <1>3 DEF count_down

\* Every step preserves the invariant and is a step of PhasedCellAsync or none.
LEMMA NextStep ==
  ASSUME Inv, [GracefulNext]_vars PROVE Inv' /\ [P!AsyncNext]_P!vars
  <1>1. CASE UNCHANGED vars
    <2>1. TypeOK'
      BY <1>1 DEF Inv, TypeOK, vars, cellVars, waits
    <2>2. PlaceInv'
      <3> SUFFICES ASSUME NEW t \in Tasks PROVE PlaceAt(t)' /\ HoldsAt(t)' /\ FreshAt(t)'
        BY DEF PlaceInv
      <3>1. PlaceAt(t) /\ HoldsAt(t) /\ FreshAt(t)
        BY DEF Inv, PlaceInv
      <3>2. PlaceAt(t)'
        BY <1>1, <3>1 DEF PlaceAt, Waiting, vars, cellVars
      <3>3. HoldsAt(t)' /\ FreshAt(t)'
        BY <1>1, <3>1 DEF HoldsAt, FreshAt, GaveUp, vars, cellVars
      <3>4. QED
        BY <3>2, <3>3
    <2>3. OwnerInv'
      BY <1>1 DEF Inv, OwnerInv, InTransition, Waiting, vars, cellVars
    <2>4. CountInv'
      BY <1>1 DEF Inv, CountInv, Counted, vars, cellVars, waits
    <2>5. WakeInv'
      BY <1>1 DEF Inv, WakeInv, TellsReaders, TellsCleanup, NotifiesLocked, vars, cellVars, waits
    <2>6. UNCHANGED P!vars
      BY <1>1 DEF P!vars, P!cellVars, pcBar, callBar, oldBar, resBar, SeenIdle, Waiting, GaveUp,
         vars, cellVars
    <2>7. QED
      BY <2>1, <2>2, <2>3, <2>4, <2>5, <2>6 DEF Inv
  <1>2. ASSUME NEW t \in Tasks,
               transition_to_read_async(t) \/ force_to_read(t) \/ ToReadCommit(t) \/ Notify(t)
        PROVE  Inv' /\ [P!AsyncNext]_P!vars
    <2>1. CASE transition_to_read_async(t)
      BY <2>1, ToReadStep
      DEF transition_to_read_async, Base!transition_to_read_async, P!AsyncNext,
          P!transition_to_read_async
    <2>2. CASE force_to_read(t)
      BY <2>2, ToReadStep DEF force_to_read, Base!force_to_read, P!AsyncNext, P!force_to_read
    <2>3. CASE ToReadCommit(t)
      <3>1. Inv' /\ P!As(t, forced[t]) /\ P!Cell!transition_to_read(t)
        BY <2>3, ToReadCommitStep DEF P!Cell!transition_to_read
      <3>2. forced[t] = FALSE \/ forced[t] = TRUE
        BY DEF Inv, TypeOK
      <3>3. QED
        BY <3>1, <3>2 DEF P!AsyncNext, P!transition_to_read_async, P!force_to_read
    <2>4. CASE Notify(t)
      BY <2>4, NotifyStep
    <2>5. QED
      BY <1>2, <2>1, <2>2, <2>3, <2>4
  <1>3. ASSUME NEW t \in Tasks,
               \/ ToCleanupBegin(t) \/ CleanupCheck(t)
               \/ transition_to_cleanup_async(t) \/ force_to_cleanup(t)
        PROVE  Inv' /\ [P!AsyncNext]_P!vars
    <2>1. CASE ToCleanupBegin(t)
      BY <2>1, GracefulToCleanupBeginStep
      DEF P!AsyncNext, P!transition_to_cleanup_async, P!Cell!transition_to_cleanup
    <2>2. CASE CleanupCheck(t)
      BY <2>2, CleanupCheckStep
    <2>3. CASE transition_to_cleanup_async(t)
      BY <2>3, ToCleanupStep
      DEF transition_to_cleanup_async, Base!transition_to_cleanup_async, P!AsyncNext,
          P!transition_to_cleanup_async
    <2>4. CASE force_to_cleanup(t)
      BY <2>4, ToCleanupStep
      DEF force_to_cleanup, Base!force_to_cleanup, P!AsyncNext, P!force_to_cleanup
    <2>5. QED
      BY <1>3, <2>1, <2>2, <2>3, <2>4
  <1>4. ASSUME NEW t \in Tasks,
               \/ WaitSleep(t) \/ WaitPoll(t) \/ WaitTimeout(t)
               \/ PanicEarly(t) \/ CancelWait(t) \/ Cancel(t) \/ ForceFails(t) \/ ForceGivesUp(t)
        PROVE  Inv' /\ [P!AsyncNext]_P!vars
    <2>1. CASE WaitSleep(t) \/ WaitPoll(t) \/ WaitTimeout(t)
      BY <2>1, WaitSleepStep, WaitPollStep, WaitTimeoutStep
    <2>2. CASE PanicEarly(t) \/ CancelWait(t) \/ Cancel(t)
      BY <2>2, PanicEarlyStep, CancelWaitStep, CancelStep DEF P!AsyncNext
    <2>3. CASE ForceFails(t) \/ ForceGivesUp(t)
      BY <2>3, ForceFailsStep, ForceGivesUpStep DEF P!AsyncNext
    <2>4. QED
      BY <1>4, <2>1, <2>2, <2>3
  <1>5. ASSUME NEW t \in Tasks,
               lock(t) \/ read(t) \/ count_down(t) \/ Unlock(t) \/ Return(t)
        PROVE  Inv' /\ [P!AsyncNext]_P!vars
    <2>1. CASE lock(t)
      BY <2>1, LockStep DEF P!AsyncNext
    <2>2. CASE read(t) \/ count_down(t)
      BY <2>2, ReadStep, FinishStep DEF P!AsyncNext
    <2>3. CASE Unlock(t) \/ Return(t)
      BY <2>3, UnlockStep, ReturnStep DEF P!AsyncNext
    <2>4. QED
      BY <1>5, <2>1, <2>2, <2>3
  <1>6. QED
    BY <1>1, <1>2, <1>3, <1>4, <1>5 DEF GracefulNext

\* A wait of a cleanup ends well only in CleanupCheck, which has found the counter at 0.
LEMMA OkStep ==
  ASSUME Inv, GracefulNext, NEW t \in Tasks, result_w[t] # "Ok", result_w'[t] = "Ok"
  PROVE  graceful_counter = 0
  <1> SUFFICES ASSUME graceful_counter # 0 PROVE FALSE
    OBVIOUS
  <1>1. result_w \in [Tasks -> {"none", "Ok", "Timeout"}]
    BY DEF Inv, TypeOK
  <1>2. PICK u \in Tasks :
          \/ UNCHANGED result_w
          \/ result_w' = [result_w EXCEPT ![u] = "none"]
          \/ result_w' = [result_w EXCEPT ![u] = "Timeout"]
          \/ result_w' = [result_w EXCEPT ![u] = @]
    <2>1. PICK u \in Tasks :
            \/ transition_to_read_async(u) \/ force_to_read(u) \/ ToReadCommit(u) \/ Notify(u)
            \/ ToCleanupBegin(u) \/ CleanupCheck(u)
            \/ transition_to_cleanup_async(u) \/ force_to_cleanup(u)
            \/ WaitSleep(u) \/ WaitPoll(u) \/ WaitTimeout(u)
            \/ PanicEarly(u) \/ CancelWait(u) \/ Cancel(u) \/ ForceFails(u) \/ ForceGivesUp(u)
            \/ lock(u) \/ read(u) \/ count_down(u)
            \/ Unlock(u) \/ Return(u)
      BY DEF GracefulNext
    <2>2. CASE transition_to_read_async(u) \/ force_to_read(u) \/ ToReadCommit(u) \/ Notify(u)
      BY <2>2 DEF transition_to_read_async, force_to_read, ToReadCommit, Notify, waits
    <2>3. CASE \/ ToCleanupBegin(u) \/ CleanupCheck(u)
               \/ transition_to_cleanup_async(u) \/ force_to_cleanup(u)
      BY <2>3 DEF ToCleanupBegin, CleanupCheck, transition_to_cleanup_async, force_to_cleanup,
         waits
    <2>4. CASE \/ WaitSleep(u) \/ WaitPoll(u) \/ WaitTimeout(u) \/ PanicEarly(u)
               \/ CancelWait(u) \/ Cancel(u) \/ ForceFails(u) \/ ForceGivesUp(u)
      BY <2>4 DEF WaitSleep, WaitPoll, WaitTimeout, PanicEarly, CancelWait, Cancel, ForceFails,
         ForceGivesUp, waits
    <2>5. CASE lock(u) \/ read(u) \/ count_down(u) \/ Unlock(u) \/ Return(u)
      BY <2>5 DEF lock, read, ReadWait, ReadAtOnce, ReadCheck, ReadLook, count_up, count_down,
         finish_reading, ExcessFinishReading, Decrement, LastReader, Unlock, Return, waits
    <2>6. QED
      BY <2>1, <2>2, <2>3, <2>4, <2>5
  <1>3. QED
    BY <1>1, <1>2

-----------------------------------------------------------------------------
(* The theorems *)

\* For any finite set of tasks, whichever accidents happen, every variable of the cell
\* keeps to its set of values, a transition is alone, a reader is counted until it calls
\* finish_reading, and a sleeper without anybody to tell it has met an accident: Inv, the
\* inductive invariant.
THEOREM Invariance == GracefulSpec => []Inv
  <1>1. Inv /\ [GracefulNext]_vars => Inv'
    BY NextStep
  <1>2. QED
    BY <1>1, InitStep, PTL DEF GracefulSpec

\* A task sleeps on after what it waits for has come about only if a notification fell
\* between its test and its notified(), or a forced transition to Read told no reader that
\* it had failed: every other path of the code notifies.
THEOREM ForgettingNeedsAnAccident == GracefulSpec => []ForgottenOnlyByAccident
  <1>1. Inv => ForgottenOnlyByAccident
    <2> SUFFICES ASSUME Inv, NEW t \in Tasks, Forgotten(t), "missed" \notin accidents
                 PROVE  call[t] = "read" /\ "contended" \in accidents
      BY DEF ForgottenOnlyByAccident
    <2>1. CASE call[t] = "transition_to_cleanup"
      BY <2>1 DEF Inv, WakeInv, Forgotten, TellsCleanup
    <2>2. CASE call[t] # "transition_to_cleanup"
      BY <2>2 DEF Inv, WakeInv, Forgotten, TellsReaders
    <2>3. QED
      BY <2>1, <2>2
  <1>2. QED
    BY <1>1, Invariance, PTL

\* A cleanup whose wait ends well runs its closure only after every counted reader has
\* called finish_reading, unless somebody called it in a reader's place.
THEOREM DrainedBeforeCleanup == GracefulSpec => WaitOkOnlyWhenDrained
  <1> DEFINE Drained ==
        \A t \in Tasks :
           result_w[t] # "Ok" /\ result_w'[t] = "Ok"
              => \/ "surplus" \in accidents
                 \/ \A u \in Tasks : pc[u] # "reading"
  <1>1. Inv /\ [GracefulNext]_vars => [Drained]_vars
    <2> SUFFICES ASSUME Inv, GracefulNext, NEW t \in Tasks, result_w[t] # "Ok",
                        result_w'[t] = "Ok", "surplus" \notin accidents
                 PROVE  \A u \in Tasks : pc[u] # "reading"
      OBVIOUS
    <2>1. Cardinality(Counted) = 0
      BY OkStep DEF Inv, CountInv
    <2>2. IsFiniteSet(Counted)
      BY GracefulAsyncAssumption, FS_Subset DEF GracefulAsyncAssumption, Counted
    <2>3. QED
      BY <2>1, <2>2, FS_EmptySet DEF Counted
  <1>2. QED
    BY <1>1, Invariance, PTL DEF GracefulSpec, WaitOkOnlyWhenDrained

\* The graceful cell is a PhasedCellAsync, seen through the mapping: waiting, time-outs,
\* counting, notifying and calls of finish_reading that nobody owes let no method do to the
\* phase, the data or the mutex what PhasedCellAsync would not.
THEOREM RefinesPhasedCellAsync == GracefulSpec => ImplementsPhasedCellAsync
  <1>1. Inv /\ [GracefulNext]_vars => [P!AsyncNext]_P!vars
    BY NextStep
  <1>2. QED
    BY <1>1, InitStep, Invariance, PTL
    DEF GracefulSpec, ImplementsPhasedCellAsync, P!AsyncSpec

-----------------------------------------------------------------------------
(* What the graceful cell inherits from PhasedCellAsync *)

HIDE DEF P!PHASE_SETUP, P!PHASE_READ, P!PHASE_CLEANUP, P!PHASE_SETUP_TO_READ,
         P!PHASE_READ_TO_CLEANUP, P!PHASE_SETUP_TO_CLEANUP,
         P!Cell!PHASE_SETUP, P!Cell!PHASE_READ, P!Cell!PHASE_CLEANUP,
         P!Cell!PHASE_SETUP_TO_READ, P!Cell!PHASE_READ_TO_CLEANUP,
         P!Cell!PHASE_SETUP_TO_CLEANUP

\* Of the accidents that are allowed here, PhasedCellAsync knows its own.
PP == INSTANCE PhasedCellAsyncProofs
        WITH pc <- pcBar, call <- callBar, old <- oldBar, res <- resBar,
             accidents <- accidents \cap Base!Accident,
             Allowed <- Allowed \cap Base!Accident

\* PP is P again, with its theorems: first the steps of PhasedCellSync's methods.
LEMMA SameSyncSteps ==
  ASSUME NEW t \in Tasks
  PROVE  /\ P!Cell!transition_to_read(t) <=> PP!Cell!transition_to_read(t)
         /\ P!Cell!transition_to_cleanup(t) <=> PP!Cell!transition_to_cleanup(t)
         /\ P!Cell!LockBegin(t) <=> PP!Cell!LockBegin(t)
         /\ P!Cell!TryLockBegin(t) <=> PP!Cell!TryLockBegin(t)
         /\ P!Cell!LockRefused(t) <=> PP!Cell!LockRefused(t)
         /\ P!Cell!TryLockFails(t) <=> PP!Cell!TryLockFails(t)
         /\ P!Cell!read(t) <=> PP!Cell!read(t)
         /\ P!Cell!ReadEnd(t) <=> PP!Cell!ReadEnd(t)
         /\ P!Cell!Unlock(t) <=> PP!Cell!Unlock(t)
         /\ P!Cell!Return(t) <=> PP!Cell!Return(t)
  <1>1. P!Cell!transition_to_read(t) <=> PP!Cell!transition_to_read(t)
    BY DEF P!Cell!transition_to_read, P!Cell!ToReadBegin, P!Cell!ToReadRefused,
       P!Cell!ToReadLock, P!Cell!ToReadRun, P!Cell!ToReadSwap, P!Cell!ToReadCommit,
       P!Cell!ToReadFault, P!Cell!data, P!Cell!mutex, P!Cell!Step, P!Cell!Enter,
       P!Cell!Refuse, P!Cell!change_phase, P!Cell!PHASE_SETUP, P!Cell!PHASE_READ,
       P!Cell!PHASE_CLEANUP, P!Cell!PHASE_SETUP_TO_READ, P!Cell!PHASE_READ_TO_CLEANUP,
       P!Cell!PHASE_SETUP_TO_CLEANUP, P!Cell!Ok, P!Cell!Panic, P!Cell!NoResult, P!Cell!Err,
       P!Cell!u8_to_phase, P!Cell!Via, P!Cell!ToReadRefusal, P!Cell!ToCleanupRefusal,
       P!Cell!LockRefusal, PP!Cell!transition_to_read, PP!Cell!ToReadBegin,
       PP!Cell!ToReadRefused, PP!Cell!ToReadLock, PP!Cell!ToReadRun, PP!Cell!ToReadSwap,
       PP!Cell!ToReadCommit, PP!Cell!ToReadFault, PP!Cell!data, PP!Cell!mutex, PP!Cell!Step,
       PP!Cell!Enter, PP!Cell!Refuse, PP!Cell!change_phase, PP!Cell!PHASE_SETUP,
       PP!Cell!PHASE_READ, PP!Cell!PHASE_CLEANUP, PP!Cell!PHASE_SETUP_TO_READ,
       PP!Cell!PHASE_READ_TO_CLEANUP, PP!Cell!PHASE_SETUP_TO_CLEANUP, PP!Cell!Ok,
       PP!Cell!Panic, PP!Cell!NoResult, PP!Cell!Err, PP!Cell!u8_to_phase, PP!Cell!Via,
       PP!Cell!ToReadRefusal, PP!Cell!ToCleanupRefusal, PP!Cell!LockRefusal
  <1>2. P!Cell!transition_to_cleanup(t) <=> PP!Cell!transition_to_cleanup(t)
    BY DEF P!Cell!transition_to_cleanup, P!Cell!ToCleanupBegin, P!Cell!ToCleanupRefused,
       P!Cell!ToCleanupLock, P!Cell!ToCleanupRun, P!Cell!ToCleanupSwap,
       P!Cell!ToCleanupCommit, P!Cell!ToCleanupFault, P!Cell!data, P!Cell!mutex,
       P!Cell!Step, P!Cell!Enter, P!Cell!Refuse, P!Cell!change_phase, P!Cell!PHASE_SETUP,
       P!Cell!PHASE_READ, P!Cell!PHASE_CLEANUP, P!Cell!PHASE_SETUP_TO_READ,
       P!Cell!PHASE_READ_TO_CLEANUP, P!Cell!PHASE_SETUP_TO_CLEANUP, P!Cell!Ok, P!Cell!Panic,
       P!Cell!NoResult, P!Cell!Err, P!Cell!u8_to_phase, P!Cell!Via, P!Cell!ToReadRefusal,
       P!Cell!ToCleanupRefusal, P!Cell!LockRefusal, PP!Cell!transition_to_cleanup,
       PP!Cell!ToCleanupBegin, PP!Cell!ToCleanupRefused, PP!Cell!ToCleanupLock,
       PP!Cell!ToCleanupRun, PP!Cell!ToCleanupSwap, PP!Cell!ToCleanupCommit,
       PP!Cell!ToCleanupFault, PP!Cell!data, PP!Cell!mutex, PP!Cell!Step, PP!Cell!Enter,
       PP!Cell!Refuse, PP!Cell!change_phase, PP!Cell!PHASE_SETUP, PP!Cell!PHASE_READ,
       PP!Cell!PHASE_CLEANUP, PP!Cell!PHASE_SETUP_TO_READ, PP!Cell!PHASE_READ_TO_CLEANUP,
       PP!Cell!PHASE_SETUP_TO_CLEANUP, PP!Cell!Ok, PP!Cell!Panic, PP!Cell!NoResult,
       PP!Cell!Err, PP!Cell!u8_to_phase, PP!Cell!Via, PP!Cell!ToReadRefusal,
       PP!Cell!ToCleanupRefusal, PP!Cell!LockRefusal
  <1>3. /\ P!Cell!LockBegin(t) <=> PP!Cell!LockBegin(t)
        /\ P!Cell!TryLockBegin(t) <=> PP!Cell!TryLockBegin(t)
        /\ P!Cell!LockRefused(t) <=> PP!Cell!LockRefused(t)
        /\ P!Cell!TryLockFails(t) <=> PP!Cell!TryLockFails(t)
    BY DEF P!Cell!LockBegin, P!Cell!LockRefused, P!Cell!Lockable, P!Cell!TryLockBegin,
       P!Cell!TryLockFails, P!Cell!data, P!Cell!mutex, P!Cell!Step, P!Cell!Enter,
       P!Cell!Refuse, P!Cell!change_phase, P!Cell!PHASE_SETUP, P!Cell!PHASE_READ,
       P!Cell!PHASE_CLEANUP, P!Cell!PHASE_SETUP_TO_READ, P!Cell!PHASE_READ_TO_CLEANUP,
       P!Cell!PHASE_SETUP_TO_CLEANUP, P!Cell!Ok, P!Cell!Panic, P!Cell!NoResult, P!Cell!Err,
       P!Cell!u8_to_phase, P!Cell!Via, P!Cell!ToReadRefusal, P!Cell!ToCleanupRefusal,
       P!Cell!LockRefusal, PP!Cell!LockBegin, PP!Cell!LockRefused, PP!Cell!Lockable,
       PP!Cell!TryLockBegin, PP!Cell!TryLockFails, PP!Cell!data, PP!Cell!mutex,
       PP!Cell!Step, PP!Cell!Enter, PP!Cell!Refuse, PP!Cell!change_phase,
       PP!Cell!PHASE_SETUP, PP!Cell!PHASE_READ, PP!Cell!PHASE_CLEANUP,
       PP!Cell!PHASE_SETUP_TO_READ, PP!Cell!PHASE_READ_TO_CLEANUP,
       PP!Cell!PHASE_SETUP_TO_CLEANUP, PP!Cell!Ok, PP!Cell!Panic, PP!Cell!NoResult,
       PP!Cell!Err, PP!Cell!u8_to_phase, PP!Cell!Via, PP!Cell!ToReadRefusal,
       PP!Cell!ToCleanupRefusal, PP!Cell!LockRefusal
  <1>4. /\ P!Cell!read(t) <=> PP!Cell!read(t)
        /\ P!Cell!ReadEnd(t) <=> PP!Cell!ReadEnd(t)
        /\ P!Cell!Unlock(t) <=> PP!Cell!Unlock(t)
        /\ P!Cell!Return(t) <=> PP!Cell!Return(t)
    BY DEF P!Cell!read, P!Cell!ReadBegin, P!Cell!ReadRefused, P!Cell!ReadLook,
       P!Cell!ReadEnd, P!Cell!Unlock, P!Cell!Return, P!Cell!data, P!Cell!mutex, P!Cell!Step,
       P!Cell!Enter, P!Cell!Refuse, P!Cell!change_phase, P!Cell!PHASE_SETUP,
       P!Cell!PHASE_READ, P!Cell!PHASE_CLEANUP, P!Cell!PHASE_SETUP_TO_READ,
       P!Cell!PHASE_READ_TO_CLEANUP, P!Cell!PHASE_SETUP_TO_CLEANUP, P!Cell!Ok, P!Cell!Panic,
       P!Cell!NoResult, P!Cell!Err, P!Cell!u8_to_phase, P!Cell!Via, P!Cell!ToReadRefusal,
       P!Cell!ToCleanupRefusal, P!Cell!LockRefusal, PP!Cell!read, PP!Cell!ReadBegin,
       PP!Cell!ReadRefused, PP!Cell!ReadLook, PP!Cell!ReadEnd, PP!Cell!Unlock,
       PP!Cell!Return, PP!Cell!data, PP!Cell!mutex, PP!Cell!Step, PP!Cell!Enter,
       PP!Cell!Refuse, PP!Cell!change_phase, PP!Cell!PHASE_SETUP, PP!Cell!PHASE_READ,
       PP!Cell!PHASE_CLEANUP, PP!Cell!PHASE_SETUP_TO_READ, PP!Cell!PHASE_READ_TO_CLEANUP,
       PP!Cell!PHASE_SETUP_TO_CLEANUP, PP!Cell!Ok, PP!Cell!Panic, PP!Cell!NoResult,
       PP!Cell!Err, PP!Cell!u8_to_phase, PP!Cell!Via, PP!Cell!ToReadRefusal,
       PP!Cell!ToCleanupRefusal, PP!Cell!LockRefusal
  <1>5. QED
    BY <1>1, <1>2, <1>3, <1>4

\* Then those of PhasedCellAsync alone.
LEMMA SameOwnSteps ==
  ASSUME NEW t \in Tasks
  PROVE  /\ P!As(t, TRUE) <=> PP!As(t, TRUE)
         /\ P!As(t, FALSE) <=> PP!As(t, FALSE)
         /\ P!PanicEarly(t) <=> PP!PanicEarly(t)
         /\ P!Cancel(t) <=> PP!Cancel(t)
         /\ P!ForceFails(t) <=> PP!ForceFails(t)
         /\ P!ForceGivesUp(t) <=> PP!ForceGivesUp(t)
         /\ P!LockAcquire(t) <=> PP!LockAcquire(t)
         /\ P!GuardDrop(t) <=> PP!GuardDrop(t)
  <1>1. /\ P!As(t, TRUE) <=> PP!As(t, TRUE)
        /\ P!As(t, FALSE) <=> PP!As(t, FALSE)
        /\ P!PanicEarly(t) <=> PP!PanicEarly(t)
        /\ P!Cancel(t) <=> PP!Cancel(t)
        /\ P!GuardDrop(t) <=> PP!GuardDrop(t)
    BY DEF P!data, P!mutex, P!extra, P!As, P!PanicEarly, P!Cancel, P!GuardDrop, P!Ok,
       P!Panic, P!NoResult, P!PHASE_SETUP, PP!data, PP!mutex, PP!extra, PP!As,
       PP!PanicEarly, PP!Cancel, PP!GuardDrop, PP!Ok, PP!Panic, PP!NoResult, PP!PHASE_SETUP,
       Base!Accident
  <1>2. /\ P!ForceFails(t) <=> PP!ForceFails(t)
        /\ P!ForceGivesUp(t) <=> PP!ForceGivesUp(t)
    BY DEF P!data, P!mutex, P!extra, P!ForceFails, P!ForceGivesUp, P!Err, P!u8_to_phase,
       P!PHASE_SETUP, P!PHASE_READ, P!PHASE_CLEANUP, P!PHASE_SETUP_TO_READ,
       P!PHASE_READ_TO_CLEANUP, P!PHASE_SETUP_TO_CLEANUP, PP!data, PP!mutex, PP!extra,
       PP!ForceFails, PP!ForceGivesUp, PP!Err, PP!u8_to_phase, PP!PHASE_SETUP,
       PP!PHASE_READ, PP!PHASE_CLEANUP, PP!PHASE_SETUP_TO_READ, PP!PHASE_READ_TO_CLEANUP,
       PP!PHASE_SETUP_TO_CLEANUP, P!Cell!Step, P!Cell!change_phase, PP!Cell!Step,
       PP!Cell!change_phase, Base!Accident
  <1>3. P!LockAcquire(t) <=> PP!LockAcquire(t)
    BY DEF P!data, P!mutex, P!extra, P!LockAcquire, P!LockFault, P!Err, P!u8_to_phase,
       P!NoResult, P!PHASE_SETUP, P!PHASE_READ, P!PHASE_CLEANUP, P!PHASE_SETUP_TO_READ,
       P!PHASE_READ_TO_CLEANUP, P!PHASE_SETUP_TO_CLEANUP, PP!data, PP!mutex, PP!extra,
       PP!LockAcquire, PP!LockFault, PP!Err, PP!u8_to_phase, PP!NoResult, PP!PHASE_SETUP,
       PP!PHASE_READ, PP!PHASE_CLEANUP, PP!PHASE_SETUP_TO_READ, PP!PHASE_READ_TO_CLEANUP,
       PP!PHASE_SETUP_TO_CLEANUP, P!Cell!Step, PP!Cell!Step
  <1>4. QED
    BY <1>1, <1>2, <1>3

LEMMA SameCell ==
  /\ P!AsyncInit <=> PP!AsyncInit
  /\ [P!AsyncNext]_(P!vars) <=> [PP!AsyncNext]_(PP!vars)
  <1>1. P!AsyncInit <=> PP!AsyncInit
    BY DEF P!AsyncInit, P!Cell!PhasedCellSyncInit, P!Cell!PHASE_SETUP, P!Cell!NoResult,
       PP!AsyncInit, PP!Cell!PhasedCellSyncInit, PP!Cell!PHASE_SETUP, PP!Cell!NoResult
  <1>2. P!AsyncNext <=> PP!AsyncNext
    BY SameSyncSteps, SameOwnSteps DEF P!Return, P!Unlock, P!transition_to_read_async,
       P!transition_to_cleanup_async, P!force_to_read, P!force_to_cleanup, P!LockBegin,
       P!LockRefused, P!TryLockFails, P!lock, P!read, P!ReadEnd, P!AsyncNext, P!extra,
       PP!Return, PP!Unlock, PP!transition_to_read_async, PP!transition_to_cleanup_async,
       PP!force_to_read, PP!force_to_cleanup, PP!LockBegin, PP!LockRefused, PP!TryLockFails,
       PP!lock, PP!read, PP!ReadEnd, PP!AsyncNext, PP!extra
  <1>3. UNCHANGED P!vars <=> UNCHANGED PP!vars
    BY DEF P!vars, P!cellVars, PP!vars, PP!cellVars
  <1>4. QED
    BY <1>1, <1>2, <1>3

\* What PP assumes of the tasks and of the accidents.
LEMMA SeenAccidents == PP!AsyncAssumption
  BY GracefulAsyncAssumption DEF PP!AsyncAssumption, PP!Accident, Base!Accident

\* What PhasedCellAsyncProofs proves of every step, it proves of the graceful cell.
LEMMA SeenAsCell == GracefulSpec => PP!AsyncSpec
  BY RefinesPhasedCellAsync, SameCell, PTL
  DEF ImplementsPhasedCellAsync, P!AsyncSpec, PP!AsyncSpec

\* The places at the data are seen as they are.
LEMMA SeenPlaces ==
  ASSUME Inv, NEW t \in Tasks
  PROVE  /\ pc[t] \in {"run", "swap", "commit", "guard", "reading"} => pcBar[t] = pc[t]
         /\ pc[t] = "count" => pcBar[t] = "reading"
         /\ InTransition(t) <=> PP!InTransition(t)
  <1>1. /\ pc[t] \in {"run", "swap", "commit", "guard", "reading"} => pcBar[t] = pc[t]
        /\ pc[t] = "count" => pcBar[t] = "reading"
    BY DEF Inv, PlaceInv, PlaceAt, FreshAt, Transition, pcBar, SeenIdle, Waiting
  <1>2. InTransition(t) => PP!InTransition(t)
    BY DEF Inv, PlaceInv, PlaceAt, FreshAt, InTransition, PP!InTransition, Transition, pcBar,
       callBar, SeenIdle, Waiting
  <1>3. PP!InTransition(t) => InTransition(t)
    BY DEF InTransition, PP!InTransition, Transition, pcBar, callBar, SeenIdle, Waiting
  <1>4. QED
    BY <1>1, <1>2, <1>3

\* Closures and guards never overlap in the async graceful cell, either.
THEOREM GracefulExclusiveAccess == GracefulSpec => []Cell!ExclusiveMut
  <1>1. Inv /\ PP!ExclusiveMut => Cell!ExclusiveMut
    BY SeenPlaces
    DEF Cell!ExclusiveMut, Cell!Mutating, PP!ExclusiveMut, PP!Cell!ExclusiveMut,
        PP!Cell!Mutating
  <1>2. QED
    BY <1>1, SeenAsCell, PP!ExclusiveAccess, SeenAccidents, Invariance, PTL

\* While the cell shows Read nobody can change the data: a cleanup that waits has already
\* changed the phase.
THEOREM GracefulReadIsImmutable == GracefulSpec => []Cell!ReadPhaseIsImmutable
  <1>1. Inv /\ PP!ReadPhaseIsImmutable => Cell!ReadPhaseIsImmutable
    BY SeenPlaces
    DEF Cell!ReadPhaseIsImmutable, Cell!Mutating, PP!ReadPhaseIsImmutable,
        PP!Cell!ReadPhaseIsImmutable, PP!Cell!Mutating, PP!Cell!PHASE_READ
  <1>2. QED
    BY <1>1, SeenAsCell, PP!ReadIsImmutable, SeenAccidents, Invariance, PTL

\* A reader with its &T, one that has waited for Read included, meets nobody who changes the
\* data but a cleanup, whose wait did not count it or has timed out, and what comes after.
THEOREM GracefulReadersMeetCleanups == GracefulSpec => []Cell!ReadersMeetOnlyCleanup
  <1>1. Inv /\ PP!ReadersMeetOnlyCleanup => Cell!ReadersMeetOnlyCleanup
    BY SeenPlaces
    DEF Cell!ReadersMeetOnlyCleanup, Cell!Mutating, PP!ReadersMeetOnlyCleanup,
        PP!Cell!ReadersMeetOnlyCleanup, PP!Cell!Mutating, PP!Cell!PHASE_READ_TO_CLEANUP,
        PP!Cell!PHASE_CLEANUP
  <1>2. QED
    BY <1>1, SeenAsCell, PP!ReadersMeetCleanups, SeenAccidents, Invariance, PTL

\* The data is where its phase looks for it, unless a forced cleanup found the mutex locked.
THEOREM GracefulDataStaysHome == GracefulSpec => []Base!DataHome
  <1>1. PP!DataHome => Base!DataHome
    BY DEF PP!DataHome, Base!DataHome, Base!Accident, PP!PHASE_READ, PP!PHASE_SETUP,
       PP!PHASE_CLEANUP
  <1>2. QED
    BY <1>1, SeenAsCell, PP!DataStaysHome, SeenAccidents, PTL

\* What a result tells of the cell is still so when the caller gets it: of a reader that
\* gave up nothing is said, and what is said of the others is what the cell that is seen says.
THEOREM GracefulResultsAreTruthful == GracefulSpec => []Base!TruthfulResults
  <1>1. ASSUME Inv, PP!TruthfulResults, NEW t \in Tasks, pc[t] = "ret"
        PROVE  Base!Truthful(t)
    <2>1. CASE call[t] = "finish_reading"
      <3>1. res[t].kind = "None"
        BY <1>1, <2>1 DEF Inv, PlaceInv, FreshAt, NoResult
      <3>2. QED
        BY <2>1, <3>1 DEF Base!Truthful
    <2>2. CASE GaveUp(t)
      <3>1. call[t] = "read"
        BY <1>1, <2>2 DEF Inv, PlaceInv, FreshAt
      <3>2. QED
        BY <2>2, <3>1 DEF GaveUp, Base!Truthful
    <2>3. CASE call[t] # "finish_reading" /\ ~GaveUp(t)
      <3>1. pcBar[t] = "ret" /\ PP!Truthful(t)
        BY <1>1, <2>3 DEF PP!TruthfulResults, pcBar, SeenIdle, Waiting
      <3>2. callBar[t] = call[t]
        BY <3>1 DEF callBar
      <3>3. resBar[t].kind = res[t].kind
        BY <2>3 DEF resBar, Err
      <3>4. /\ PP!Cell!Reached(1) <=> Base!Cell!Reached(1)
            /\ PP!Cell!Reached(2) <=> Base!Cell!Reached(2)
        BY DEF PP!Cell!Reached, Base!Cell!Reached, PP!Cell!Rank, Base!Cell!Rank,
           PP!Cell!u8_to_phase, Base!Cell!u8_to_phase, PP!Cell!PHASE_SETUP,
           PP!Cell!PHASE_SETUP_TO_READ, PP!Cell!PHASE_READ
      <3>5. "panicked" \in accidents \cap Base!Accident => "panicked" \in accidents
        OBVIOUS
      <3>6. QED
        BY <3>1, <3>2, <3>3, <3>4, <3>5
        DEF PP!Truthful, Base!Truthful, PP!PHASE_CLEANUP, PP!PHASE_SETUP_TO_CLEANUP
    <2>4. QED
      BY <2>1, <2>2, <2>3
  <1>2. Inv /\ PP!TruthfulResults => Base!TruthfulResults
    BY <1>1 DEF Base!TruthfulResults
  <1>3. QED
    BY <1>2, SeenAsCell, PP!ResultsAreTruthful, SeenAccidents, Invariance, PTL

\* While a transition is open or abandoned, whatever it waits for, nobody new comes to
\* data_mutex, and who is at it goes on or leaves.
THEOREM GracefulTransitionsWindDown == GracefulSpec => PP!TransitionsWindDown
  BY SeenAsCell, PP!OpenTransitionsWindDown, SeenAccidents, PTL

\* Once a cleanup has begun, or was abandoned, nobody becomes a reader any more.
THEOREM GracefulNoNewReaders == GracefulSpec => PP!Cell!ReadersOnlyLeave
  BY SeenAsCell, PP!NoNewReaders, SeenAccidents, PTL

\* The graceful cell is stuck exactly when the cell that is seen is.
LEMMA SeenWedged == ASSUME Inv PROVE Wedged <=> PP!Wedged
  BY SeenPlaces
  DEF Wedged, PP!Wedged, InTransit, PP!InTransit, PP!PHASE_SETUP_TO_READ,
      PP!PHASE_READ_TO_CLEANUP, PP!PHASE_SETUP_TO_CLEANUP

\* Waiting adds an await at which a cleanup may be cancelled, and no other way to leave the
\* cell stuck.
THEOREM WedgesAreAccidents == GracefulSpec => []WedgedOnlyByAccident
  <1>1. Inv /\ PP!WedgedOnlyByAccident => WedgedOnlyByAccident
    BY SeenWedged
    DEF WedgedOnlyByAccident, PP!WedgedOnlyByAccident, PP!PHASE_SETUP_TO_CLEANUP
  <1>2. QED
    BY <1>1, SeenAsCell, PP!WedgesAreAccidents, SeenAccidents, Invariance, PTL

\* A cell that is stuck is stuck for good: neither the readers that count down nor the tasks
\* that wait get it out of the phase it was left in.
THEOREM WedgesAreForEver == GracefulSpec => WedgedForEver
  <1>1. GracefulSpec => [](Wedged <=> PP!Wedged)
    <2>1. Inv => (Wedged <=> PP!Wedged)
      BY SeenWedged
    <2>2. QED
      BY <2>1, Invariance, PTL
  <1>2. /\ Wedged <=> PP!Wedged
        /\ Wedged' <=> PP!Wedged'
        /\ [PP!Wedged => PP!Wedged' /\ UNCHANGED phase]_(PP!vars)
        => [Wedged => Wedged' /\ UNCHANGED phase]_vars
    <2>1. ASSUME UNCHANGED PP!vars PROVE UNCHANGED phase /\ (PP!Wedged' <=> PP!Wedged)
      BY <2>1 DEF PP!vars, PP!cellVars, PP!Wedged, PP!InTransition
    <2>2. QED
      BY <2>1
  <1>3. QED
    BY <1>1, <1>2, SeenAsCell, PP!WedgesAreForEver, SeenAccidents, PTL
    DEF WedgedForEver, PP!WedgedForEver

\* The phase moves along the edges of the lifecycle only, what `phase()` shows never goes
\* back, and no task closes a transition that another has opened.
THEOREM GracefulKeepsToTheLifecycle ==
  GracefulSpec => PP!LP!FollowsTheGraph /\ PP!LP!NeverGoesBack /\ PP!LP!NeverTakenOver
  BY SeenAsCell, PP!KeepsToTheLifecycle, SeenAccidents, PTL

-----------------------------------------------------------------------------
(* Who waits for whom *)

\* Whom a sleeper waits for is not asleep, and who holds the mutex needs nothing.
LEMMA WaitingGoesDown ==
  ASSUME Inv, NEW t \in Tasks, NEW u \in Tasks, WaitsFor(t, u)
  PROVE  WaitLevel(u) < WaitLevel(t)
  <1>1. CASE WantsData(t) /\ holder = u
    <2>1. pc[u] \in Holding \cup {"notify"}
      BY <1>1 DEF Inv, PlaceInv, HoldsAt
    <2>2. WaitLevel(u) = 0 /\ WaitLevel(t) = 1
      BY <1>1, <2>1 DEF WaitLevel, WantsData, Holding
    <2>3. QED
      BY <2>2
  <1>2. CASE pc[t] = "asleep"
    <2>1. pc[u] # "asleep"
      BY <1>2 DEF WaitsFor, WantsData, Inv, PlaceInv, PlaceAt, TellsReaders, TellsCleanup,
         InTransition, Waiting
    <2>2. WaitLevel(t) = 2 /\ WaitLevel(u) \in {0, 1}
      BY <1>2, <2>1 DEF WaitLevel
    <2>3. QED
      BY <2>2
  <1>3. QED
    BY <1>1, <1>2 DEF WaitsFor

\* A cleanup sleeps for a reader, or for whoever counted the last one down, or is forgotten.
LEMMA CleanupSleepsForSomebody ==
  ASSUME Inv, NEW t \in Tasks, pc[t] = "asleep", call[t] = "transition_to_cleanup"
  PROVE  (\E u \in Tasks : WaitsFor(t, u)) \/ Forgotten(t)
  <1>1. CASE graceful_counter = 0
    BY <1>1 DEF Forgotten, WaitsFor
  <1>2. CASE graceful_counter # 0
    <2>1. Cardinality(Counted) # 0
      <3>1. IsFiniteSet(Counted)
        BY GracefulAsyncAssumption, FS_Subset DEF GracefulAsyncAssumption, Counted
      <3>2. Cardinality(Counted) \in Nat
        BY <3>1, FS_CardinalityType
      <3>3. QED
        BY <1>2, <3>2 DEF Inv, TypeOK, CountInv
    <2>2. PICK u \in Counted : TRUE
      BY <2>1, FS_EmptySet
    <2>3. QED
      BY <2>2 DEF Counted, WaitsFor
  <1>3. QED
    BY <1>1, <1>2

\* A reader sleeps for a transition to Read, or for its announcement, or it is forgotten, or
\* the transition was abandoned.
LEMMA ReaderSleepsForSomebody ==
  ASSUME Inv, NEW t \in Tasks, pc[t] = "asleep", call[t] = "read"
  PROVE  (\E u \in Tasks : WaitsFor(t, u)) \/ Forgotten(t) \/ Wedged
  <1>1. CASE phase # PHASE_SETUP_TO_READ
    BY <1>1 DEF Forgotten, WaitsFor
  <1>2. CASE phase = PHASE_SETUP_TO_READ /\ \E u \in Tasks : InTransition(u)
    <2>1. PICK u \in Tasks : InTransition(u)
      BY <1>2
    <2>2. call[u] = "transition_to_read"
      BY <1>2, <2>1 DEF Inv, OwnerInv, Via
    <2>3. QED
      BY <2>1, <2>2 DEF WaitsFor
  <1>3. CASE phase = PHASE_SETUP_TO_READ /\ \A u \in Tasks : ~InTransition(u)
    BY <1>3 DEF Wedged, InTransit
  <1>4. QED
    BY <1>1, <1>2, <1>3

\* No deadlock, for any finite set of tasks, whichever accidents happen, and with the
\* time-outs left out: who cannot go on waits, through at most one other, for a task that can
\* or a caller that keeps its guard or its &T, or it is forgotten, or waits for a transition
\* that was abandoned.
THEOREM NobodyWaitsInACircle == GracefulSpec => []NoCircularWait
  <1>1. ASSUME Inv, NEW t \in Tasks, Blocked(t)
        PROVE  (\E u \in Tasks : WaitsFor(t, u)) \/ Forgotten(t) \/ Wedged
    <2>1. CASE WantsData(t) /\ holder # Nobody
      <3>1. holder \in Tasks
        BY <1>1, <2>1 DEF Inv, TypeOK
      <3>2. WaitsFor(t, holder)
        BY <2>1 DEF WaitsFor
      <3>3. QED
        BY <3>1, <3>2
    <2>2. CASE pc[t] = "asleep"
      <3>1. call[t] \in {"read", "transition_to_cleanup"}
        BY <1>1, <2>2 DEF Inv, PlaceInv, PlaceAt, Waiting
      <3>2. QED
        BY <1>1, <2>2, <3>1, CleanupSleepsForSomebody, ReaderSleepsForSomebody
    <2>3. QED
      BY <1>1, <2>1, <2>2 DEF Blocked
  <1>2. Inv => NoCircularWait
    BY <1>1, WaitingGoesDown DEF NoCircularWait
  <1>3. QED
    BY <1>2, Invariance, PTL
=================================================================================
