------------------------ MODULE GracefulPhasedCellAsync ------------------------
(***************************************************************************)
(* GracefulPhasedCellAsync<T> (src/src/graceful/phased_cell_async.rs):     *)
(* PhasedCellAsync plus a count of active readers and a tokio::sync::      *)
(* Notify, on which readers wait for Read and an asynchronous cleanup      *)
(* waits for the readers.  No lock joins the test of what a task waits for *)
(* to the creation of its Notified future, and a notification sent between *)
(* the two is missed.                                                      *)
(*                                                                         *)
(* The steps that touch neither are PhasedCellAsync's, reached as Base!A,  *)
(* and PhasedCellSync's, reached as Cell!A, with the variables of the      *)
(* waits left alone.                                                       *)
(***************************************************************************)
EXTENDS Phase, FiniteSets

CONSTANTS Tasks,    \* the tasks (or threads) that share the cell
          Nobody,   \* "no task holds the mutex"
          Allowed   \* the accidents that the instance does not exclude

VARIABLES
    phase, data_mutex, data_cell, holder, pc, call, old, res, poisoned, forced, accidents,
    graceful_counter,  \* the AtomicUsize
    result_w           \* the result of a cleanup's wait: "none", "Ok", "Timeout"

Base == INSTANCE PhasedCellAsync
Cell == INSTANCE PhasedCellSync WITH Threads <- Tasks

Accident ==
    Base!Accident \cup
    {"missed",   \* a notification was sent between a task's test and its notified()
     "surplus"}  \* finish_reading was called once more than read

ASSUME GracefulAsyncAssumption ==
    /\ IsFiniteSet(Tasks) /\ Nobody \notin Tasks
    /\ Allowed \subseteq Accident

cellVars == <<phase, data_mutex, data_cell, holder, poisoned, pc, call, old, res>>
waits == <<graceful_counter, result_w>>
vars == <<cellVars, forced, accidents, waits>>

data == <<data_mutex, data_cell>>
mutex == <<holder, poisoned>>
extra == <<forced, accidents>>

GracefulPC ==
    Base!AsyncPC \cup
    {"check",   \* about to test what it waits for
     "wait",    \* the test failed: about to call notified()
     "asleep",  \* awaits its Notified future, inside time::timeout
     "woken",   \* that future is ready, and has not been polled since
     "notify",  \* about to call notify_waiters
     "count",   \* read has its &T, about to call count_up
     "last"}    \* count_down took the counter to 0, about to load the phase

\* A task in wait_for_read_phase_async or wait_for_cleanup_phase_async.
Waiting(t) == pc[t] \in {"check", "wait", "asleep", "woken"}

GracefulInit ==
    /\ Base!AsyncInit
    /\ graceful_counter = 0
    /\ result_w = [t \in Tasks |-> "none"]

Return(t) ==
    /\ Base!Return(t)
    /\ result_w' = [result_w EXCEPT ![t] = "none"]
    /\ UNCHANGED graceful_counter

-----------------------------------------------------------------------------
(* tokio::sync::Notify and time::timeout *)

\* notify_waiters: every Notified future there is gets ready, and nothing is kept for
\* those to come.
NotifyWaiters(t, next) ==
    LET missed == \E u \in Tasks : pc[u] = "wait" IN
    /\ missed => "missed" \in Allowed
    /\ accidents' = IF missed THEN accidents \cup {"missed"} ELSE accidents
    /\ pc' = [u \in Tasks |-> CASE u = t            -> next
                                [] pc[u] = "asleep" -> "woken"
                                [] OTHER            -> pc[u]]

WaitSleep(t) ==
    /\ pc[t] = "wait"
    /\ pc' = [pc EXCEPT ![t] = "asleep"]
    /\ UNCHANGED <<phase, data, mutex, call, old, res, extra, waits>>

\* The runtime polls a task that was notified, which goes round its loop once more.
WaitPoll(t) ==
    /\ pc[t] = "woken"
    /\ pc' = [pc EXCEPT ![t] = "check"]
    /\ UNCHANGED <<phase, data, mutex, call, old, res, extra, waits>>

\* The time is up before a notification has come.  What the task waits for is not
\* tested again: a reader gets the error, a cleanup goes on.
WaitTimeout(t) ==
    /\ pc[t] = "asleep"
    /\ IF call[t] = "read"
       THEN /\ pc' = [pc EXCEPT ![t] = "ret"]
            /\ res' = [res EXCEPT ![t] = Err(PHASE_SETUP_TO_READ, "GracefulWaitTimeout")]
            /\ UNCHANGED result_w
       ELSE /\ pc' = [pc EXCEPT ![t] = "lock"]
            /\ result_w' = [result_w EXCEPT ![t] = "Timeout"]
            /\ UNCHANGED res
    /\ UNCHANGED <<phase, data, mutex, call, old, extra, graceful_counter>>

\* The future is dropped while it waits, or once it is notified and before it is polled:
\* a cleanup leaves its transition open.
CancelWait(t) ==
    /\ "cancelled" \in Allowed
    /\ pc[t] \in {"asleep", "woken"}
    /\ accidents' = IF call[t] = "read" THEN accidents ELSE accidents \cup {"cancelled"}
    /\ pc'   = [pc EXCEPT ![t] = "idle"]
    /\ call' = [call EXCEPT ![t] = "none"]
    /\ old'  = [old EXCEPT ![t] = PHASE_SETUP]
    /\ UNCHANGED <<phase, data, mutex, res, forced, waits>>

\* Or at one of PhasedCellAsync's awaits.
Cancel(t) ==
    /\ Base!Cancel(t)
    /\ result_w' = [result_w EXCEPT ![t] = "none"]
    /\ UNCHANGED graceful_counter

-----------------------------------------------------------------------------
(* transition_to_read_async and force_to_read *)

\* As in PhasedCellAsync, up to change_phase.
transition_to_read_async(t) ==
    pc[t] # "commit" /\ Base!transition_to_read_async(t) /\ UNCHANGED waits
force_to_read(t) ==
    pc[t] # "commit" /\ Base!force_to_read(t) /\ UNCHANGED waits

\* force_to_read, and a transition that found no data, notify before the guard drops.
NotifiesLocked(t) == forced[t] \/ res[t].kind = "InternalDataUnavailable"

ToReadCommit(t) ==
    /\ Cell!Step(t, "transition_to_read", "commit",
                 IF NotifiesLocked(t) THEN "notify" ELSE "unlock")
    /\ Cell!change_phase(PHASE_SETUP_TO_READ, IF res[t] = Ok THEN PHASE_READ ELSE old[t])
    /\ UNCHANGED <<data, mutex, res, extra, waits>>

\* notify_read_phase, or the call of notify_waiters that ends count_down.
Notify(t) ==
    /\ pc[t] = "notify"
    /\ NotifyWaiters(t, IF holder = t THEN "unlock" ELSE "ret")
    /\ UNCHANGED <<phase, data, mutex, call, old, res, forced, waits>>

\* Mutant of Unlock: a transition that failed has nothing to tell.
UnlockMute(t) ==
    /\ pc[t] = "unlock"
    /\ pc' = [pc EXCEPT ![t] =
                 IF call[t] = "transition_to_read" /\ ~NotifiesLocked(t) /\ res[t] = Ok
                 THEN "notify" ELSE "ret"]
    /\ holder' = Nobody
    /\ UNCHANGED <<phase, data, poisoned, call, old, res, extra, waits>>

Unlock(t) ==
    /\ pc[t] = "unlock"
    /\ pc' = [pc EXCEPT ![t] =
                 IF call[t] = "transition_to_read" /\ ~NotifiesLocked(t)
                 THEN "notify" ELSE "ret"]
    /\ holder' = Nobody
    /\ UNCHANGED <<phase, data, poisoned, call, old, res, extra, waits>>

-----------------------------------------------------------------------------
(* transition_to_cleanup_async and force_to_cleanup *)

\* From Read the asynchronous one waits for the readers before it locks data_mutex.
ToCleanupBegin(t) ==
    /\ phase = PHASE_READ
    /\ Cell!Enter(t, "transition_to_cleanup", "check")
    /\ phase' = PHASE_READ_TO_CLEANUP
    /\ UNCHANGED <<data, mutex, res, extra, waits>>

\* Mutants of CleanupCheck: one reader is none, and a drained cleanup goes straight on
\* to its closure, without data_mutex.
CleanupCheckOffByOne(t) ==
    /\ Cell!Step(t, "transition_to_cleanup", "check",
                 IF graceful_counter <= 1 THEN "lock" ELSE "wait")
    /\ result_w' = [result_w EXCEPT ![t] = IF graceful_counter <= 1 THEN "Ok" ELSE @]
    /\ UNCHANGED <<phase, data, mutex, res, extra, graceful_counter>>
CleanupCheckNoData(t) ==
    /\ Cell!Step(t, "transition_to_cleanup", "check",
                 IF graceful_counter = 0 THEN "run" ELSE "wait")
    /\ result_w' = [result_w EXCEPT ![t] = IF graceful_counter = 0 THEN "Ok" ELSE @]
    /\ UNCHANGED <<phase, data, mutex, res, extra, graceful_counter>>

\* One turn of the loop of wait_for_cleanup_phase_async.
CleanupCheck(t) ==
    /\ Cell!Step(t, "transition_to_cleanup", "check",
                 IF graceful_counter = 0 THEN "lock" ELSE "wait")
    /\ result_w' = [result_w EXCEPT ![t] = IF graceful_counter = 0 THEN "Ok" ELSE @]
    /\ UNCHANGED <<phase, data, mutex, res, extra, graceful_counter>>

\* Everything else is as in PhasedCellAsync; force_to_cleanup waits for nobody.
transition_to_cleanup_async(t) ==
    /\ pc[t] = "idle" => phase # PHASE_READ
    /\ Base!transition_to_cleanup_async(t)
    /\ UNCHANGED waits
force_to_cleanup(t) == Base!force_to_cleanup(t) /\ UNCHANGED waits

PanicEarly(t)   == Base!PanicEarly(t)   /\ UNCHANGED waits
ForceFails(t)   == Base!ForceFails(t)   /\ UNCHANGED waits
ForceGivesUp(t) == Base!ForceGivesUp(t) /\ UNCHANGED waits

lock(t) == Base!lock(t) /\ UNCHANGED waits

-----------------------------------------------------------------------------
(* read_async, read_relaxed and finish_reading *)

ReadWait(t) ==
    /\ phase = PHASE_SETUP_TO_READ
    /\ Cell!Enter(t, "read", "check")
    /\ UNCHANGED <<phase, data, mutex, res, extra, waits>>

\* read_relaxed never waits: it is refused in a transition to Read too.
ReadAtOnce(t) == (Cell!ReadBegin(t) \/ Cell!ReadRefused(t)) /\ UNCHANGED <<extra, waits>>

\* One turn of the loop of wait_for_read_phase_async.
ReadCheck(t) ==
    /\ call[t] = "read"
    /\ pc[t] = "check"
    /\ old' = [old EXCEPT ![t] = phase]
    /\ pc' = [pc EXCEPT ![t] = CASE phase = PHASE_READ          -> "look"
                                 [] phase = PHASE_SETUP_TO_READ -> "wait"
                                 [] OTHER                       -> "ret"]
    /\ res' = [res EXCEPT ![t] = IF phase \in {PHASE_READ, PHASE_SETUP_TO_READ} THEN @
                                 ELSE Err(phase, "CannotCallUnlessPhaseRead")]
    /\ UNCHANGED <<phase, data, mutex, call, extra, waits>>

\* The &T is made before the reader is counted; the error of read_async, and not that
\* of read_relaxed, loads the phase anew.
ReadLook(t) ==
    /\ Cell!Step(t, "read", "look", IF data_cell = "Some" THEN "count" ELSE "ret")
    /\ \E code \in {phase, old[t]} :
          res' = [res EXCEPT ![t] = IF data_cell = "Some" THEN Ok
                                    ELSE Err(code, "InternalDataUnavailable")]
    /\ UNCHANGED <<phase, data, mutex, extra, waits>>

count_up(t) ==
    /\ Cell!Step(t, "read", "count", "reading")
    /\ graceful_counter' = graceful_counter + 1
    /\ UNCHANGED <<phase, data, mutex, res, extra, result_w>>

read(t) == ReadWait(t) \/ ReadAtOnce(t) \/ ReadCheck(t) \/ ReadLook(t) \/ count_up(t)

\* The atomic part of count_down.
Decrement(t) ==
    /\ graceful_counter' = IF graceful_counter = 0 THEN 0 ELSE graceful_counter - 1
    /\ pc' = [pc EXCEPT ![t] = IF graceful_counter = 1 THEN "last" ELSE "ret"]
    /\ UNCHANGED <<phase, data, mutex, old, res, forced, result_w>>

\* The caller is done with its &T and says so.
finish_reading(t) ==
    /\ pc[t] = "reading"
    /\ Decrement(t)
    /\ UNCHANGED <<call, accidents>>

\* A caller that has no &T says it is done with one.
ExcessFinishReading(t) ==
    /\ "surplus" \in Allowed
    /\ pc[t] = "idle"
    /\ call' = [call EXCEPT ![t] = "finish_reading"]
    /\ Decrement(t)
    /\ accidents' = accidents \cup {"surplus"}

\* Mutant of LastReader: it looks for the wrong cleanup.
LastReaderMisses(t) ==
    /\ pc[t] = "last"
    /\ pc' = [pc EXCEPT ![t] = IF phase = PHASE_SETUP_TO_CLEANUP THEN "notify" ELSE "ret"]
    /\ UNCHANGED <<phase, data, mutex, call, old, res, extra, waits>>

\* The rest of count_down: only a cleanup in progress is told, and without a lock.
LastReader(t) ==
    /\ pc[t] = "last"
    /\ pc' = [pc EXCEPT ![t] = IF phase = PHASE_READ_TO_CLEANUP THEN "notify" ELSE "ret"]
    /\ UNCHANGED <<phase, data, mutex, call, old, res, extra, waits>>

count_down(t) == finish_reading(t) \/ ExcessFinishReading(t) \/ LastReader(t)

-----------------------------------------------------------------------------
GracefulNext ==
    \E t \in Tasks :
        \/ transition_to_read_async(t) \/ force_to_read(t) \/ ToReadCommit(t) \/ Notify(t)
        \/ ToCleanupBegin(t) \/ CleanupCheck(t)
        \/ transition_to_cleanup_async(t) \/ force_to_cleanup(t)
        \/ WaitSleep(t) \/ WaitPoll(t) \/ WaitTimeout(t)
        \/ PanicEarly(t) \/ CancelWait(t) \/ Cancel(t) \/ ForceFails(t) \/ ForceGivesUp(t)
        \/ lock(t) \/ read(t) \/ count_down(t)
        \/ Unlock(t) \/ Return(t)

GracefulSpec == GracefulInit /\ [][GracefulNext]_vars

-----------------------------------------------------------------------------
(* Properties *)

\* Every variable keeps to its set of values.
TypeOK ==
    /\ phase \in PhaseCode
    /\ data_mutex \in {"Some", "None"}
    /\ data_cell \in {"Some", "None"}
    /\ holder \in Tasks \cup {Nobody}
    /\ poisoned = FALSE
    /\ pc \in [Tasks -> GracefulPC]
    /\ call \in [Tasks -> Cell!Method \cup {"none", "finish_reading"}]
    /\ old \in [Tasks -> PhaseCode]
    /\ res \in [Tasks -> Result]
    /\ forced \in [Tasks -> BOOLEAN]
    /\ accidents \subseteq Allowed
    /\ graceful_counter \in Nat
    /\ result_w \in [Tasks -> {"none", "Ok", "Timeout"}]

\* Task u has still to notify the readers, or the cleanup.
TellsReaders(u) ==
    /\ call[u] = "transition_to_read"
    /\ pc[u] = "notify" \/ (pc[u] = "unlock" /\ ~NotifiesLocked(u))
TellsCleanup(u) ==
    call[u] \in {"read", "finish_reading"} /\ pc[u] \in {"last", "notify"}

\* What the sleeping task waits for has come about, and nobody is left to tell it.
Forgotten(t) ==
    /\ pc[t] = "asleep"
    /\ \/ /\ call[t] = "transition_to_cleanup"
          /\ graceful_counter = 0
          /\ \A u \in Tasks : ~TellsCleanup(u)
       \/ /\ call[t] = "read"
          /\ phase # PHASE_SETUP_TO_READ
          /\ \A u \in Tasks : ~TellsReaders(u)

\* A task sleeps on, to its time-out, only because a notification fell between its test
\* and its notified(), or, a reader, because a forced transition to Read found the mutex
\* locked and told nobody.
ForgottenOnlyByAccident ==
    \A t \in Tasks : Forgotten(t) =>
        \/ "missed" \in accidents
        \/ call[t] = "read" /\ "contended" \in accidents

\* A cleanup's wait ends well only at a moment when no counted reader has its &T, as
\* long as nobody called finish_reading in its place.
WaitOkOnlyWhenDrained ==
    [][\A t \in Tasks :
          result_w[t] # "Ok" /\ result_w'[t] = "Ok"
             => \/ "surplus" \in accidents
                \/ \A u \in Tasks : pc[u] # "reading"]_vars

\* The same cell seen as a PhasedCellAsync: a waiting reader has not called yet, and
\* never does if its time is up; a waiting cleanup is about to lock; counting and
\* notifying do not show.
GaveUp(t) == res[t].kind = "GracefulWaitTimeout"
SeenIdle(t) ==
    \/ call[t] = "finish_reading"
    \/ call[t] = "read" /\ (Waiting(t) \/ GaveUp(t))
pcBar ==
    [t \in Tasks |->
        IF SeenIdle(t) THEN "idle"
        ELSE IF call[t] = "transition_to_cleanup" /\ Waiting(t) THEN "lock"
        ELSE IF pc[t] = "count" THEN "reading"
        ELSE IF pc[t] = "last" THEN "ret"
        ELSE IF pc[t] = "notify" THEN IF holder = t THEN "unlock" ELSE "ret"
        ELSE pc[t]]
callBar == [t \in Tasks |-> IF pcBar[t] = "idle" THEN "none" ELSE call[t]]
oldBar  == [t \in Tasks |-> IF pcBar[t] = "idle" THEN PHASE_SETUP ELSE old[t]]
resBar  ==
    [t \in Tasks |->
        IF GaveUp(t) THEN NoResult
        ELSE IF call[t] = "read" /\ res[t].kind = "InternalDataUnavailable"
             THEN Err(old[t], "InternalDataUnavailable")
             ELSE res[t]]

P == INSTANCE PhasedCellAsync
        WITH pc <- pcBar, call <- callBar, old <- oldBar, res <- resBar,
             accidents <- accidents \cap Base!Accident

\* Waiting, counting and notifying change nothing of what PhasedCellAsync does.
ImplementsPhasedCellAsync == P!AsyncSpec

\* No sleeper is forgotten.
NoLostWakeup == \A t \in Tasks : ~Forgotten(t)

-----------------------------------------------------------------------------
(* The inductive invariant behind the safety properties *)

Transition == {"transition_to_read", "transition_to_cleanup"}

\* The places at which a task holds data_mutex, besides "notify".
Holding == {"run", "swap", "commit", "unlock", "guard"}

\* Which method is at which place; a reader of the data is never a forced transition.
PlaceAt(t) ==
    /\ pc[t] = "idle" <=> call[t] = "none"
    /\ pc[t] \in {"run", "swap", "commit", "give up"} => call[t] \in Transition
    /\ pc[t] \in {"lock", "unlock"} => call[t] \notin {"read", "finish_reading"}
    /\ pc[t] = "guard" => call[t] \in {"lock", "try_lock"}
    /\ Waiting(t) => \/ call[t] = "read"
                     \/ call[t] = "transition_to_cleanup" /\ old[t] = PHASE_READ
    /\ pc[t] \in {"look", "count", "reading"} => call[t] = "read"
    /\ pc[t] = "last" => call[t] \in {"read", "finish_reading"}
    /\ pc[t] = "notify" => call[t] \in {"transition_to_read", "read", "finish_reading"}
    /\ call[t] = "finish_reading" => pc[t] \in {"last", "notify", "ret"}
    /\ forced[t] => call[t] \in Transition /\ ~Waiting(t)
    /\ pc[t] = "give up" => "contended" \in accidents

\* A task holds data_mutex exactly between locking and releasing it.
HoldsAt(t) ==
    /\ pc[t] \in Holding => holder = t
    /\ holder = t => \/ pc[t] \in Holding
                     \/ pc[t] = "notify" /\ call[t] = "transition_to_read"

\* A call has no result before its method gives it one, and only a reader gives up.
FreshAt(t) ==
    /\ pc[t] \in {"idle", "look", "check", "wait", "asleep", "woken"} => res[t] = NoResult
    /\ call[t] \in {"none", "finish_reading"} => res[t] = NoResult /\ old[t] = PHASE_SETUP
    /\ GaveUp(t) => call[t] = "read" /\ pc[t] = "ret"

\* Task t is between opening a transition and publishing its outcome.
InTransition(t) ==
    /\ call[t] \in Transition
    /\ Waiting(t) \/ pc[t] \in {"lock", "run", "swap", "commit", "give up"}

\* A task in a transition is the only one, and the phase is the one it has set.
OwnerInv ==
    /\ \A t, u \in Tasks : InTransition(t) /\ InTransition(u) => t = u
    /\ \A t \in Tasks : InTransition(t) =>
          phase = IF call[t] = "transition_to_read" THEN PHASE_SETUP_TO_READ ELSE Via(old[t])

\* The counter is the number of counted readers, or less if some were uncounted twice.
Counted == {t \in Tasks : pc[t] = "reading"}
CountInv ==
    /\ graceful_counter <= Cardinality(Counted)
    /\ "surplus" \notin accidents => graceful_counter = Cardinality(Counted)

\* ForgottenOnlyByAccident, from the moment the test has failed.
WakeInv ==
    "missed" \notin accidents =>
        \A t \in Tasks : pc[t] \in {"wait", "asleep"} =>
            /\ call[t] = "transition_to_cleanup" /\ graceful_counter = 0
                 => \E u \in Tasks : TellsCleanup(u)
            /\ call[t] = "read" /\ phase # PHASE_SETUP_TO_READ
                 => \/ "contended" \in accidents
                    \/ \E u \in Tasks : TellsReaders(u)

PlaceInv == \A t \in Tasks : PlaceAt(t) /\ HoldsAt(t) /\ FreshAt(t)
Inv == TypeOK /\ PlaceInv /\ OwnerInv /\ CountInv /\ WakeInv

-----------------------------------------------------------------------------
(* Properties that follow from those of PhasedCellAsync *)

\* The cell is stuck in a transition that nobody is carrying out, nor waits to carry out.
Wedged == phase \in InTransit /\ \A t \in Tasks : ~InTransition(t)

\* A wait for the readers is one more await to cancel a cleanup at, and no other reason for
\* a cell to get stuck: no time-out, no missed notification and no surplus finish_reading
\* does it.
WedgedOnlyByAccident ==
    Wedged => \/ accidents \cap {"cancelled", "panicked"} # {}
              \/ "contended" \in accidents /\ phase = PHASE_SETUP_TO_CLEANUP

\* A cell that is stuck stays so, whoever goes on to call it.
WedgedForEver == [][Wedged => Wedged' /\ UNCHANGED phase]_vars

-----------------------------------------------------------------------------
(* Who waits for whom *)

\* Task t needs data_mutex for its next step: the forced transitions and try_lock only try.
WantsData(t) == pc[t] = "lock" /\ call[t] # "try_lock" /\ ~forced[t]

\* Task t cannot go on by itself.
Blocked(t) ==
    \/ WantsData(t) /\ holder # Nobody
    \/ pc[t] = "asleep"

\* Task u holds the mutex that t needs; or it is a reader that a sleeping cleanup waits for;
\* or it is in the transition that a sleeping reader waits for, or has yet to announce its end.
WaitsFor(t, u) ==
    \/ WantsData(t) /\ holder = u
    \/ /\ pc[t] = "asleep" /\ call[t] = "transition_to_cleanup"
       /\ pc[u] = "reading" \/ TellsCleanup(u)
    \/ /\ pc[t] = "asleep" /\ call[t] = "read"
       /\ TellsReaders(u) \/ (call[u] = "transition_to_read" /\ InTransition(u))

\* Sleepers wait for tasks that may need data_mutex, those for one that needs nothing.
WaitLevel(t) ==
    IF pc[t] = "asleep" THEN 2
    ELSE IF WantsData(t) THEN 1
    ELSE 0

\* No deadlock, time-outs left out: a task that cannot go on waits for another, unless it
\* was forgotten or the transition it waits for was abandoned, which need an accident; and
\* every chain of tasks that wait for each other goes down, with the mutex locked or not
\* when the notification is sent.
NoCircularWait ==
    \A t \in Tasks : Blocked(t) =>
        /\ (\E u \in Tasks : WaitsFor(t, u)) \/ Forgotten(t) \/ Wedged
        /\ \A u \in Tasks : WaitsFor(t, u) => WaitLevel(u) < WaitLevel(t)
==============================================================================
