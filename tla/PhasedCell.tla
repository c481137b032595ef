------------------------------ MODULE PhasedCell ------------------------------
(***************************************************************************)
(* PhasedCell<T> (src/src/phased_cell.rs): no lock at all.  What protects  *)
(* the data is the phase alone, so this module follows the memory ordering *)
(* of every access to it: which threads happen after the last write to the *)
(* data, and whether the atomic `phase` passes that on to who acquires it. *)
(*                                                                         *)
(* get_mut_unlocked is used as its "Safety" section demands: while no      *)
(* other thread is accessing the cell, which takes some synchronisation    *)
(* outside the cell between its caller and the others.                     *)
(***************************************************************************)
EXTENDS Phase, FiniteSets

CONSTANTS Threads,   \* the threads that share the cell
          Nobody     \* "no transition is in progress"

ASSUME ThreadsAssumption == Nobody \notin Threads

VARIABLES
    phase,      \* the AtomicU8
    synced,     \* the threads that happen after the last write to the data
    published,  \* does an acquire of `phase` happen after the last write?
    pc, call,
    old,        \* the phase each thread's method started from
    res         \* what each thread's call returns

memory == <<synced, published>>
vars == <<phase, synced, published, pc, call, old, res>>

Method == {"transition_to_read", "transition_to_cleanup", "read", "read_relaxed",
           "get_mut_unlocked"}

PC == {"idle",       \* outside the cell
       "run",        \* a transition about to run its closure
       "commit",     \* about to call change_phase
       "look",       \* read has loaded PHASE_READ, and is about to make its &T
       "reading",    \* the caller has the &T of a read
       "exclusive",  \* the caller has the &mut T of get_mut_unlocked
       "ret"}        \* has its result

\* The cell reaches the other threads by some synchronisation, its data with it.
PhasedCellInit ==
    /\ phase = PHASE_SETUP
    /\ synced = Threads
    /\ published = FALSE
    /\ pc   = [t \in Threads |-> "idle"]
    /\ call = [t \in Threads |-> "none"]
    /\ old  = [t \in Threads |-> PHASE_SETUP]
    /\ res  = [t \in Threads |-> NoResult]

-----------------------------------------------------------------------------
(* Memory ordering *)

AfterAcquire(t) == IF published THEN synced \cup {t} ELSE synced

\* A load, or a failed compare_exchange, with Ordering::Acquire.
Acquire(t) == synced' = AfterAcquire(t) /\ UNCHANGED published

\* Mutant of AcqRel: Ordering::Release.
Release(t) ==
    /\ UNCHANGED synced
    /\ published' = (published \/ t \in synced)

\* A successful compare_exchange or fetch_update with Ordering::AcqRel.
AcqRel(t) ==
    /\ synced' = AfterAcquire(t)
    /\ published' = (published \/ t \in synced)

\* Thread t writes the data: the others know nothing of it yet.
Write(t) == synced' = {t} /\ published' = FALSE

-----------------------------------------------------------------------------
(* Steps common to the methods. *)

\* Thread t enters method m, having read the phase in the same step; the caller of
\* get_mut_unlocked has seen to it that nobody does so while it has its &mut T.
Enter(t, m, next) ==
    /\ pc[t] = "idle"
    /\ \A u \in Threads : pc[u] # "exclusive"
    /\ pc'   = [pc EXCEPT ![t] = next]
    /\ call' = [call EXCEPT ![t] = m]
    /\ old'  = [old EXCEPT ![t] = phase]

Refuse(t, m, r) ==
    /\ Enter(t, m, "ret")
    /\ res' = [res EXCEPT ![t] = r]
    /\ UNCHANGED phase

Step(t, m, from, to) ==
    /\ call[t] = m
    /\ pc[t] = from
    /\ pc' = [pc EXCEPT ![t] = to]
    /\ UNCHANGED <<call, old>>

\* compare_exchange(current, new), its failure ignored.
change_phase(t, current, new) ==
    IF phase = current THEN phase' = new /\ AcqRel(t)
                       ELSE UNCHANGED phase /\ Acquire(t)

Return(t) ==
    /\ pc[t] = "ret"
    /\ pc'   = [pc EXCEPT ![t] = "idle"]
    /\ call' = [call EXCEPT ![t] = "none"]
    /\ old'  = [old EXCEPT ![t] = PHASE_SETUP]
    /\ res'  = [res EXCEPT ![t] = NoResult]
    /\ UNCHANGED <<phase, memory>>

\* The caller looks at the phase with `phase`, and so acquires it.
phase_acquire(t) ==
    /\ pc[t] = "idle"
    /\ \A u \in Threads : pc[u] # "exclusive"
    /\ Acquire(t)
    /\ UNCHANGED <<phase, pc, call, old, res>>

-----------------------------------------------------------------------------
(* transition_to_read *)

ToReadBegin(t) ==
    /\ phase = PHASE_SETUP
    /\ Enter(t, "transition_to_read", "run")
    /\ phase' = PHASE_SETUP_TO_READ
    /\ AcqRel(t)
    /\ UNCHANGED res

ToReadRefused(t) ==
    /\ phase # PHASE_SETUP
    /\ Refuse(t, "transition_to_read", ToReadRefusal(phase))
    /\ Acquire(t)

\* f(data) under catch_unwind: whatever its outcome, it may have written.
ToReadRun(t) ==
    /\ Step(t, "transition_to_read", "run", "commit")
    /\ \E r \in {Ok, Panic, Err(PHASE_SETUP, "FailToRunClosureDuringTransitionToRead")} :
          res' = [res EXCEPT ![t] = r]
    /\ Write(t)
    /\ UNCHANGED phase

ToReadCommit(t) ==
    /\ Step(t, "transition_to_read", "commit", "ret")
    /\ change_phase(t, PHASE_SETUP_TO_READ,
                    IF res[t] = Ok THEN PHASE_READ ELSE PHASE_SETUP)
    /\ UNCHANGED res

transition_to_read(t) ==
    ToReadBegin(t) \/ ToReadRefused(t) \/ ToReadRun(t) \/ ToReadCommit(t)

-----------------------------------------------------------------------------
(* transition_to_cleanup *)

\* Mutant of ToCleanupBegin: also takes over a transition to Read.
ToCleanupBeginAnyway(t) ==
    /\ phase \in {PHASE_SETUP, PHASE_SETUP_TO_READ, PHASE_READ}
    /\ Enter(t, "transition_to_cleanup", "run")
    /\ phase' = Via(phase)
    /\ AcqRel(t)
    /\ UNCHANGED res

ToCleanupBegin(t) ==
    /\ phase \in {PHASE_SETUP, PHASE_READ}
    /\ Enter(t, "transition_to_cleanup", "run")
    /\ phase' = Via(phase)
    /\ AcqRel(t)
    /\ UNCHANGED res

ToCleanupRefused(t) ==
    /\ phase \notin {PHASE_SETUP, PHASE_READ}
    /\ Refuse(t, "transition_to_cleanup", ToCleanupRefusal(phase))
    /\ Acquire(t)

ToCleanupRun(t) ==
    /\ Step(t, "transition_to_cleanup", "run", "commit")
    /\ \E r \in {Ok, Panic, Err(PHASE_CLEANUP, "FailToRunClosureDuringTransitionToCleanup")} :
          res' = [res EXCEPT ![t] = r]
    /\ Write(t)
    /\ UNCHANGED phase

\* Mutant of ToCleanupCommit: reverts the phase when the closure failed.
ToCleanupCommitReverts(t) ==
    /\ Step(t, "transition_to_cleanup", "commit", "ret")
    /\ change_phase(t, Via(old[t]), IF res[t] = Ok THEN PHASE_CLEANUP ELSE old[t])
    /\ UNCHANGED res

ToCleanupCommit(t) ==
    /\ Step(t, "transition_to_cleanup", "commit", "ret")
    /\ change_phase(t, Via(old[t]), PHASE_CLEANUP)
    /\ UNCHANGED res

transition_to_cleanup(t) ==
    ToCleanupBegin(t) \/ ToCleanupRefused(t) \/ ToCleanupRun(t) \/ ToCleanupCommit(t)

-----------------------------------------------------------------------------
(* read and read_relaxed *)

ReadRelaxedBegin(t) ==
    /\ phase = PHASE_READ
    /\ Enter(t, "read_relaxed", "look")
    /\ UNCHANGED <<phase, memory, res>>

\* Mutant of ReadBegin: Ordering::Relaxed.
ReadBeginRelaxed(t) ==
    /\ phase = PHASE_READ
    /\ Enter(t, "read", "look")
    /\ UNCHANGED <<phase, memory, res>>

ReadBegin(t) ==
    /\ phase = PHASE_READ
    /\ Enter(t, "read", "look")
    /\ Acquire(t)
    /\ UNCHANGED <<phase, res>>

ReadRefused(t) ==
    /\ phase # PHASE_READ
    /\ \/ Refuse(t, "read", Err(phase, "CannotCallUnlessPhaseRead")) /\ Acquire(t)
       \/ Refuse(t, "read_relaxed", Err(phase, "CannotCallUnlessPhaseRead"))
             /\ UNCHANGED memory

ReadLook(t) ==
    /\ pc[t] = "look"
    /\ pc' = [pc EXCEPT ![t] = "reading"]
    /\ res' = [res EXCEPT ![t] = Ok]
    /\ UNCHANGED <<phase, memory, call, old>>

\* The caller's borrow of the data ends, whenever the caller likes.
ReadEnd(t) ==
    /\ pc[t] = "reading"
    /\ pc' = [pc EXCEPT ![t] = "ret"]
    /\ UNCHANGED <<phase, memory, call, old, res>>

read(t) == ReadBegin(t) \/ ReadRefused(t) \/ ReadLook(t)
read_relaxed(t) == ReadRelaxedBegin(t)

-----------------------------------------------------------------------------
(* get_mut_unlocked *)

GetMut(t) ==
    /\ phase \in {PHASE_SETUP, PHASE_CLEANUP}
    /\ \A u \in Threads : pc[u] = "idle"
    /\ Enter(t, "get_mut_unlocked", "exclusive")
    /\ synced' = Threads
    /\ UNCHANGED <<phase, published, res>>

GetMutRefused(t) ==
    /\ phase \notin {PHASE_SETUP, PHASE_CLEANUP}
    /\ Refuse(t, "get_mut_unlocked", LockRefusal(phase))
    /\ Acquire(t)

\* The caller has written, and tells the others before they use the cell again.
GetMutEnd(t) ==
    /\ Step(t, "get_mut_unlocked", "exclusive", "ret")
    /\ synced' = Threads
    /\ published' = FALSE
    /\ UNCHANGED <<phase, res>>

get_mut_unlocked(t) == GetMut(t) \/ GetMutRefused(t) \/ GetMutEnd(t)

-----------------------------------------------------------------------------
PhasedCellNext ==
    \E t \in Threads :
        \/ transition_to_read(t) \/ transition_to_cleanup(t)
        \/ read(t) \/ read_relaxed(t) \/ ReadEnd(t)
        \/ get_mut_unlocked(t) \/ phase_acquire(t) \/ Return(t)

PhasedCellSpec == PhasedCellInit /\ [][PhasedCellNext]_vars

-----------------------------------------------------------------------------
(* Properties *)

\* Every variable keeps to its set of values.
TypeOK ==
    /\ phase \in PhaseCode
    /\ synced \subseteq Threads
    /\ published \in BOOLEAN
    /\ pc \in [Threads -> PC]
    /\ call \in [Threads -> Method \cup {"none"}]
    /\ old \in [Threads -> PhaseCode]
    /\ res \in [Threads -> Result]

\* Thread t can change the data.
Mutating(t) == pc[t] \in {"run", "exclusive"}

InTransition(t) == pc[t] \in {"run", "commit"}

\* The compare_exchange on the phase is enough to keep closures from overlapping
\* each other and any exclusive use of the data.
ExclusiveMut == \A t, u \in Threads : Mutating(t) /\ Mutating(u) => t = u

\* Who changes the data happens after every earlier change: a closure run by one
\* thread sees what another thread's closure did in an earlier or failed transition.
MutatorSeesAll == \A t \in Threads : Mutating(t) => t \in synced

\* As long as the cell is in Read, a reader happens after all of Setup: the Acquire
\* of read pairs with the AcqRel of change_phase.  Nothing of the kind holds of
\* read_relaxed, whose caller needs some other synchronisation.
ReadersSeeSetup ==
    phase = PHASE_READ =>
        \A t \in Threads : call[t] = "read" /\ pc[t] \in {"look", "reading"} => t \in synced

\* The public phase has reached the n-th of Setup, Read, Cleanup.
Reached(n) == Rank(u8_to_phase(phase)) >= n

\* What the result of t's call tells its caller about the cell.
Truthful(t) ==
    LET kind == res[t].kind IN
    /\ call[t] = "transition_to_read" /\ kind \in {"Ok", "PhaseIsAlreadyRead"} => Reached(1)
    /\ call[t] = "transition_to_cleanup" =>
          \/ kind \in {"DuringTransitionToRead", "DuringTransitionToCleanup"}
          \/ phase = PHASE_CLEANUP
    /\ kind = "PhaseIsAlreadyCleanup" => phase = PHASE_CLEANUP
    /\ kind = "DuringTransitionToCleanup" => Reached(2)

\* A result is still true when the caller gets it, although no lock kept the phase from
\* moving on meanwhile.
TruthfulResults == \A t \in Threads : pc[t] = "ret" => Truthful(t)

\* Once a cleanup has begun no reader gets in any more: those it may meet only leave.
Readers == {t \in Threads : pc[t] \in {"look", "reading"}}
ReadersOnlyLeave == [][phase # PHASE_READ => Readers' \subseteq Readers]_vars

TransitionOwner ==
    IF \E t \in Threads : InTransition(t)
    THEN CHOOSE t \in Threads : InTransition(t)
    ELSE Nobody

L == INSTANCE Lifecycle WITH owner <- TransitionOwner

\* The cell implements the abstract lifecycle without any lock.
ImplementsLifecycle == L!LifecycleSpec

-----------------------------------------------------------------------------
(* The inductive invariant behind the safety properties *)

Looking(t) == pc[t] \in {"look", "reading"}

\* Which places belong to which method.
CallInv ==
    \A t \in Threads :
        /\ InTransition(t) => call[t] \in {"transition_to_read", "transition_to_cleanup"}
        /\ pc[t] = "exclusive" => call[t] = "get_mut_unlocked"
        /\ Looking(t) => call[t] \in {"read", "read_relaxed"}

\* The phase is transitional exactly while its one owner is in its transition.
PhaseInv ==
    /\ phase \in InTransit => \E t \in Threads : InTransition(t)
    /\ \A t, u \in Threads : InTransition(t) /\ InTransition(u) => t = u
    /\ \A t \in Threads : InTransition(t) =>
          \/ /\ call[t] = "transition_to_read"
             /\ old[t] = PHASE_SETUP /\ phase = PHASE_SETUP_TO_READ
          \/ /\ call[t] = "transition_to_cleanup"
             /\ old[t] \in {PHASE_SETUP, PHASE_READ} /\ phase = Via(old[t])

\* The contract of get_mut_unlocked, and that no reader is left from before Read.
AloneInv ==
    /\ \A t, u \in Threads : pc[t] = "exclusive" /\ u # t => pc[u] = "idle"
    /\ \A t \in Threads : Looking(t) => phase \notin {PHASE_SETUP, PHASE_SETUP_TO_READ}

\* Who knows of the last write: everybody, or everybody who acquires the phase, unless
\* it was made in a transition that goes on; and its owner always does.
SyncInv ==
    /\ phase \notin InTransit => published \/ synced = Threads
    /\ \A t \in Threads : InTransition(t) => t \in synced
    /\ \A t \in Threads : pc[t] = "exclusive" => synced = Threads
    /\ ReadersSeeSetup

Inv == TypeOK /\ CallInv /\ PhaseInv /\ AloneInv /\ SyncInv
==============================================================================
