-------------------------------- MODULE Phase --------------------------------
(***************************************************************************)
(* The phase codes stored in the atomic `phase` of every cell, the public  *)
(* phase they show as, and the errors every method shares.                 *)
(*                                                                         *)
(* A code is written as the name of its u8 constant.  A PhasedError is the *)
(* record of its public phase and its kind; method names, time-outs and    *)
(* source errors carried by a kind are left out.                           *)
(***************************************************************************)
EXTENDS Naturals

PHASE_SETUP            == "SETUP"
PHASE_READ             == "READ"
PHASE_CLEANUP          == "CLEANUP"
PHASE_SETUP_TO_READ    == "SETUP_TO_READ"
PHASE_READ_TO_CLEANUP  == "READ_TO_CLEANUP"
PHASE_SETUP_TO_CLEANUP == "SETUP_TO_CLEANUP"

PhaseCode ==
    {"SETUP", "READ", "CLEANUP",
     "SETUP_TO_READ", "READ_TO_CLEANUP", "SETUP_TO_CLEANUP"}

\* The codes a cell has only while some thread is inside a transition.
InTransit == {"SETUP_TO_READ", "READ_TO_CLEANUP", "SETUP_TO_CLEANUP"}

\* The public enum Phase.
PublicPhase == {"Setup", "Read", "Cleanup"}

u8_to_phase(code) ==
    CASE code \in {PHASE_SETUP, PHASE_SETUP_TO_READ} -> "Setup"
      [] code = PHASE_READ                           -> "Read"
      [] OTHER                                       -> "Cleanup"

\* The order of the lifecycle: Setup, then Read, then Cleanup.
Rank(ph) == CASE ph = "Setup" -> 0 [] ph = "Read" -> 1 [] OTHER -> 2

PhasedErrorKind ==
    {"CannotCallUnlessPhaseRead", "CannotCallOnPhaseRead",
     "InternalDataUnavailable", "PhaseIsAlreadyRead", "PhaseIsAlreadyCleanup",
     "DuringTransitionToRead", "DuringTransitionToCleanup",
     "FailToRunClosureDuringTransitionToRead",
     "FailToRunClosureDuringTransitionToCleanup",
     "InternalDataMutexIsPoisoned", "MutexTryLockFailed",
     "GracefulWaitTimeout"}

\* PhasedError::new(u8_to_phase(code), kind)
Err(code, kind) == [phase |-> u8_to_phase(code), kind |-> kind]

\* The other ways a call ends: a value, a resumed panic, or not yet.
Ok       == [phase |-> "None", kind |-> "Ok"]
Panic    == [phase |-> "None", kind |-> "Panic"]
NoResult == [phase |-> "None", kind |-> "None"]

Result == {Ok, Panic, NoResult} \cup [phase : PublicPhase, kind : PhasedErrorKind]

-----------------------------------------------------------------------------
\* transition_to_read found `code` where it wanted PHASE_SETUP.
ToReadRefusal(code) ==
    Err(code, CASE code = PHASE_READ          -> "PhaseIsAlreadyRead"
                [] code = PHASE_CLEANUP       -> "PhaseIsAlreadyCleanup"
                [] code = PHASE_SETUP_TO_READ -> "DuringTransitionToRead"
                [] OTHER                      -> "DuringTransitionToCleanup")

\* transition_to_cleanup found a `code` it cannot start from.
ToCleanupRefusal(code) ==
    Err(code, CASE code = PHASE_CLEANUP       -> "PhaseIsAlreadyCleanup"
                [] code = PHASE_SETUP_TO_READ -> "DuringTransitionToRead"
                [] OTHER                      -> "DuringTransitionToCleanup")

\* lock and try_lock are refused in the Read phase and in every transition.
LockRefusal(code) ==
    Err(code, CASE code = PHASE_READ          -> "CannotCallOnPhaseRead"
                [] code = PHASE_SETUP_TO_READ -> "DuringTransitionToRead"
                [] OTHER                      -> "DuringTransitionToCleanup")

\* The phase fetch_update moves to when a cleanup starts from `code`.
Via(code) == IF code = PHASE_READ THEN PHASE_READ_TO_CLEANUP
                                  ELSE PHASE_SETUP_TO_CLEANUP
==============================================================================
