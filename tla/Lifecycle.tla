------------------------------ MODULE Lifecycle ------------------------------
(***************************************************************************)
(* What every phased cell promises about its lifecycle, with no data, no   *)
(* locks and no errors: a transitional phase belongs to exactly the thread *)
(* that opened it, only that thread closes it, a failed transition to Read *)
(* goes back to Setup, and a transition to Cleanup never goes back.        *)
(***************************************************************************)
EXTENDS Phase

CONSTANTS Threads, Nobody

VARIABLES phase, owner

lifecycleVars == <<phase, owner>>

LifecycleInit == phase = PHASE_SETUP /\ owner = Nobody

BeginRead(t) ==
    /\ phase = PHASE_SETUP
    /\ phase' = PHASE_SETUP_TO_READ
    /\ owner' = t

BeginCleanup(t) ==
    /\ phase \in {PHASE_SETUP, PHASE_READ}
    /\ phase' = Via(phase)
    /\ owner' = t

EndRead(t) ==
    /\ phase = PHASE_SETUP_TO_READ
    /\ owner = t
    /\ phase' \in {PHASE_READ, PHASE_SETUP}
    /\ owner' = Nobody

EndCleanup(t) ==
    /\ phase \in {PHASE_READ_TO_CLEANUP, PHASE_SETUP_TO_CLEANUP}
    /\ owner = t
    /\ phase' = PHASE_CLEANUP
    /\ owner' = Nobody

LifecycleNext ==
    \E t \in Threads :
        BeginRead(t) \/ BeginCleanup(t) \/ EndRead(t) \/ EndCleanup(t)

LifecycleSpec == LifecycleInit /\ [][LifecycleNext]_lifecycleVars

\* A cell whose owner may also vanish: its transition is then never closed.
Abandon(t) ==
    /\ phase \in InTransit
    /\ owner = t
    /\ owner' = Nobody
    /\ UNCHANGED phase

AbandonableNext == LifecycleNext \/ \E t \in Threads : Abandon(t)

AbandonableSpec == LifecycleInit /\ [][AbandonableNext]_lifecycleVars

-----------------------------------------------------------------------------
(* What a caller may rely on, for every cell that implements one of the two *)

\* The codes that may come next after `code`.
Successor(code) ==
    CASE code = PHASE_SETUP         -> {PHASE_SETUP_TO_READ, PHASE_SETUP_TO_CLEANUP}
      [] code = PHASE_SETUP_TO_READ -> {PHASE_SETUP, PHASE_READ}
      [] code = PHASE_READ          -> {PHASE_READ_TO_CLEANUP}
      [] code = PHASE_CLEANUP       -> {}
      [] OTHER                      -> {PHASE_CLEANUP}

\* The phase moves along the edges of the lifecycle, one at a time: no thread that acts on
\* an old phase makes it jump, and Cleanup is the end.
FollowsTheGraph == [][phase' \in Successor(phase)]_phase

\* What `phase()` shows never goes back: who has once seen Read never sees Setup again.
NeverGoesBack == [][Rank(u8_to_phase(phase')) >= Rank(u8_to_phase(phase))]_phase

\* A transition in progress has an owner, and nobody owns a stable phase.
OwnedWhileOpen == phase \in InTransit <=> owner # Nobody

\* Nobody takes over somebody else's transition.
NeverTakenOver == [][owner # Nobody => owner' \in {owner, Nobody}]_lifecycleVars

\* A transition whose owner has vanished stays open for ever.
AbandonedForEver ==
    [][owner = Nobody /\ phase \in InTransit => UNCHANGED lifecycleVars]_lifecycleVars
==============================================================================
