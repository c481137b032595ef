---------------------------- MODULE LifecycleProofs ----------------------------
(***************************************************************************)
(* What follows from the abstract lifecycle alone.  Every cell implements  *)
(* it, with an owner that may vanish or with one that may not, and so      *)
(* inherits these theorems.                                                *)
(***************************************************************************)
EXTENDS Lifecycle, TLAPS

\* The phase codes stand for their strings everywhere below.
USE DEF PHASE_SETUP, PHASE_READ, PHASE_CLEANUP, PHASE_SETUP_TO_READ,
        PHASE_READ_TO_CLEANUP, PHASE_SETUP_TO_CLEANUP

\* Owners that never vanish are owners that may: what is shown of AbandonableSpec holds of
\* LifecycleSpec, too.
THEOREM OwnersMayStay == LifecycleSpec => AbandonableSpec
  <1>1. [LifecycleNext]_lifecycleVars => [AbandonableNext]_lifecycleVars
    BY DEF AbandonableNext
  <1>2. QED
    BY <1>1, PTL DEF LifecycleSpec, AbandonableSpec

\* Every step follows an edge of the lifecycle.
LEMMA StepFollows ==
  ASSUME [AbandonableNext]_lifecycleVars, phase' # phase
  PROVE  phase' \in Successor(phase)
  BY DEF AbandonableNext, LifecycleNext, BeginRead, BeginCleanup, EndRead, EndCleanup, Abandon,
     Via, Successor, lifecycleVars

\* No edge leads back.
LEMMA SuccessorIsLater ==
  ASSUME NEW c \in PhaseCode, NEW d \in Successor(c)
  PROVE  d \in PhaseCode /\ Rank(u8_to_phase(d)) >= Rank(u8_to_phase(c))
  BY DEF Successor, Rank, u8_to_phase, PhaseCode

\* The phase is a code, and only a transition in progress has an owner.
LifecycleInv == phase \in PhaseCode /\ (owner # Nobody => phase \in InTransit)

LEMMA LifecycleInvariance == AbandonableSpec => []LifecycleInv
  <1>1. LifecycleInit => LifecycleInv
    BY DEF LifecycleInit, LifecycleInv, PhaseCode
  <1>2. LifecycleInv /\ [AbandonableNext]_lifecycleVars => LifecycleInv'
    BY DEF LifecycleInv, AbandonableNext, LifecycleNext, BeginRead, BeginCleanup, EndRead,
       EndCleanup, Abandon, Via, PhaseCode, InTransit, lifecycleVars
  <1>3. QED
    BY <1>1, <1>2, PTL DEF AbandonableSpec

\* The phase moves along the edges of the lifecycle only.
THEOREM PhaseFollowsTheGraph == AbandonableSpec => FollowsTheGraph
  <1>1. [AbandonableNext]_lifecycleVars => [phase' \in Successor(phase)]_phase
    BY StepFollows
  <1>2. QED
    BY <1>1, PTL DEF AbandonableSpec, FollowsTheGraph

\* The public phase never goes back.
THEOREM PhaseNeverGoesBack == AbandonableSpec => NeverGoesBack
  <1>1. /\ LifecycleInv
        /\ [AbandonableNext]_lifecycleVars
        => [Rank(u8_to_phase(phase')) >= Rank(u8_to_phase(phase))]_phase
    BY StepFollows, SuccessorIsLater DEF LifecycleInv
  <1>2. QED
    BY <1>1, LifecycleInvariance, PTL DEF AbandonableSpec, NeverGoesBack

\* A transition belongs to who opened it until it is closed or abandoned.
THEOREM OwnersAreKept == AbandonableSpec => NeverTakenOver
  <1>1. /\ LifecycleInv
        /\ [AbandonableNext]_lifecycleVars
        => [owner # Nobody => owner' \in {owner, Nobody}]_lifecycleVars
    BY DEF LifecycleInv, AbandonableNext, LifecycleNext, BeginRead, BeginCleanup, EndRead,
       EndCleanup, Abandon, InTransit, lifecycleVars
  <1>2. QED
    BY <1>1, LifecycleInvariance, PTL DEF AbandonableSpec, NeverTakenOver

\* An abandoned transition is never closed, nor is another one ever opened.
THEOREM AbandonedStaysOpen ==
  ASSUME Nobody \notin Threads PROVE AbandonableSpec => AbandonedForEver
  <1>1. [AbandonableNext]_lifecycleVars
        => [owner = Nobody /\ phase \in InTransit => UNCHANGED lifecycleVars]_lifecycleVars
    BY DEF AbandonableNext, LifecycleNext, BeginRead, BeginCleanup, EndRead, EndCleanup,
       Abandon, InTransit, lifecycleVars
  <1>2. QED
    BY <1>1, PTL DEF AbandonableSpec, AbandonedForEver

\* As long as owners do not vanish, a transition is owned exactly while it is open.
THEOREM OpenIsOwned ==
  ASSUME Nobody \notin Threads PROVE LifecycleSpec => []OwnedWhileOpen
  <1>1. LifecycleInit => OwnedWhileOpen
    BY DEF LifecycleInit, OwnedWhileOpen, InTransit
  <1>2. OwnedWhileOpen /\ [LifecycleNext]_lifecycleVars => OwnedWhileOpen'
    BY DEF OwnedWhileOpen, LifecycleNext, BeginRead, BeginCleanup, EndRead, EndCleanup, Via,
       InTransit, lifecycleVars
  <1>3. QED
    BY <1>1, <1>2, PTL DEF LifecycleSpec
================================================================================
