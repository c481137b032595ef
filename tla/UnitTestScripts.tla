--------------------------- MODULE UnitTestScripts ---------------------------
(***************************************************************************)
(* The unit tests at the end of every source file of src/src, as scripts.  *)
(* A script is what one thread of a test does: calls of the cell, what the *)
(* test's closures do, the waits between its threads, and what it asserts. *)
(* Contents of the data, memory and the "_async" of a name are left out,   *)
(* and where a test starts ten readers or three lockers two are started.   *)
(* Tests that race two transitions leave to the scheduler which is first;  *)
(* here it is the one the test calls the first.                            *)
(***************************************************************************)
EXTENDS Sequences, TLC

-----------------------------------------------------------------------------
(* The steps of a script *)

\* The thread calls method m; its closure comes back with `outcome`; it is done with
\* the guard or reference it got, and says so where the cell wants to be told.
Call(m)       == [event |-> "call", method |-> m]
Runs(outcome) == [event |-> "runs", outcome |-> outcome]
Ends          == [event |-> "ends"]

\* The call is over, and the test asserts its result: its kind, or its phase too.
GivesIn(kind, ph) == [event |-> "gives", kind |-> kind, phase |-> ph]
Gives(kind)       == GivesIn(kind, "any")

\* The test asserts the phase of the cell, or that thread u still reads, or does not.
Shows(ph)        == [event |-> "check", what |-> ph, of |-> "main"]
StillReads(u)    == [event |-> "check", what |-> "reading", of |-> u]
HasStopped(u)    == [event |-> "check", what |-> "stopped", of |-> u]

\* The test starts a thread, waits for its end, or sleeps until it is inside the cell.
Spawn(u, script) == [event |-> "spawn", thread |-> u, script |-> script]
Join(u)          == [event |-> "join", thread |-> u]
Sees(u)          == [event |-> "sees", thread |-> u]

\* The closure, or the reader, sleeps long enough for all others to get on; the time of
\* the call's wait is up.
Sleeps == [event |-> "sleeps"]
Late   == [event |-> "late"]

-----------------------------------------------------------------------------
(* Pieces of scripts *)

Moves(m)  == <<Call(m), Runs("Ok"), Gives("Ok")>>
ToRead    == Moves("transition_to_read")
ToCleanup == Moves("transition_to_cleanup")
Uses(m)   == <<Call(m), Ends, Gives("Ok")>>

Alone(script)    == <<Spawn("one", script), Join("one")>>
Together(script) == <<Spawn("one", script), Spawn("two", script), Join("one"), Join("two")>>

\* The data is updated in Setup, read, and updated in Cleanup, by others and then by main.
Updates(others, main) ==
    others \o ToRead \o <<Shows("Read")>> \o Uses("read_relaxed")
        \o ToCleanup \o <<Shows("Cleanup")>> \o others \o main

\* Two threads read together.
Shares(access, reading) ==
    Uses(access) \o ToRead \o Together(Uses(reading))
        \o ToCleanup \o <<Shows("Cleanup")>> \o Uses(access)

\* A call in the wrong phase.
FailsIn(before, m, kind, ph) == before \o <<Call(m), GivesIn(kind, ph), Shows(ph)>>

\* A closure that fails or panics, and the phase it leaves.
Breaks(before, m, outcome, answer, ph) ==
    before \o <<Call(m), Runs(outcome), answer, Shows(ph)>>

\* Thread one is inside the closure of a transition for as long as it takes.
Occupied(before, transition) ==
    before \o <<Spawn("one", <<Call(transition), Sleeps, Runs("Ok"), Gives("Ok")>>),
                Sees("one")>>

\* Main, or a second thread, calls m meanwhile.
FailsDuring(before, transition, m, kind, ph) ==
    Occupied(before, transition) \o <<Call(m), Gives(kind), Join("one"), Shows(ph)>>
RefusedDuring(before, transition, m, kind, ph) ==
    Occupied(before, transition)
        \o <<Spawn("two", <<Call(m), Gives(kind)>>), Join("one"), Join("two"), Shows(ph)>>

\* Two threads read for a second each.
Readers(access) ==
    LET reader == <<Call("read_relaxed"), Sleeps, Ends, Gives("Ok")>> IN
    Uses(access) \o ToRead
        \o <<Spawn("one", reader), Spawn("two", reader), Sees("one"), Sees("two")>>

\* A cleanup that waits long enough for the readers, and one that does not.
DrainsInTime(access) ==
    Readers(access)
        \o <<Call("transition_to_cleanup"), Runs("Ok"), Gives("Ok"), Shows("Cleanup"),
             HasStopped("one"), HasStopped("two")>>
        \o Uses(access)
DrainsLateUnlocked ==
    Readers("get_mut_unlocked")
        \o <<Call("transition_to_cleanup"), Late, Runs("Ok"),
             GivesIn("GracefulWaitTimeout", "Cleanup"), Shows("Cleanup"), StillReads("two")>>
DrainsLate(access) ==
    Readers(access)
        \o <<Call("transition_to_cleanup"), Late, Runs("Ok"),
             GivesIn("GracefulWaitTimeout", "Cleanup"), Shows("Cleanup")>>
        \o Uses(access) \o <<StillReads("two")>>

\* A reader that comes during a transition to Read, which succeeds or fails.
ReadWaits ==
    Occupied(<<>>, "transition_to_read") \o Uses("read") \o <<Join("one"), Shows("Read")>>
ReadWaitsInVain ==
    <<Spawn("one", <<Call("transition_to_read"), Sleeps, Runs("Error"),
                     Gives("FailToRunClosureDuringTransitionToRead")>>),
      Sees("one"), Call("read"), GivesIn("CannotCallUnlessPhaseRead", "Setup"),
      Join("one"), Shows("Setup")>>

-----------------------------------------------------------------------------
(* The tests of PhasedCellSync, most of which the other cells have too *)

PhasedCellSync_transitions ==
    [transition_from_setup_to_read_then_cleanup |->
        ToRead \o <<Shows("Read")>> \o ToCleanup \o <<Shows("Cleanup")>>,
     transition_from_setup_to_cleanup |-> ToCleanup \o <<Shows("Cleanup")>>]

PhasedCellSync_updates ==
    [lock_and_update_internal_data_in_setup_and_cleanup_phases |->
        Updates(Together(Uses("lock")), Uses("lock"))]

PhasedCellSync_updates_try_lock ==
    [try_lock_and_update_internal_data_in_setup_and_cleanup_phases |->
        Updates(Alone(Uses("try_lock")), Uses("try_lock"))]

PhasedCellSync_shares ==
    [read_relaxed_internal_data_in_multi_threads |-> Shares("lock", "read_relaxed")]

PhasedCellSync_read_refused ==
    [fail_to_read_relaxed_if_phase_is_setup |->
        FailsIn(<<>>, "read_relaxed", "CannotCallUnlessPhaseRead", "Setup"),
     fail_to_read_relaxed_if_phase_is_cleanup |->
        FailsIn(ToCleanup, "read_relaxed", "CannotCallUnlessPhaseRead", "Cleanup"),
     fail_to_read_if_phase_is_setup |->
        FailsIn(<<>>, "read", "CannotCallUnlessPhaseRead", "Setup"),
     fail_to_read_if_phase_is_cleanup |->
        FailsIn(ToCleanup, "read", "CannotCallUnlessPhaseRead", "Cleanup")]

PhasedCellSync_refused ==
    [fail_to_lock_if_phase_is_read |->
        FailsIn(ToRead, "lock", "CannotCallOnPhaseRead", "Read"),
     fail_to_try_lock_if_phase_is_read |->
        FailsIn(ToRead, "try_lock", "CannotCallOnPhaseRead", "Read"),
     fail_to_transition_to_read_if_phase_is_read |->
        FailsIn(ToRead, "transition_to_read", "PhaseIsAlreadyRead", "Read"),
     fail_to_transition_to_read_if_phase_is_cleanup |->
        FailsIn(ToRead \o ToCleanup, "transition_to_read", "PhaseIsAlreadyCleanup",
            "Cleanup"),
     fail_to_transition_to_cleanup_if_phase_is_cleanup |->
        FailsIn(ToRead \o ToCleanup, "transition_to_cleanup",
            "PhaseIsAlreadyCleanup", "Cleanup")]

PhasedCellSync_access_during ==
    [fail_to_lock_during_transition_to_read |->
        FailsDuring(<<>>, "transition_to_read", "lock", "DuringTransitionToRead", "Read"),
     fail_to_try_lock_during_transition_to_read |->
        FailsDuring(<<>>, "transition_to_read", "try_lock", "DuringTransitionToRead",
            "Read"),
     fail_to_lock_during_transition_to_cleanup_from_setup |->
        FailsDuring(<<>>, "transition_to_cleanup", "lock",
            "DuringTransitionToCleanup", "Cleanup"),
     fail_to_try_lock_during_transition_to_cleanup_from_setup |->
        FailsDuring(<<>>, "transition_to_cleanup", "try_lock",
            "DuringTransitionToCleanup", "Cleanup")]

PhasedCellSync_access_during_cleanup ==
    [fail_to_lock_during_transition_to_cleanup_from_read |->
        FailsDuring(ToRead, "transition_to_cleanup", "lock",
            "DuringTransitionToCleanup", "Cleanup"),
     fail_to_try_lock_during_transition_to_cleanup_from_read |->
        FailsDuring(ToRead, "transition_to_cleanup", "try_lock",
            "DuringTransitionToCleanup", "Cleanup")]

PhasedCellSync_to_read_refused ==
    [fail_to_transition_to_read_if_closure_causes_an_error |->
        Breaks(<<>>, "transition_to_read", "Error",
            Gives("FailToRunClosureDuringTransitionToRead"), "Setup"),
     fail_to_transition_to_read_during_transition_to_read |->
        RefusedDuring(<<>>, "transition_to_read", "transition_to_read",
            "DuringTransitionToRead", "Read"),
     fail_to_transition_to_read_during_transition_to_cleanup |->
        RefusedDuring(<<>>, "transition_to_cleanup", "transition_to_read",
            "DuringTransitionToCleanup", "Cleanup")]

PhasedCellSync_cleanup_refused ==
    [fail_to_transition_to_cleanup_during_transition_to_read |->
        RefusedDuring(<<>>, "transition_to_read", "transition_to_cleanup",
            "DuringTransitionToRead", "Read"),
     fail_to_transition_to_cleanup_during_transition_to_cleanup_from_setup |->
        RefusedDuring(<<>>, "transition_to_cleanup", "transition_to_cleanup",
            "DuringTransitionToCleanup", "Cleanup"),
     fail_to_transition_to_cleanup_during_transition_to_cleanup_from_read |->
        RefusedDuring(ToRead, "transition_to_cleanup", "transition_to_cleanup",
            "DuringTransitionToCleanup", "Cleanup")]

PhasedCellSync_cleanup_fails ==
    [transition_to_cleanup_from_setup_but_closure_failed |->
        Breaks(<<>>, "transition_to_cleanup", "Error",
            GivesIn("FailToRunClosureDuringTransitionToCleanup", "Cleanup"), "Cleanup"),
     transition_to_cleanup_from_read_but_closure_failed |->
        Breaks(ToRead, "transition_to_cleanup", "Error",
            GivesIn("FailToRunClosureDuringTransitionToCleanup", "Cleanup"), "Cleanup")]

PhasedCellSync_panics ==
    [panic_during_transition_to_read |->
        Breaks(<<>>, "transition_to_read", "Panic",
            Gives("Panic"), "Setup") \o Uses("lock"),
     panic_during_transition_to_cleanup_from_setup |->
        Breaks(<<>>, "transition_to_cleanup", "Panic",
            Gives("Panic"), "Cleanup") \o Uses("lock"),
     panic_during_transition_to_cleanup_from_read |->
        Breaks(ToRead, "transition_to_cleanup", "Panic",
            Gives("Panic"), "Cleanup") \o Uses("lock")]

-----------------------------------------------------------------------------
(* The tests of PhasedCell *)

PhasedCell_transitions == PhasedCellSync_transitions

PhasedCell_updates ==
    [update_internal_data_in_setup_and_cleanup_phases |->
        Updates(Uses("get_mut_unlocked"), <<>>)]

PhasedCell_shares ==
    [read_relaxed_internal_data_in_multi_threads |->
        Shares("get_mut_unlocked", "read_relaxed"),
     read_internal_data_in_multi_threads |-> Shares("get_mut_unlocked", "read")]

PhasedCell_read_refused == PhasedCellSync_read_refused

PhasedCell_refused ==
    [fail_to_get_mut_unlocked_if_phase_is_read |->
        FailsIn(ToRead, "get_mut_unlocked", "CannotCallOnPhaseRead", "Read"),
     fail_to_transition_to_read_if_phase_is_read |->
        FailsIn(ToRead, "transition_to_read", "PhaseIsAlreadyRead", "Read"),
     fail_to_transition_to_read_if_phase_is_cleanup |->
        FailsIn(ToRead \o ToCleanup, "transition_to_read", "PhaseIsAlreadyCleanup",
            "Cleanup"),
     fail_to_transition_to_cleanup_if_phase_is_cleanup |->
        FailsIn(ToRead \o ToCleanup, "transition_to_cleanup",
            "PhaseIsAlreadyCleanup", "Cleanup")]

PhasedCell_access_during ==
    [fail_to_get_mut_unlocked_during_transition_to_read |->
        FailsDuring(<<>>, "transition_to_read", "get_mut_unlocked",
            "DuringTransitionToRead", "Read"),
     fail_to_get_mut_unlocked_during_transition_to_cleanup_from_setup |->
        FailsDuring(<<>>, "transition_to_cleanup", "get_mut_unlocked",
            "DuringTransitionToCleanup", "Cleanup")]

PhasedCell_access_during_cleanup ==
    [fail_to_get_mut_unlocked_during_transition_to_cleanup_from_read |->
        FailsDuring(ToRead, "transition_to_cleanup", "get_mut_unlocked",
            "DuringTransitionToCleanup", "Cleanup")]

PhasedCell_to_read_refused ==
    [fail_to_transition_to_read_because_of_failure_of_closure |->
        Breaks(<<>>, "transition_to_read", "Error",
            Gives("FailToRunClosureDuringTransitionToRead"), "Setup"),
     fail_to_transition_to_read_during_transition_to_read |->
        RefusedDuring(<<>>, "transition_to_read", "transition_to_read",
            "DuringTransitionToRead", "Read"),
     fail_to_transition_to_read_during_transition_to_cleanup |->
        RefusedDuring(<<>>, "transition_to_cleanup", "transition_to_read",
            "DuringTransitionToCleanup", "Cleanup")]

PhasedCell_cleanup_refused == PhasedCellSync_cleanup_refused
PhasedCell_cleanup_fails == PhasedCellSync_cleanup_fails

PhasedCell_panics ==
    [panic_during_transition_to_read |->
        Breaks(<<>>, "transition_to_read", "Panic", Gives("Panic"), "Setup"),
     panic_during_transition_to_cleanup_from_setup |->
        Breaks(<<>>, "transition_to_cleanup", "Panic", Gives("Panic"), "Cleanup"),
     panic_during_transition_to_cleanup_from_read |->
        Breaks(ToRead, "transition_to_cleanup", "Panic", Gives("Panic"), "Cleanup")]

-----------------------------------------------------------------------------
(* The tests of PhasedCellAsync *)

PhasedCellAsync_transitions == PhasedCellSync_transitions

PhasedCellAsync_updates ==
    [lock_update_internal_data_in_setup_and_cleanup_phases |->
        Updates(Together(Uses("lock")), Uses("lock"))]

PhasedCellAsync_updates_try_lock == PhasedCellSync_updates_try_lock
PhasedCellAsync_shares == PhasedCellSync_shares

PhasedCellAsync_read_refused ==
    [fail_to_read_relaxed_if_phase_is_setup |->
        FailsIn(<<>>, "read_relaxed", "CannotCallUnlessPhaseRead", "Setup"),
     fail_to_read_relaxed_if_phase_is_cleanup |->
        FailsIn(<<>>, "read", "CannotCallUnlessPhaseRead", "Setup"),
     fail_to_read_if_phase_is_setup |->
        FailsIn(<<>>, "read", "CannotCallUnlessPhaseRead", "Setup"),
     fail_to_read_if_phase_is_cleanup |->
        FailsIn(ToCleanup, "read", "CannotCallUnlessPhaseRead", "Cleanup")]

PhasedCellAsync_refused ==
    [fail_to_lock_if_phase_is_read |->
        FailsIn(ToRead, "lock", "CannotCallOnPhaseRead", "Read"),
     fail_to_try_lock_if_phase_is_read |->
        FailsIn(ToRead, "try_lock", "CannotCallOnPhaseRead", "Read"),
     fail_to_transition_to_read_if_phase_is_read |->
        FailsIn(ToRead, "transition_to_read", "PhaseIsAlreadyRead", "Read"),
     fail_to_transition_to_read_if_phase_is_cleanup |->
        FailsIn(ToRead \o ToCleanup, "transition_to_read", "PhaseIsAlreadyCleanup",
            "Cleanup")]

PhasedCellAsync_access_during == PhasedCellSync_access_during
PhasedCellAsync_access_during_cleanup == PhasedCellSync_access_during_cleanup
PhasedCellAsync_to_read_refused == PhasedCellSync_to_read_refused
PhasedCellAsync_cleanup_refused == PhasedCellSync_cleanup_refused
PhasedCellAsync_cleanup_fails == PhasedCellSync_cleanup_fails
PhasedCellAsync_panics == PhasedCellSync_panics

PhasedCellAsync_forces ==
    [try_hrtb_effect_of_transition_to_cleanup_async |-> ToRead,
     try_hrtb_effect_of_transition_to_read_async |-> ToRead,
     test_force_to_cleanup |->
        Uses("lock") \o Moves("force_to_cleanup") \o <<Shows("Cleanup")>>,
     test_read_and_force_to_cleanup |->
        Uses("lock") \o ToRead \o Moves("force_to_cleanup") \o <<Shows("Cleanup")>>,
     test_force_to_read |-> Uses("lock") \o Moves("force_to_read") \o <<Shows("Read")>>]

-----------------------------------------------------------------------------
(* The tests of GracefulPhasedCellSync *)

GracefulPhasedCellSync_transitions == PhasedCellSync_transitions
GracefulPhasedCellSync_updates == PhasedCellSync_updates

GracefulPhasedCellSync_updates_try_lock ==
    [try_lock_and_update_internal_data_in_setup_and_cleanup_phases |->
        Updates(Alone(Uses("try_lock")), Uses("lock"))]

GracefulPhasedCellSync_shares == PhasedCellSync_shares
GracefulPhasedCellSync_read_refused == PhasedCellSync_read_refused
GracefulPhasedCellSync_refused == PhasedCellSync_refused
GracefulPhasedCellSync_access_during == PhasedCellSync_access_during
GracefulPhasedCellSync_access_during_cleanup == PhasedCellSync_access_during_cleanup
GracefulPhasedCellSync_to_read_refused == PhasedCellSync_to_read_refused
GracefulPhasedCellSync_cleanup_refused == PhasedCellSync_cleanup_refused
GracefulPhasedCellSync_cleanup_fails == PhasedCellSync_cleanup_fails

GracefulPhasedCellSync_drains ==
    [transition_to_cleanup_gracefully |-> DrainsInTime("lock"),
     transition_to_cleanup_gracefully_but_timeout |-> DrainsLate("lock")]

GracefulPhasedCellSync_waits ==
    [read_waits_for_transition |-> ReadWaits,
     read_on_read_phase |-> ToRead \o Uses("read"),
     read_returns_error_if_transition_fails |-> ReadWaitsInVain]

GracefulPhasedCellSync_panics == PhasedCellSync_panics

-----------------------------------------------------------------------------
(* The tests of GracefulPhasedCell *)

GracefulPhasedCell_transitions == PhasedCellSync_transitions
GracefulPhasedCell_updates == PhasedCell_updates

GracefulPhasedCell_shares ==
    [read_relaxed_internal_data_in_multi_threads |->
        Shares("get_mut_unlocked", "read_relaxed")]

GracefulPhasedCell_read_refused == PhasedCellSync_read_refused
GracefulPhasedCell_refused == PhasedCell_refused
GracefulPhasedCell_access_during == PhasedCell_access_during
GracefulPhasedCell_access_during_cleanup == PhasedCell_access_during_cleanup
\* Here fail_to_transition_to_read_during_transition_to_cleanup asserts
\* PhaseIsAlreadyCleanup in a thread whose panic its join drops.  The kind is the other.
GracefulPhasedCell_to_read_refused == PhasedCell_to_read_refused
GracefulPhasedCell_cleanup_refused == PhasedCellSync_cleanup_refused
GracefulPhasedCell_cleanup_fails == PhasedCellSync_cleanup_fails

GracefulPhasedCell_drains ==
    [transition_to_cleanup_gracefully |-> DrainsInTime("get_mut_unlocked"),
     transition_to_cleanup_gracefully_but_timeout |-> DrainsLateUnlocked]

GracefulPhasedCell_waits == GracefulPhasedCellSync_waits
GracefulPhasedCell_panics == PhasedCell_panics

-----------------------------------------------------------------------------
(* The tests of GracefulPhasedCellAsync *)

GracefulPhasedCellAsync_transitions == PhasedCellSync_transitions
GracefulPhasedCellAsync_updates == PhasedCellSync_updates
GracefulPhasedCellAsync_updates_try_lock == PhasedCellSync_updates_try_lock
GracefulPhasedCellAsync_shares == PhasedCellSync_shares
GracefulPhasedCellAsync_read_refused == PhasedCellAsync_read_refused
GracefulPhasedCellAsync_refused == PhasedCellAsync_refused
GracefulPhasedCellAsync_access_during == PhasedCellSync_access_during
GracefulPhasedCellAsync_access_during_cleanup == PhasedCellSync_access_during_cleanup
GracefulPhasedCellAsync_to_read_refused == PhasedCellSync_to_read_refused
GracefulPhasedCellAsync_cleanup_refused == PhasedCellSync_cleanup_refused
GracefulPhasedCellAsync_cleanup_fails == PhasedCellSync_cleanup_fails
GracefulPhasedCellAsync_drains == GracefulPhasedCellSync_drains

GracefulPhasedCellAsync_waits ==
    [read_async_waits_for_transition |-> ReadWaits,
     read_async_on_read_phase |-> ToRead \o Uses("read"),
     read_async_returns_error_if_transition_fails |-> ReadWaitsInVain]

GracefulPhasedCellAsync_panics == PhasedCellSync_panics
GracefulPhasedCellAsync_forces == PhasedCellAsync_forces

-----------------------------------------------------------------------------
\* The tests of every cell, by name.
Tests ==
    [PhasedCellSync |->
        PhasedCellSync_transitions @@ PhasedCellSync_updates
            @@ PhasedCellSync_updates_try_lock @@ PhasedCellSync_shares
            @@ PhasedCellSync_read_refused @@ PhasedCellSync_refused
            @@ PhasedCellSync_access_during @@ PhasedCellSync_access_during_cleanup
            @@ PhasedCellSync_to_read_refused @@ PhasedCellSync_cleanup_refused
            @@ PhasedCellSync_cleanup_fails @@ PhasedCellSync_panics,
     PhasedCell |->
        PhasedCell_transitions @@ PhasedCell_updates @@ PhasedCell_shares
            @@ PhasedCell_read_refused @@ PhasedCell_refused
            @@ PhasedCell_access_during @@ PhasedCell_access_during_cleanup
            @@ PhasedCell_to_read_refused @@ PhasedCell_cleanup_refused
            @@ PhasedCell_cleanup_fails @@ PhasedCell_panics,
     PhasedCellAsync |->
        PhasedCellAsync_transitions @@ PhasedCellAsync_updates
            @@ PhasedCellAsync_updates_try_lock @@ PhasedCellAsync_shares
            @@ PhasedCellAsync_read_refused @@ PhasedCellAsync_refused
            @@ PhasedCellAsync_access_during @@ PhasedCellAsync_access_during_cleanup
            @@ PhasedCellAsync_to_read_refused @@ PhasedCellAsync_cleanup_refused
            @@ PhasedCellAsync_cleanup_fails @@ PhasedCellAsync_panics
            @@ PhasedCellAsync_forces,
     GracefulPhasedCellSync |->
        GracefulPhasedCellSync_transitions @@ GracefulPhasedCellSync_updates
            @@ GracefulPhasedCellSync_updates_try_lock @@ GracefulPhasedCellSync_shares
            @@ GracefulPhasedCellSync_read_refused @@ GracefulPhasedCellSync_refused
            @@ GracefulPhasedCellSync_access_during
            @@ GracefulPhasedCellSync_access_during_cleanup
            @@ GracefulPhasedCellSync_to_read_refused
            @@ GracefulPhasedCellSync_cleanup_refused
            @@ GracefulPhasedCellSync_cleanup_fails @@ GracefulPhasedCellSync_drains
            @@ GracefulPhasedCellSync_waits @@ GracefulPhasedCellSync_panics,
     GracefulPhasedCell |->
        GracefulPhasedCell_transitions @@ GracefulPhasedCell_updates
            @@ GracefulPhasedCell_shares @@ GracefulPhasedCell_read_refused
            @@ GracefulPhasedCell_refused @@ GracefulPhasedCell_access_during
            @@ GracefulPhasedCell_access_during_cleanup
            @@ GracefulPhasedCell_to_read_refused @@ GracefulPhasedCell_cleanup_refused
            @@ GracefulPhasedCell_cleanup_fails @@ GracefulPhasedCell_drains
            @@ GracefulPhasedCell_waits @@ GracefulPhasedCell_panics,
     GracefulPhasedCellAsync |->
        GracefulPhasedCellAsync_transitions @@ GracefulPhasedCellAsync_updates
            @@ GracefulPhasedCellAsync_updates_try_lock
            @@ GracefulPhasedCellAsync_shares @@ GracefulPhasedCellAsync_read_refused
            @@ GracefulPhasedCellAsync_refused @@ GracefulPhasedCellAsync_access_during
            @@ GracefulPhasedCellAsync_access_during_cleanup
            @@ GracefulPhasedCellAsync_to_read_refused
            @@ GracefulPhasedCellAsync_cleanup_refused
            @@ GracefulPhasedCellAsync_cleanup_fails @@ GracefulPhasedCellAsync_drains
            @@ GracefulPhasedCellAsync_waits @@ GracefulPhasedCellAsync_panics
            @@ GracefulPhasedCellAsync_forces]
==============================================================================
