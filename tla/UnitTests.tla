------------------------------- MODULE UnitTests -------------------------------
(***************************************************************************)
(* The unit tests of src/src run on the models of the cells: each thread   *)
(* of a test follows its script of UnitTestScripts, and between two events *)
(* of a script the cell takes the steps it likes.  What the tests assert   *)
(* is an invariant; a test that the cell cannot finish is a deadlock.      *)
(*                                                                         *)
(* A test sleeps to let the other threads get on; here a thread sleeps     *)
(* until they all wait.  So far only do the tests choose an interleaving,  *)
(* and all those they leave open are checked.                              *)
(***************************************************************************)
EXTENDS UnitTestScripts, Phase, FiniteSets

\* The thread of the test and those it starts.
Threads == {"main", "one", "two"}
Nobody  == "nobody"

VARIABLES
    \* those of the cells
    phase, data_mutex, data_cell, holder, poisoned, pc, call, old, res,
    synced, published, graceful_counter, graceful_holder, seen, result_w,
    forced, accidents,
    cell,   \* the type of the cell that is tested
    todo    \* what is left of each thread's script

data == <<data_mutex, data_cell, holder, poisoned>>
memory == <<synced, published>>
waits == <<graceful_counter, graceful_holder, result_w>>
extra == <<forced, accidents>>
cellVars == <<phase, pc, call, old, res, data, memory, waits, seen, extra>>
vars == <<cellVars, cell, todo>>

S  == INSTANCE PhasedCellSync
P  == INSTANCE PhasedCell
A  == INSTANCE PhasedCellAsync WITH Tasks <- Threads, Allowed <- {}
GS == INSTANCE GracefulPhasedCellSync WITH TimeoutsFire <- TRUE, Misusers <- {}
G  == INSTANCE GracefulPhasedCell WITH TimeoutsFire <- TRUE, Misusers <- {}
GA == INSTANCE GracefulPhasedCellAsync WITH Tasks <- Threads, Allowed <- {}

Init ==
    /\ S!PhasedCellSyncInit /\ P!PhasedCellInit /\ A!AsyncInit
    /\ GS!GracefulInit /\ G!GracefulInit /\ GA!GracefulInit
    /\ cell \in DOMAIN Tests
    /\ \E test \in DOMAIN Tests[cell] :
          todo = [t \in Threads |-> IF t = "main" THEN Tests[cell][test] ELSE <<>>]

-----------------------------------------------------------------------------
(* The steps of the cell *)

CellNext ==
    \/ /\ cell = "PhasedCellSync"
       /\ S!PhasedCellSyncNext
       /\ UNCHANGED <<memory, waits, seen, extra>>
    \/ /\ cell = "PhasedCell"
       /\ P!PhasedCellNext
       /\ UNCHANGED <<data, waits, seen, extra>>
    \/ /\ cell = "PhasedCellAsync"
       /\ A!AsyncNext
       /\ UNCHANGED <<memory, waits, seen>>
    \/ /\ cell = "GracefulPhasedCellSync"
       /\ GS!GracefulNext
       /\ UNCHANGED <<memory, extra>>
    \/ /\ cell = "GracefulPhasedCell"
       /\ G!GracefulNext
       /\ UNCHANGED <<data, seen, extra>>
    \/ /\ cell = "GracefulPhasedCellAsync"
       /\ GA!GracefulNext
       /\ UNCHANGED <<memory, graceful_holder, seen>>

\* Where the test has the &mut T, the guard or the &T, and may do what it likes.
Borrowed == {"guard", "reading", "exclusive"}
Inside   == Borrowed \cup {"run"}

\* The time of thread t's wait is up.
TimesOut(t) ==
    \/ result_w[t] # "Timeout" /\ result_w'[t] = "Timeout"
    \/ res[t].kind # "GracefulWaitTimeout" /\ res'[t].kind = "GracefulWaitTimeout"

\* Thread t stays where its script has to say how it goes on.
Quiet(t) ==
    /\ pc[t] \in Inside \cup {"idle", "ret"} => pc'[t] = pc[t]
    /\ ~TimesOut(t)

Forcing == {"force_to_read", "force_to_cleanup"}

\* The method of the cell's module that stands for m: in the cells whose read does not
\* wait, read_relaxed is the same but for its memory ordering.
Modelled(m) ==
    CASE m = "force_to_read"    -> "transition_to_read"
      [] m = "force_to_cleanup" -> "transition_to_cleanup"
      [] m = "read_relaxed"
         /\ cell \in {"PhasedCellSync", "PhasedCellAsync", "GracefulPhasedCellAsync"} -> "read"
      [] OTHER -> m

\* The kinds of result a closure's outcome gives.
Kinds(outcome) ==
    IF outcome = "Error" THEN {"FailToRunClosureDuringTransitionToRead",
                               "FailToRunClosureDuringTransitionToCleanup"}
                         ELSE {outcome}

\* The step of the cell is event e of thread t.  No test calls read in a transition to
\* Read of a cell whose read does not wait.
Happens(t, e) ==
    \/ /\ e.event = "call"
       /\ pc[t] = "idle" /\ pc'[t] # "idle"
       /\ call'[t] = Modelled(e.method)
       /\ e.method = "read" /\ phase = PHASE_SETUP_TO_READ => pc'[t] # "ret"
       /\ forced'[t] = (e.method \in Forcing)
    \/ /\ e.event = "runs"
       /\ pc[t] = "run" /\ pc'[t] # "run"
       /\ res'[t].kind \in Kinds(e.outcome)
    \/ /\ e.event = "ends"
       /\ pc[t] \in Borrowed /\ pc'[t] # pc[t]
       /\ res'[t] # Panic
    \/ /\ e.event = "gives"
       /\ pc[t] = "ret" /\ pc'[t] = "idle"
    \/ /\ e.event = "late"
       /\ TimesOut(t)

\* The events between the threads of a test.
Due(t, event) == todo[t] # <<>> /\ Head(todo[t]).event = event

Goes(t) == todo' = [todo EXCEPT ![t] = Tail(@)] /\ UNCHANGED <<cellVars, cell>>

\* A cell's step is one event of one thread's script, or none.
CellStep ==
    /\ CellNext
    /\ pc' # pc
    /\ \/ /\ \A u \in Threads : Quiet(u)
          /\ UNCHANGED todo
       \/ \E t \in Threads :
             /\ todo[t] # <<>>
             /\ Happens(t, Head(todo[t]))
             /\ \A u \in Threads \ {t} : Quiet(u)
             /\ todo' = [todo EXCEPT ![t] = Tail(@)]
    /\ UNCHANGED cell

-----------------------------------------------------------------------------
(* The steps between the threads of a test *)

Spawns(t) ==
    /\ Due(t, "spawn")
    /\ pc[t] = "idle"
    /\ LET e == Head(todo[t]) IN
          todo' = [todo EXCEPT ![t] = Tail(@), ![e.thread] = e.script]
    /\ UNCHANGED <<cellVars, cell>>

Over(t) == todo[t] = <<>> /\ pc[t] = "idle"

Joins(t) ==
    /\ Due(t, "join")
    /\ pc[t] = "idle"
    /\ Over(Head(todo[t]).thread)
    /\ Goes(t)

SeesInside(t) ==
    /\ Due(t, "sees")
    /\ pc[Head(todo[t]).thread] \in Inside
    /\ Goes(t)

\* Thread t gets no further before another one does.
Settled(t) ==
    \/ todo[t] = <<>>
    \/ Due(t, "join") \/ Due(t, "sleeps")
    \/ pc[t] = "asleep" /\ ~Due(t, "late")

SleepsEnough(t) ==
    /\ Due(t, "sleeps")
    /\ pc[t] \in Inside
    /\ \A u \in Threads \ {t} : Settled(u)
    /\ Goes(t)

Checks(t) == Due(t, "check") /\ pc[t] = "idle" /\ Goes(t)

\* Every thread has come to the end of its script.
Done == (\A t \in Threads : Over(t)) /\ UNCHANGED vars

Next ==
    \/ CellStep
    \/ \E t \in Threads :
          Spawns(t) \/ Joins(t) \/ SeesInside(t) \/ SleepsEnough(t) \/ Checks(t)
    \/ Done

Spec == Init /\ [][Next]_vars

-----------------------------------------------------------------------------
(* Properties *)

\* What thread t's call gives its caller; a get_mut_unlocked that is not refused gives
\* no error.
Answer(t) ==
    IF call[t] = "get_mut_unlocked" /\ res[t] = NoResult THEN Ok ELSE GS!Returned(t)

\* The result is the one that the test asserts.
Expected(e, result) ==
    /\ result.kind = e.kind
    /\ e.phase \in {"any", result.phase}

\* What the test asserts of the cell, or of another thread, is so.
Holds(e) ==
    CASE e.what = "reading" -> pc[e.of] = "reading"
      [] e.what = "stopped" -> pc[e.of] # "reading"
      [] OTHER              -> u8_to_phase(phase) = e.what

\* The scripts hold, in every order of their threads that sleeps and joins leave open:
\* closures run exactly where the test has them run, each call gives the result that
\* the script asserts, and the phase is the asserted one whenever the test looks.
AssertionsHold ==
    \A t \in Threads :
        /\ Due(t, "gives") => /\ pc[t] \notin Inside
                              /\ pc[t] = "ret" => Expected(Head(todo[t]), Answer(t))
        /\ Due(t, "runs") \/ Due(t, "ends") => pc[t] # "ret"
        /\ Due(t, "check") => Holds(Head(todo[t]))
==============================================================================
