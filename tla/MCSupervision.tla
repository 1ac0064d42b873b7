--------------------------- MODULE MCSupervision ----------------------------
(***************************************************************************)
(* The supervisor of a run and those who watch runs: the loop of one       *)
(* process, its bookkeeping of the child runs it starts, and the commands  *)
(* and hooks that tell people how a run stands.  Each is checked against the *)
(* files it reads, so one of them is at work in a behaviour and the others *)
(* are at rest, in a state they do not leave.                              *)
(***************************************************************************)
EXTENDS Supervisor, ChildStartup, Observers

TwoKids == 1 .. 2
TwoSlots == 1 .. 2
None == [launch |-> 0, crash |-> 0, signal |-> 0, fault |-> 0,
         late |-> 0, rot |-> 0, cancel |-> 0, vanish |-> 0, kids |-> 1]
Restart == [None EXCEPT !.launch = 1, !.crash = 1]
SomeOdds == {[Restart EXCEPT !.late = 1],
             [None EXCEPT !.vanish = 1, !.fault = 1],
             [None EXCEPT !.launch = 1, !.signal = 1],
             [None EXCEPT !.signal = 1, !.cancel = 1],
             [None EXCEPT !.rot = 1, !.fault = 1],
             [None EXCEPT !.kids = 2]}

TwoChildren == 1 .. 2
Fair == [launch |-> 1, crash |-> 0, vanish |-> 0, boot |-> 0, death |-> 0, fork |-> 0]
SomeLuck == {[Fair EXCEPT !.launch = 2, !.crash = 1, !.boot = 1],
             [Fair EXCEPT !.vanish = 1, !.death = 1],
             [Fair EXCEPT !.fork = 1, !.boot = 1, !.death = 1]}

OneWaiter == {"w"}
Errand(any, terminal, fail, timeout, check) ==
    [any |-> any, terminal |-> terminal, fail |-> fail, timeout |-> timeout, check |-> check]
AllErrands ==
    {Errand(any, terminal, TRUE, 0, 0) : any \in BOOLEAN, terminal \in BOOLEAN}
    \cup {Errand(FALSE, FALSE, FALSE, t, c) : t \in 1..2, c \in 0..2}

Scenery(first, kind, busy, timed, waiting, moves, deaths, slips, writes, tears) ==
    [first |-> first, kind |-> kind, busy |-> busy, timed |-> timed, hook |-> slips > 0,
     waits |-> waiting,
     moves |-> moves,
     deaths |-> deaths, slips |-> slips, writes |-> writes, tears |-> tears,
     tails |-> IF writes > 0 THEN 1 ELSE 0, signals |-> IF writes > 0 THEN 1 ELSE 0]

NothingToSee == Scenery(1, "plain", {}, FALSE, 0, 0, 0, 0, 0, 0)
SomeSceneries ==
    {NothingToSee}
    \cup {Scenery(1, kind, {1}, FALSE, 1, 2, 1, 0, 0, 0) : kind \in {"resident", "caller", "plain"}}
    \cup {Scenery(first, "plain", 1..2, FALSE, 1, 1, 2, 0, 0, 0) : first \in 0..1}
    \cup {Scenery(1, "plain", {1}, TRUE, 1, 2, 0, 0, 0, 0)}
    \cup {Scenery(1, kind, {1}, FALSE, 0, 3, 1, 1, 0, 0) : kind \in {"plain", "resident"}}
    \cup {Scenery(1, "plain", {}, FALSE, 0, 0, 0, 0, 3, 2)}

-----------------------------------------------------------------------------

\* A finished run, long without a supervisor.
SupervisorAtRest ==
    /\ run = [dir |-> FALSE, status |-> "done", worker |-> "done", log |-> <<>>,
              cursor |-> [k \in Kids |-> 0], old |-> TRUE,
              fired |-> 0, marked |-> FALSE, unmarked |-> 0]
    /\ kid = [k \in Kids |-> [log |-> <<>>, junk |-> Clear]]
    /\ pidfile = NoPid /\ saved = Unsaved /\ proc = [s \in Slots |-> Off]
    /\ creator = [slot |-> 1, told |-> "ready"] /\ odds = None

\* A parent that is gone, without children.
ChildStartupAtRest ==
    /\ child = [k \in Children |-> [sup |-> FALSE, boots |-> 0, over |-> FALSE, died |-> FALSE]]
    /\ home = FALSE /\ luck = Fair /\ links = 0 /\ par = Down
    /\ disk = [own |-> 0, spawned |-> Unrecorded]

ObserversAtRest == ObserversInit /\ scenery = NothingToSee

VARIABLE at_work   \* which of the components this behaviour is about

SupervisionInit ==
    \/ at_work = "supervisor" /\ SupervisorInit
        /\ ChildStartupAtRest /\ ObserversAtRest
    \/ at_work = "children" /\ StartupInit
        /\ SupervisorAtRest /\ ObserversAtRest
    \/ at_work = "observers" /\ ObserversInit
        /\ SupervisorAtRest /\ ChildStartupAtRest

SupervisionNext ==
    /\ UNCHANGED at_work
    /\ \/ at_work = "supervisor" /\ SupervisorNext
          /\ UNCHANGED <<startup_vars, observer_vars>>
       \/ at_work = "children" /\ StartupNext
          /\ UNCHANGED <<supervisor_vars, observer_vars>>
       \/ at_work = "observers" /\ ObserversNext
          /\ UNCHANGED <<supervisor_vars, startup_vars>>

suite_vars == <<supervisor_vars, startup_vars, observer_vars, at_work>>

SupervisionSpec ==
    /\ SupervisionInit /\ [][SupervisionNext]_suite_vars
    /\ SupervisorFairness /\ StartupFairness /\ ObserversFair

\* Nobody who depends on supervision waits for ever: the creator for its
\* answer, a finished run for its end, a child for its supervisor, `run wait`
\* on stranded runs, a follower for lines, a person for the page.
SupervisionProceeds ==
    /\ CreatorAnswered /\ WindsDown /\ StartupSettles
    /\ StrandedIsNoticed /\ FollowerKeepsUp /\ RequestIsPaged

=============================================================================
