------------------------------ MODULE Watchdog ------------------------------
(* The supervisor's watchdog over one node: told exits, the crash backstop, *)
(* and the bounded replacement of a worker that died empty-handed.          *)
(* (supervise/mod.rs watchdog_tick and below, supervise/outcome.rs,         *)
(* supervise/watchdog.rs, run_worker.rs, run/spawn.rs materialize.)         *)
(*                                                                          *)
(* One tick scans the node under a shared lock, probes the recorded process *)
(* without a lock, and decides under the exclusive lock after reading the   *)
(* node again. Meanwhile workers work, exit and are reported by their       *)
(* launcher shims, merges run, and an operator cancels or resumes.          *)
(*                                                                          *)
(* The two grace periods and the back-off delay a step and change nothing   *)
(* else: they are the freedom not to take it yet. An interactive run is     *)
(* exempt from the whole tick and is not modelled here.                     *)
EXTENDS Integers, FiniteSets

CONSTANTS MaxAttempts,       \* agent_retry_max_attempts
          MaxSpawnFailures,  \* agent_respawn_max_failures
          MaxLaunches,       \* bound: processes ever started for the node
          MaxCrashes,        \* bound: supervisor crashes
          MaxFaults          \* bound: everything else that may go wrong

ASSUME WatchdogAssumption ==
    /\ MaxAttempts \in Nat /\ MaxSpawnFailures \in Nat \ {0}
    /\ MaxLaunches \in Nat \ {0} /\ MaxCrashes \in Nat /\ MaxFaults \in Nat

VARIABLES tracked,   \* the projection of the node
          worker,    \* every worker started for it, with its launcher shim
          checkout,  \* a branch and its worktree per attempt name (-rN)
          dog,       \* the supervisor: its place in the tick, and its park
          budget     \* what is left of the two bounds

watchdog_vars == <<tracked, worker, checkout, dog, budget>>

Launch == 0..(MaxLaunches - 1)
Name == 0..MaxAttempts
Settled == {"done", "failed", "cancelled"}
Kinds == {"worker", "child", "resident"}

NoExit == [by |-> -1, code |-> "none"]
NoPark == [attempt |-> 0, failures |-> 0]
Unborn == [proc |-> "none", shim |-> "none", attempt |-> 0,
           name |-> 0, housed |-> FALSE, code |-> "none"]
NoCheckout == [branch |-> FALSE, tree |-> FALSE, ahead |-> FALSE,
               dirty |-> FALSE, attached |-> FALSE, gained |-> FALSE]
FreshCheckout == [NoCheckout EXCEPT !.branch = TRUE, !.tree = TRUE]

(* A worker started by materialize: its shim waits until the node knows     *)
(* the attempt.                                                             *)
Started(a, name) == [proc |-> "running", shim |-> "waiting", attempt |-> a,
                     name |-> name, housed |-> TRUE, code |-> "none"]

settled(n) == n.status \in Settled

Tracked(kind) ==
    [kind |-> kind, status |-> "running", attempt |-> 0, agent |-> 0,
     name |-> 0, exit |-> NoExit, death |-> FALSE, report |-> "none",
     merging |-> "no", round |-> FALSE]

(* Between ticks the supervisor holds nothing but a park. *)
Resting(park) == [pc |-> "idle", seen |-> Tracked("worker"),
                  verdict |-> "none", park |-> park, fresh |-> -1]

WatchdogInit ==
    /\ \E kind \in Kinds : tracked = Tracked(kind)
    /\ worker = [w \in Launch |->
                   IF w = 0 THEN [Started(0, 0) EXCEPT !.shim = "following"]
                   ELSE Unborn]
    /\ checkout = [b \in Name |->
                     IF b = 0 THEN [FreshCheckout EXCEPT !.attached = TRUE]
                     ELSE NoCheckout]
    /\ dog = Resting(NoPark)
    /\ budget = [crashes |-> MaxCrashes, faults |-> MaxFaults]

Fault == /\ budget.faults > 0
         /\ budget' = [budget EXCEPT !.faults = @ - 1]

-----------------------------------------------------------------------------
(* Workers and their launcher shims (run_worker.rs) *)

(* Commits and uncommitted edits of a running worker, in its own checkout. *)
Work(w) ==
    /\ worker[w].proc = "running" /\ worker[w].housed
    /\ \E what \in {"ahead", "dirty"} :
         checkout' = [checkout EXCEPT
           ![worker[w].name][what] = TRUE,
           ![worker[w].name].gained = @ \/ what = "ahead"]
    /\ UNCHANGED <<tracked, worker, dog, budget>>

(* A git process that outlives its agent, or a person, commits late. *)
LateCommit(b) ==
    /\ checkout[b].tree /\ checkout[b].branch
    /\ \A w \in Launch : worker[w].name = b => worker[w].proc # "running"
    /\ Fault
    /\ checkout' = [checkout EXCEPT ![b].ahead = TRUE, ![b].gained = TRUE]
    /\ UNCHANGED <<tracked, worker, dog>>

(* The exit code matters only to a shim that follows. *)
Exit(w, code) ==
    /\ worker[w].proc = "running"
    /\ worker[w].shim # "following" => code = "clean"
    /\ worker' = [worker EXCEPT ![w].proc = "gone", ![w].code = code]
    /\ UNCHANGED <<tracked, checkout, dog, budget>>

(* await_published_node: the shim follows its worker once the node has      *)
(* reached the attempt, and gives up on a worker that ended before that or  *)
(* was never published (the 120 s deadline); it then terminates the child   *)
(* and records nothing.                                                     *)
await_published_node(w) ==
    /\ worker[w].shim = "waiting"
    /\ \/ /\ worker[w].proc = "running"
          /\ tracked.attempt >= worker[w].attempt
          /\ worker' = [worker EXCEPT ![w].shim = "following"]
       \/ /\ \/ worker[w].proc = "gone"
             \/ tracked.attempt < worker[w].attempt
          /\ worker' = [worker EXCEPT ![w].shim = "gone", ![w].proc = "gone"]
    /\ UNCHANGED <<tracked, checkout, dog, budget>>

(* worker.exited, folded when it is of the node's current attempt, the node *)
(* is live and no exit was told before.                                     *)
record_worker_exit(w) ==
    /\ worker[w].shim = "following" /\ worker[w].proc = "gone"
    /\ worker' = [worker EXCEPT ![w].shim = "gone"]
    /\ tracked' =
         IF \/ settled(tracked) \/ tracked.exit # NoExit
            \/ worker[w].attempt # tracked.attempt
         THEN tracked
         ELSE [tracked EXCEPT !.exit = [by |-> w, code |-> worker[w].code]]
    /\ UNCHANGED <<checkout, dog, budget>>

(* The shim is killed hard or its append fails: the exit is never told.     *)
ShimLost(w) ==
    /\ worker[w].shim \in {"waiting", "following"}
    /\ Fault
    /\ worker' = [worker EXCEPT ![w].shim = "gone"]
    /\ UNCHANGED <<tracked, checkout, dog>>

-----------------------------------------------------------------------------
(* Everyone else who writes to the node *)

settle(status, report) ==
    tracked' = [tracked EXCEPT !.status = status, !.report = report,
                               !.merging = "no"]

(* node report of a blocked worker, and run cancel. *)
Reported ==
    /\ ~settled(tracked)
    /\ \/ worker[tracked.agent].proc = "running" /\ settle("failed", "agent")
       \/ settle("cancelled", "cancel")
    /\ UNCHANGED <<worker, checkout, dog, budget>>

(* run merge, driven by anyone: the transaction is announced, the source    *)
(* branch is moved, the report is appended. A recovery resolves a           *)
(* transaction whose driver died in the same two ways.                      *)
MergeStep ==
    /\ ~settled(tracked)
    /\ \/ /\ tracked.merging = "no" /\ checkout[tracked.name].ahead
          /\ tracked' = [tracked EXCEPT !.merging = "started"]
          /\ UNCHANGED checkout
       \/ /\ tracked.merging = "started"
          /\ tracked' = [tracked EXCEPT !.merging = "landed"]
          /\ checkout' = [checkout EXCEPT ![tracked.name].ahead = FALSE]
       \/ /\ tracked.merging = "started"
          /\ tracked' = [tracked EXCEPT !.merging = "no"]
          /\ UNCHANGED checkout
       \/ /\ tracked.merging = "landed"
          /\ settle("done", "merge")
          /\ UNCHANGED checkout
    /\ UNCHANGED <<worker, dog, budget>>

(* A resident reports its round; the next message resumes it, once an exit  *)
(* is told (failing only after a report), with a new worker in the same     *)
(* checkout.                                                                *)
RoundReported ==
    /\ tracked.kind = "resident" /\ ~settled(tracked) /\ ~tracked.round
    /\ worker[tracked.agent].proc = "running"
    /\ tracked' = [tracked EXCEPT !.round = TRUE]
    /\ UNCHANGED <<worker, checkout, dog, budget>>

Resumed ==
    /\ tracked.kind = "resident" /\ ~settled(tracked)
    /\ tracked.exit # NoExit /\ (tracked.round \/ tracked.exit.code = "clean")
    /\ tracked.attempt < MaxAttempts
    /\ \E w \in Launch :
         /\ worker[w] = Unborn /\ \A v \in 0..(w - 1) : worker[v] # Unborn
         /\ worker' = [worker EXCEPT
                         ![w] = Started(tracked.attempt + 1, tracked.name)]
         /\ tracked' = [tracked EXCEPT
              !.attempt = @ + 1, !.agent = w, !.exit = NoExit,
              !.death = FALSE, !.round = FALSE, !.merging = "no"]
    /\ UNCHANGED <<checkout, dog, budget>>

-----------------------------------------------------------------------------
(* The tick: what the scan selects the node for (classify_live_node)        *)
classify_live_node(n, parked) ==
    CASE settled(n) \/ n.round -> "reconcile"
      [] ~settled(n) /\ ~n.round /\ n.exit.code = "fail" -> "told"
      [] ~settled(n) /\ ~n.round /\ n.exit.code = "clean" -> "reconcile"
      [] OTHER -> IF parked THEN "reconcile" ELSE "probe"

watchdog_tick ==
    /\ dog.pc = "idle"
    /\ dog' = [dog EXCEPT
                 !.pc = classify_live_node(tracked, dog.park # NoPark),
                 !.seen = tracked]
    /\ UNCHANGED <<tracked, worker, checkout, budget>>

(* check_liveness: the process of the scanned node is alive, gone, or gone  *)
(* with its pid taken by another process. The first death is only recorded; *)
(* a death recorded before, past the grace, fires the backstop.             *)
check_liveness ==
    /\ dog.pc = "probe"
    /\ \E v \in IF worker[dog.seen.agent].proc = "running" THEN {"Alive"}
                ELSE {"Dead", "Recycled"} :
         dog' = [dog EXCEPT !.verdict = v,
                   !.pc = IF v = "Alive" THEN "reconcile"
                          ELSE IF dog.seen.death THEN "backstop"
                          ELSE "observe"]
    /\ UNCHANGED <<tracked, worker, checkout, budget>>

(* Faulty variant: the worker may have been replaced since the scan. *)
still_untold_any_worker(n) ==
    /\ n.report = "none" /\ n.exit = NoExit /\ n.merging = "no"
    /\ ~settled(n)

(* What must still hold of the node, read again under the exclusive lock.   *)
still_untold(n) ==
    /\ n.report = "none" /\ n.exit = NoExit /\ n.merging = "no"
    /\ n.agent = dog.seen.agent /\ ~settled(n)

(* Faulty variant: the first sighting is not made durable. *)
record_death_observed_in_vain ==
    /\ dog.pc = "observe"
    /\ dog' = [Resting(dog.park) EXCEPT !.pc = "reconcile"]
    /\ UNCHANGED <<tracked, worker, checkout, budget>>

record_death_observed ==
    /\ dog.pc = "observe"
    /\ tracked' = IF still_untold(tracked) /\ ~tracked.death
                  THEN [tracked EXCEPT !.death = TRUE] ELSE tracked
    /\ dog' = [Resting(dog.park) EXCEPT !.pc = "reconcile"]
    /\ UNCHANGED <<worker, checkout, budget>>

(* node_is_empty_handed: the branch is there and level with source, and the *)
(* worktree (if there) is clean.                                            *)
node_is_empty_handed(n) ==
    LET c == checkout[n.name]
    IN  c.branch /\ ~c.ahead /\ ~(c.tree /\ c.dirty)

retry_eligible_kind(n) == n.kind = "worker"

may_park(n) ==
    /\ dog.verdict = "Dead" /\ retry_eligible_kind(n)
    /\ node_is_empty_handed(n) /\ n.attempt < MaxAttempts

synthesize_crash_backstop_failure ==
    /\ dog.pc = "backstop"
    /\ IF still_untold(tracked) /\ may_park(tracked)
       THEN /\ dog' = [Resting(NoPark) EXCEPT !.pc = "reconcile",
                         !.park = [attempt |-> tracked.attempt + 1,
                                   failures |-> 0]]
            /\ UNCHANGED tracked
       ELSE /\ dog' = [Resting(dog.park) EXCEPT !.pc = "reconcile"]
            /\ IF still_untold(tracked) THEN settle("failed", "supervisor")
               ELSE UNCHANGED tracked
    /\ UNCHANGED <<worker, checkout, budget>>

synthesize_worker_exit_failure ==
    /\ dog.pc = "told"
    /\ dog' = [Resting(dog.park) EXCEPT !.pc = "reconcile"]
    /\ IF ~settled(tracked) /\ tracked.exit = dog.seen.exit /\ ~tracked.round
       THEN settle("failed", "supervisor") ELSE UNCHANGED tracked
    /\ UNCHANGED <<worker, checkout, budget>>

-----------------------------------------------------------------------------
(* reconcile_agent_retries: the park falls due *)
reconcile_agent_retries ==
    /\ dog.pc = "reconcile"
    /\ IF dog.park = NoPark
       THEN dog' = Resting(NoPark)
       ELSE IF settled(tracked) \/ ~node_is_empty_handed(tracked)
       THEN dog' = Resting(NoPark)
       ELSE dog' = [dog EXCEPT !.pc = "spawn", !.seen = tracked]
    /\ UNCHANGED <<tracked, worker, checkout, budget>>

(* A respawn that failed: try again later, or give up for good.             *)
RespawnFailed ==
    IF dog.park.failures + 1 >= MaxSpawnFailures
    THEN dog' = [dog EXCEPT !.pc = "giveup"]
    ELSE dog' = Resting([dog.park EXCEPT !.failures = @ + 1])

(* respawn_agent: a new worker in a new checkout named after the attempt,   *)
(* refused when the branch exists; materialize rolls back what it made when *)
(* it fails later.                                                          *)
respawn_agent ==
    /\ dog.pc = "spawn"
    /\ \/ /\ checkout[dog.park.attempt].branch
          /\ RespawnFailed /\ UNCHANGED <<worker, checkout, budget>>
       \/ Fault /\ RespawnFailed /\ UNCHANGED <<worker, checkout>>
       \/ /\ ~checkout[dog.park.attempt].branch
          /\ \E w \in Launch :
               /\ worker[w] = Unborn /\ \A v \in 0..(w - 1) : worker[v] # Unborn
               /\ worker' = [worker EXCEPT
                    ![w] = Started(dog.park.attempt, dog.park.attempt)]
               /\ dog' = [dog EXCEPT !.pc = "rewire", !.fresh = w]
          /\ checkout' = [checkout EXCEPT ![dog.park.attempt] = FreshCheckout]
          /\ UNCHANGED budget
    /\ UNCHANGED tracked

(* terminalize_respawn_failure; the park is kept when the append fails.     *)
terminalize_respawn_failure ==
    /\ dog.pc = "giveup"
    /\ \/ /\ IF settled(tracked) THEN UNCHANGED tracked
             ELSE settle("failed", "supervisor")
          /\ dog' = Resting(NoPark) /\ UNCHANGED budget
       \/ /\ ~settled(tracked) /\ Fault
          /\ dog' = Resting(dog.park) /\ UNCHANGED tracked
    /\ UNCHANGED <<worker, checkout>>

retried(n) ==
    [n EXCEPT !.attempt = dog.park.attempt, !.agent = dog.fresh,
              !.name = dog.park.attempt, !.exit = NoExit, !.death = FALSE,
              !.merging = "no"]

(* Faulty variant: the check made before the spawn is taken for granted. *)
record_node_retry_unchecked ==
    /\ dog.pc = "rewire"
    /\ tracked' = IF settled(tracked) THEN tracked ELSE retried(tracked)
    /\ checkout' = [checkout EXCEPT ![dog.park.attempt].attached = TRUE]
    /\ dog' = [dog EXCEPT !.pc = "supersede"]
    /\ UNCHANGED <<worker, budget>>

(* Under the lock: the node is still live and empty-handed, then node.retry *)
(* rewires it. Anything else tears the fresh worker down, and keeps the     *)
(* park only when it was the append that failed.                            *)
record_node_retry ==
    /\ dog.pc = "rewire"
    /\ IF settled(tracked) \/ ~node_is_empty_handed(tracked)
       THEN dog' = [dog EXCEPT !.pc = "teardown", !.park = NoPark] /\ UNCHANGED <<tracked, checkout, budget>>
       ELSE \/ /\ tracked' = retried(tracked)
               /\ checkout' = [checkout EXCEPT
                                 ![dog.park.attempt].attached = TRUE]
               /\ dog' = [dog EXCEPT !.pc = "supersede"]
               /\ UNCHANGED budget
            \/ /\ Fault /\ dog' = [dog EXCEPT !.pc = "teardown"]
               /\ UNCHANGED <<tracked, checkout>>
    /\ UNCHANGED worker

(* teardown_respawn_outcome and the rollback of the materialization: the    *)
(* fresh worker is asked to end and its checkout removed by force, whether  *)
(* or not it ended in time.                                                 *)
teardown_respawn_outcome ==
    /\ dog.pc = "teardown"
    /\ \/ /\ worker' = [worker EXCEPT ![dog.fresh].proc = "gone",
                                      ![dog.fresh].housed = FALSE]
          /\ UNCHANGED budget
       \/ /\ Fault
          /\ worker' = [worker EXCEPT ![dog.fresh].housed = FALSE]
    /\ checkout' = [checkout EXCEPT ![worker[dog.fresh].name] = NoCheckout]
    /\ dog' = Resting(dog.park)
    /\ UNCHANGED tracked

(* cleanup_superseded_node: the guards of a source-relative teardown ...    *)
cleanup_superseded_node ==
    /\ dog.pc = "supersede"
    /\ LET c == checkout[dog.seen.name]
       IN  IF c.ahead \/ (c.tree /\ c.dirty) THEN dog' = Resting(NoPark)
           ELSE dog' = [dog EXCEPT !.pc = "remove"]
    /\ UNCHANGED <<tracked, worker, checkout, budget>>

(* ... then a removal that refuses a dirty worktree, and branch -d, which   *)
(* refuses a branch with commits of its own and may refuse any other (it    *)
(* compares with the branch that happens to be checked out).                *)
remove_superseded ==
    /\ dog.pc = "remove"
    /\ LET c == checkout[dog.seen.name]
       IN  IF c.tree /\ c.dirty THEN UNCHANGED checkout
           ELSE \E kept \in {TRUE, c.ahead} :
                  checkout' = [checkout EXCEPT ![dog.seen.name].tree = FALSE,
                                               ![dog.seen.name].branch = kept]
    /\ dog' = Resting(NoPark)
    /\ UNCHANGED <<tracked, worker, budget>>

(* The supervisor dies: the park and the knowledge of a fresh worker go.    *)
SupervisorCrash ==
    /\ budget.crashes > 0
    /\ dog.pc # "idle" \/ dog.park # NoPark
    /\ budget' = [budget EXCEPT !.crashes = @ - 1]
    /\ dog' = Resting(NoPark)
    /\ UNCHANGED <<tracked, worker, checkout>>

Tick ==
    \/ watchdog_tick \/ check_liveness \/ record_death_observed
    \/ synthesize_crash_backstop_failure \/ synthesize_worker_exit_failure
    \/ reconcile_agent_retries \/ respawn_agent
    \/ terminalize_respawn_failure \/ record_node_retry
    \/ teardown_respawn_outcome \/ cleanup_superseded_node
    \/ remove_superseded

WatchdogNext ==
    \/ Tick \/ SupervisorCrash
    \/ \E w \in Launch :
         \/ Work(w) \/ await_published_node(w) \/ record_worker_exit(w)
         \/ ShimLost(w) \/ \E code \in {"clean", "fail"} : Exit(w, code)
    \/ \E b \in Name : LateCommit(b)
    \/ Reported \/ MergeStep \/ RoundReported \/ Resumed

WatchdogSpec == WatchdogInit /\ [][WatchdogNext]_watchdog_vars

(* The supervisor keeps ticking, and a merge transaction is carried on by   *)
(* its driver or, after its death, by the recovery of every tick.           *)
WatchdogFairSpec ==
    WatchdogSpec /\ WF_watchdog_vars(Tick) /\ WF_watchdog_vars(MergeStep)

-----------------------------------------------------------------------------
\* The node, its launches, their checkouts and the supervisor's place in a
\* tick hold values of their types.
WatchdogTypeOK ==
    /\ tracked.status \in Settled \cup {"running"}
    /\ tracked.agent \in Launch /\ tracked.name \in Name
    /\ tracked.attempt \in 0..MaxAttempts
    /\ dog.park.attempt \in 0..MaxAttempts
    /\ dog.park.failures \in 0..MaxSpawnFailures
    /\ dog.fresh \in Launch \cup {-1}
    /\ \A w \in Launch : worker[w].attempt \in 0..MaxAttempts
    /\ \A b \in Name : checkout[b].dirty \/ checkout[b].ahead
                         => checkout[b].branch \/ checkout[b].attached

(* An exit told for the node is the exit of the worker the node names: the  *)
(* shim of an earlier attempt, or of a launch that never reached the node,  *)
(* does not speak for a later one. (Unless that launch outlived its         *)
(* teardown and the attempt was started once more under the same number.)   *)
ExitIsOwn ==
    tracked.exit # NoExit =>
      \/ tracked.exit.by = tracked.agent
      \/ ~worker[tracked.exit.by].housed

(* The supervisor fails a node only when the worker the node names is gone, *)
(* whatever was retried, resumed or told between its scan and its verdict.  *)
OnlyDeadFail ==
    tracked.report = "supervisor" =>
      \/ worker[tracked.agent].proc = "gone"
      \/ \E w \in Launch : worker[w].proc # "none" /\ ~worker[w].housed

(* Commits and uncommitted edits in a checkout that ever was the node's are *)
(* not removed by a retry: a superseded branch or worktree that gained work *)
(* between the checks and the removal stays.                                *)
WorkSurvives ==
    \A b \in Name :
      checkout[b].attached =>
        /\ checkout[b].ahead => checkout[b].branch
        /\ checkout[b].dirty => checkout[b].tree

(* A retry starts from source and abandons the previous checkout, so it     *)
(* never leaves work behind there that has not landed.                      *)
RetryLeavesNothing ==
    (tracked'.name # tracked.name) =>
      ~checkout[tracked.name].ahead /\ ~checkout[tracked.name].dirty

(* At most MaxAttempts workers replace the first one, however often the     *)
(* supervisor restarts, and each under a number of its own.                 *)
BoundedRetry ==
    tracked'.agent # tracked.agent =>
      tracked'.attempt = tracked.attempt + 1

(* A node whose worker is gone does not stay as it is: it is replaced, it   *)
(* ends, or a told clean exit or round report says why it waits. (Merges    *)
(* that are started and given up without end keep the watchdog away.)       *)
DeathIsNoticed ==
    <>[](tracked.merging = "no") =>
      ((~settled(tracked) /\ worker[tracked.agent].proc = "gone")
         ~> \/ settled(tracked) \/ tracked.round
            \/ tracked.exit.code = "clean"
            \/ worker[tracked.agent].proc = "running")

(* "A retry can never rewire away from, or clobber, a branch that gained    *)
(* committed work" (supervise/mod.rs).                                      *)
RetryNeverLeavesGainedBranch ==
    [][ (tracked'.name # tracked.name) => ~checkout[tracked.name].gained
      ]_watchdog_vars

\* What the node records of its workers, and what is on disk of their work,
\* stays true through retries, resumes, told exits and restarts of the
\* supervisor.
WatchdogSound == WatchdogTypeOK /\ ExitIsOwn /\ OnlyDeadFail /\ WorkSurvives

\* A replacement of the worker (record_node_retry) abandons no work and is
\* counted.
RetryIsSafe == [][RetryLeavesNothing /\ BoundedRetry]_watchdog_vars

=============================================================================
