------------------------------- MODULE Create -------------------------------
(***************************************************************************)
(* `run create` with an idempotency key: several creators with one key,    *)
(* the durable reservation, the inheritable materializer lease, the        *)
(* private staging directory, the launch of the worker with its            *)
(* publication gate, the publishing rename, the parent's child.spawned     *)
(* edge, and reclaiming what a killed creator left.                        *)
(*                                                                         *)
(* A creator is one `taskfleet run create` process (run/create.rs).  The   *)
(* `workmux add` it starts inherits its lease and may outlive it.  The     *)
(* pane that `workmux add` opens belongs to the tmux server: its launcher  *)
(* publishes the handshake and its run-worker shim holds the worker until  *)
(* the run is published.  A client repeats a creation until it succeeds.   *)
(***************************************************************************)
EXTENDS Integers, FiniteSets

CONSTANTS
  Creators,   \* concurrent clients that use the key
  Ids,        \* 1..n, the run ids in the order they are minted
  MaxRounds,  \* how often a creator looks at a changing reservation (8)
  Odds        \* scenarios: how many kills and failures may still happen

ASSUME CreateAssumption ==
  /\ Ids \subseteq Nat \ {0} /\ 1 \in Ids
  /\ MaxRounds \in Nat \ {0}
  /\ Odds \subseteq [kills : Nat, errs : Nat]

VARIABLES
  key,      \* the reservation record of the key, or NoKey
  runs,     \* what exists of each run id: files, git resources, pane
  maker,    \* the creators
  child,    \* the run is created under a parent run
  chance    \* what is left of the scenario

create_vars == <<key, runs, maker, child, chance>>

NoKey == [run |-> 0, by |-> "none", stale |-> {}]

Blank == [stage |-> "none", add |-> FALSE, tree |-> FALSE, pane |-> "none",
          shake |-> FALSE, pub |-> FALSE, edges |-> 0, sup |-> FALSE,
          lost |-> FALSE]

Away == [at |-> "idle", id |-> 0, seen |-> NoKey, stale |-> {}, rounds |-> 0,
         keep |-> FALSE, out |-> "none"]

Reservation(id, stale) == [run |-> id, by |-> "lease", stale |-> stale]

\* A key file of an earlier release names a run and no creator; one written
\* by a caller-owned creation carries the plan of that creation.
CreateInit ==
  /\ key \in {NoKey, [NoKey EXCEPT !.run = 1, !.by = "legacy"],
              [NoKey EXCEPT !.run = 1, !.by = "caller"]}
  /\ runs = [i \in Ids |-> Blank]
  /\ maker = [c \in Creators |-> Away]
  /\ child \in BOOLEAN
  /\ chance \in Odds

-----------------------------------------------------------------------------
Mentioned(c) ==
  {maker[c].id, maker[c].seen.run} \cup maker[c].stale \cup maker[c].seen.stale

\* Run ids are never used twice; an id nothing mentions any more stands for
\* a new one.
Unused ==
  {i \in Ids : /\ runs[i] = Blank
               /\ i \notin {key.run} \cup key.stale
               /\ \A c \in Creators : i \notin Mentioned(c)}

NewId == CHOOSE i \in Unused : \A j \in Unused : i <= j

Working(c) == maker[c].at # "idle"

\* Faulty variant: the lease is not inherited.
LeaseHeld_parent(i) ==
  \E c \in Creators : Working(c) /\ maker[c].id = i /\ maker[c].at # "lookup"

\* A creator process holds the flock of its own run's lease from before the
\* reservation until it ends; the subprocesses it started inherit it.
LeaseHeld(i) ==
  \/ \E c \in Creators : Working(c) /\ maker[c].id = i /\ maker[c].at # "lookup"
  \/ runs[i].add

classify_existing_reservation(r) ==
  IF runs[r.run].pub THEN "published"
  ELSE IF r.by # "lease" THEN "unverifiable"
  ELSE IF LeaseHeld(r.run) THEN "live"
  ELSE "dead"

Fails == chance.errs > 0 /\ chance' = [chance EXCEPT !.errs = @ - 1]

Set(c, new) == maker' = [maker EXCEPT ![c] = new]

At(c, place) == Set(c, [maker[c] EXCEPT !.at = place])

Answer(c, out) == Set(c, [Away EXCEPT !.out = out])

\* A client starts a creation, again whenever the one before failed.
Start(c) ==
  /\ maker[c].at = "idle" /\ maker[c].out \in {"none", "failed"}
  /\ Unused # {}
  /\ Set(c, [Away EXCEPT !.at = "lookup", !.id = NewId])
  /\ UNCHANGED <<key, runs, child, chance>>

\* The look at the key before anything else: a published run is replayed.
Lookup(c) ==
  /\ maker[c].at = "lookup"
  /\ IF key.by = "caller" THEN Answer(c, "conflict")
     ELSE IF key # NoKey /\ runs[key.run].pub
     THEN Set(c, [maker[c] EXCEPT !.at = "replay", !.seen = key])
     ELSE At(c, "reserve")
  /\ UNCHANGED <<key, runs, child, chance>>

\* The lease of the new run is taken, then the key is linked exclusively.
reserve(c) ==
  /\ maker[c].at = "reserve"
  /\ IF key = NoKey
     THEN /\ key' = Reservation(maker[c].id, {})
          /\ Set(c, [maker[c] EXCEPT !.at = "stage", !.seen = NoKey, !.rounds = 0])
     ELSE /\ Set(c, [maker[c] EXCEPT !.at = "look", !.seen = key])
          /\ UNCHANGED key
  /\ UNCHANGED <<runs, child, chance>>

\* One round over the reservation last observed.  The record may be stale;
\* its creator's state is read now.
Look(c) ==
  /\ maker[c].at = "look"
  /\ LET r == maker[c].seen
         what == classify_existing_reservation(r)
         more == maker[c].rounds < MaxRounds IN
     Set(c, [maker[c] EXCEPT !.rounds = IF more THEN @ + 1 ELSE @,
               !.at = CASE ~more \/ r.by = "caller" -> "refuse"
                        [] what = "published" -> "replay"
                        [] what = "live" -> "wait"
                        [] what = "dead" -> "reclaim"
                        [] OTHER -> "refuse"])
  /\ UNCHANGED <<key, runs, child, chance>>

\* No guard exists yet, or it keeps its reservation: the key is left alone.
Refused(c) ==
  /\ maker[c].at = "refuse"
  /\ Answer(c, "failed")
  /\ UNCHANGED <<key, runs, child, chance>>

\* While the owner's creator lives the key is polled, up to a deadline.
Wait(c) ==
  /\ maker[c].at = "wait"
  /\ \/ At(c, "refuse")
     \/ key = NoKey /\ At(c, "reserve")
     \/ /\ key # NoKey /\ classify_existing_reservation(key) # "live"
        /\ Set(c, [maker[c] EXCEPT !.at = "look", !.seen = key])
  /\ UNCHANGED <<key, runs, child, chance>>

\* Faulty variant: only the last abandoned run is remembered.
replacement_last(c) == Reservation(maker[c].id, {maker[c].seen.run})

\* The new record inherits every cleanup obligation of the old one.
replacement(c) ==
  Reservation(maker[c].id, maker[c].seen.stale \cup {maker[c].seen.run})

\* Compare-and-replace under the key's lock.
reclaim(c) ==
  /\ maker[c].at = "reclaim"
  /\ IF runs[maker[c].seen.run].pub
     THEN At(c, "look") /\ UNCHANGED key
     ELSE IF key \in {NoKey, maker[c].seen}
     THEN /\ key' = replacement(c)
          /\ Set(c, [maker[c] EXCEPT !.at = "clean", !.seen = NoKey, !.rounds = 0,
                       !.keep = TRUE, !.stale = replacement(c).stale])
     ELSE /\ Set(c, [maker[c] EXCEPT !.at = "look", !.seen = key])
          /\ UNCHANGED key
  /\ UNCHANGED <<runs, child, chance>>

-----------------------------------------------------------------------------
(* Cleaning up after a dead creator, and after one's own failure.          *)

NoResources(r) == [r EXCEPT !.tree = FALSE, !.pane = "none"]

NoStaging(r) == [r EXCEPT !.stage = "none", !.shake = FALSE]

\* `workmux remove`, `git worktree remove` and `git branch -D` are best
\* effort: a failing one leaves the resources and nobody looks again.
Leftover(r) == [r EXCEPT !.lost = @ \/ r.tree]

\* The branch name is derived from the staged manifest: without it there is
\* nothing to remove.
rollback_reclaimed_materialization(r) ==
  IF r.stage = "none" THEN r ELSE NoResources(r)

\* One stale run: its resources first, then the staging directory that names
\* them.  A directory that cannot be removed leaves the reservation, and the
\* obligation in it, for the next attempt.
CleanOne(c) ==
  /\ maker[c].at = "clean" /\ maker[c].stale # {}
  /\ \E i \in maker[c].stale :
       \/ /\ runs' = [runs EXCEPT ![i] = NoStaging(rollback_reclaimed_materialization(@))]
          /\ Set(c, [maker[c] EXCEPT !.stale = @ \ {i}])
          /\ UNCHANGED chance
       \/ /\ Fails
          /\ runs' = [runs EXCEPT ![i] = NoStaging(Leftover(@))]
          /\ Set(c, [maker[c] EXCEPT !.stale = @ \ {i}])
       \/ /\ Fails
          /\ runs' = [runs EXCEPT ![i] = rollback_reclaimed_materialization(@)]
          /\ At(c, "refuse")
  /\ UNCHANGED <<key, child>>

\* finish_stale_cleanup; any failure before it keeps the reservation too.
CleanedAll(c) ==
  /\ maker[c].at = "clean" /\ maker[c].stale = {}
  /\ \/ /\ key.run = maker[c].id
        /\ key' = [key EXCEPT !.stale = {}]
        /\ Set(c, [maker[c] EXCEPT !.at = "stage", !.keep = FALSE])
        /\ UNCHANGED chance
     \/ /\ key = NoKey
        /\ Set(c, [maker[c] EXCEPT !.at = "stage", !.keep = FALSE])
        /\ UNCHANGED <<key, chance>>
     \/ /\ key # NoKey /\ key.run # maker[c].id
        /\ At(c, "refuse") /\ UNCHANGED <<key, chance>>
     \/ Fails /\ At(c, "refuse") /\ UNCHANGED key
  /\ UNCHANGED <<runs, child>>

Mine(c) == runs[maker[c].id]

Make(c, r) == runs' = [runs EXCEPT ![maker[c].id] = r]

\* Dropping the uncommitted launch removes what it made; then the private
\* session and the staging directory go; then the reservation guard releases
\* the key; the process, and with it the lease, ends last.
Undo(c) ==
  /\ maker[c].at = "undo"
  /\ At(c, "unstage")
  /\ \/ Make(c, NoResources(Mine(c))) /\ UNCHANGED chance
     \/ Fails /\ Make(c, Leftover(Mine(c)))
  /\ UNCHANGED <<key, child>>

Unstage(c) ==
  /\ maker[c].at = "unstage"
  /\ At(c, "drop")
  /\ Make(c, NoStaging(Mine(c)))
  /\ UNCHANGED <<key, child, chance>>

\* Only the reservation of this very run is removed.
release(c) ==
  IF ~maker[c].keep /\ key.run = maker[c].id THEN NoKey ELSE key

Drop(c) ==
  /\ maker[c].at = "drop"
  /\ key' = release(c)
  /\ Answer(c, "failed")
  /\ UNCHANGED <<runs, child, chance>>

-----------------------------------------------------------------------------
(* Staging, launching and publishing.                                      *)

\* The staging directory, the prompt and run.created.  The parent must exist.
Stage(c) ==
  /\ maker[c].at = "stage"
  /\ \/ /\ Make(c, [Mine(c) EXCEPT !.stage = "run"])
        /\ At(c, "launcher") /\ UNCHANGED chance
     \/ Fails /\ At(c, "drop") /\ UNCHANGED runs
     \/ Fails /\ At(c, "unstage") /\ UNCHANGED runs
  /\ UNCHANGED <<key, child>>

\* The attempt-bound launcher scripts; a stale handshake is removed first.
write_agent_launcher_with(c) ==
  /\ maker[c].at = "launcher"
  /\ \/ /\ Make(c, [Mine(c) EXCEPT !.shake = FALSE])
        /\ At(c, "launch") /\ UNCHANGED chance
     \/ Fails /\ At(c, "unstage") /\ UNCHANGED runs
  /\ UNCHANGED <<key, child>>

\* The request is refused, or there is no tmux session for it.
validate_request(c) ==
  /\ maker[c].at = "launch"
  /\ Fails /\ At(c, "unstage")
  /\ UNCHANGED <<key, runs, child>>

\* materialize: `workmux add`, with the rollback armed before it starts.
Launch(c) ==
  /\ maker[c].at = "launch"
  /\ Make(c, [Mine(c) EXCEPT !.add = TRUE])
  /\ At(c, "adding")
  /\ UNCHANGED <<key, child, chance>>

\* workmux makes the branch and the worktree, then the pane; it may stop
\* after any part of it.
AddTree(i) ==
  /\ runs[i].add /\ ~runs[i].tree
  /\ runs' = [runs EXCEPT ![i].tree = TRUE]
  /\ UNCHANGED <<key, maker, child, chance>>

AddPane(i) ==
  /\ runs[i].add /\ runs[i].tree /\ runs[i].pane = "none"
  /\ runs' = [runs EXCEPT ![i].pane = "boot"]
  /\ UNCHANGED <<key, maker, child, chance>>

AddEnds(i) ==
  /\ runs[i].add
  /\ runs[i].pane = "none" => Fails
  /\ runs[i].pane # "none" => UNCHANGED chance
  /\ runs' = [runs EXCEPT ![i].add = FALSE]
  /\ UNCHANGED <<key, maker, child>>

\* The launcher writes its handshake into the staging or published directory
\* of its run and starts the worker behind the shim; without the directory
\* it fails closed.
Handshake(i) ==
  /\ runs[i].pane = "boot"
  /\ LET r == runs[i] IN
     runs' = [runs EXCEPT ![i] =
       IF r.stage # "none" \/ r.pub THEN [r EXCEPT !.shake = ~r.pub, !.pane = "held"]
       ELSE [r EXCEPT !.pane = "none"]]
  /\ UNCHANGED <<key, maker, child, chance>>

\* Faulty variant: the shim has no deadline.
await_published_node_forever(i) ==
  /\ runs[i].pane = "held" /\ runs[i].pub
  /\ runs' = [runs EXCEPT ![i].pane = "free"]
  /\ UNCHANGED <<key, maker, child, chance>>

\* The shim polls for the published node and lets go of a worker whose run
\* does not appear within its wait (120 s).  A worker that dies before is not
\* recorded.
await_published_node(i) ==
  /\ runs[i].pane = "held"
  /\ runs' = [runs EXCEPT ![i].pane = IF runs[i].pub THEN "free" ELSE "none"]
  /\ IF runs[i].pub \/ ~LeaseHeld(i) THEN UNCHANGED chance ELSE Fails
  /\ UNCHANGED <<key, maker, child>>

verify_identity(r) == r.pane = "held"

\* `workmux add` returned; the handshake is awaited and its identity checked
\* until the launch is answered.
Launched(c) ==
  /\ maker[c].at = "adding" /\ ~Mine(c).add
  /\ \/ Mine(c).shake /\ verify_identity(Mine(c)) /\ At(c, "node") /\ UNCHANGED chance
     \/ Mine(c).pane = "none" /\ At(c, "undo") /\ UNCHANGED chance
     \/ Fails /\ At(c, "undo")
  /\ UNCHANGED <<key, runs, child>>

\* The identity is verified once more and node.created appended in staging.
NodeCreated(c) ==
  /\ maker[c].at = "node"
  /\ \/ /\ verify_identity(Mine(c))
        /\ Make(c, [Mine(c) EXCEPT !.stage = "node"])
        /\ At(c, "publish") /\ UNCHANGED chance
     \/ ~verify_identity(Mine(c)) /\ At(c, "undo") /\ UNCHANGED <<runs, chance>>
     \/ Fails /\ At(c, "undo") /\ UNCHANGED runs
  /\ UNCHANGED <<key, child>>

\* One rename makes the run visible; from here on the key stays reserved.
publish_staging_run(c) ==
  /\ maker[c].at = "publish"
  /\ \/ /\ Make(c, [Mine(c) EXCEPT !.stage = "none", !.shake = FALSE, !.pub = TRUE])
        /\ At(c, "tell") /\ UNCHANGED chance
     \/ Fails /\ At(c, "undo") /\ UNCHANGED runs
  /\ UNCHANGED <<key, child>>

\* Under the parent's lock: scan for the edge of this child, then append.
append_child_spawned_if_missing(r) ==
  IF child /\ r.edges = 0 THEN [r EXCEPT !.edges = 1] ELSE r

spawn_supervisor_or_fail(r) == [r EXCEPT !.sup = ~child]

\* The parent's edge, or the supervisor of a top-level run.  A failure here
\* is an error about a run that stays published.
Tell(c) ==
  /\ maker[c].at = "tell"
  /\ \/ /\ Make(c, spawn_supervisor_or_fail(append_child_spawned_if_missing(Mine(c))))
        /\ Answer(c, "created") /\ UNCHANGED chance
     \/ Fails /\ Answer(c, "failed") /\ UNCHANGED runs
  /\ UNCHANGED <<key, child>>

\* A replay repairs the parent's edge before it answers with the run.
Replay(c) ==
  /\ maker[c].at = "replay"
  /\ \/ /\ runs' = [runs EXCEPT ![maker[c].seen.run] = append_child_spawned_if_missing(@)]
        /\ Answer(c, "replayed") /\ UNCHANGED chance
     \/ Fails /\ At(c, "refuse") /\ UNCHANGED runs
  /\ UNCHANGED <<key, child>>

\* SIGKILL, at any point.  The client repeats its call.
Killed(c) ==
  /\ Working(c) /\ chance.kills > 0
  /\ chance' = [chance EXCEPT !.kills = @ - 1]
  /\ Answer(c, "failed")
  /\ UNCHANGED <<key, runs, child>>

Done ==
  /\ \A c \in Creators : ~Working(c) /\ maker[c].out \in {"created", "replayed", "conflict"}
  /\ UNCHANGED create_vars

-----------------------------------------------------------------------------
CreatorStep(c) ==
  \/ Start(c) \/ Lookup(c) \/ reserve(c) \/ Look(c) \/ Refused(c) \/ Wait(c)
  \/ reclaim(c) \/ CleanOne(c) \/ CleanedAll(c) \/ Undo(c) \/ Unstage(c)
  \/ Drop(c) \/ Stage(c) \/ write_agent_launcher_with(c) \/ validate_request(c)
  \/ Launch(c) \/ Launched(c) \/ NodeCreated(c)
  \/ publish_staging_run(c) \/ Tell(c) \/ Replay(c)

PaneStep(i) == Handshake(i) \/ await_published_node(i)

AddStep(i) == AddTree(i) \/ AddPane(i) \/ AddEnds(i)

CreateNext ==
  \/ \E c \in Creators : CreatorStep(c) \/ Killed(c)
  \/ \E i \in Ids : AddStep(i) \/ PaneStep(i)
  \/ Done

\* A running process takes its next step; the client that failed calls again.
CreateFairness ==
  /\ \A c \in Creators : WF_create_vars(CreatorStep(c))
  /\ \A i \in Ids : WF_create_vars(AddStep(i)) /\ WF_create_vars(PaneStep(i))

CreateSpec == CreateInit /\ [][CreateNext]_create_vars /\ CreateFairness

-----------------------------------------------------------------------------
Steps ==
  {"idle", "lookup", "reserve", "look", "refuse", "wait", "reclaim", "clean",
   "stage", "launcher", "launch", "adding", "node", "publish", "tell", "replay", "undo",
   "unstage", "drop"}

KeyRecord == [run : Ids \cup {0}, by : {"none", "lease", "legacy", "caller"},
              stale : SUBSET Ids]

\* The type of the state.  A creator looks at a changing reservation at most
\* MaxRounds times before it reports contention.
CreateTypeOK ==
  /\ key \in KeyRecord
  /\ runs \in [Ids -> [stage : {"none", "run", "node"}, add : BOOLEAN,
                       tree : BOOLEAN, pane : {"none", "boot", "held", "free"},
                       shake : BOOLEAN, pub : BOOLEAN, edges : 0..2,
                       sup : BOOLEAN, lost : BOOLEAN]]
  /\ maker \in [Creators ->
       [at : Steps, id : Ids \cup {0}, seen : KeyRecord, stale : SUBSET Ids,
        rounds : 0..MaxRounds, keep : BOOLEAN,
        out : {"none", "failed", "conflict", "created", "replayed"}]]
  /\ child \in BOOLEAN

\* However creators of one key interleave, die and reclaim, the key never
\* leads to two published runs (create.rs: "exactly one concurrent caller
\* wins and materializes").
OneRunPerKey == Cardinality({i \in Ids : runs[i].pub}) <= 1

\* A creation that answered success stands: the run is published and, for a
\* child, the parent's log has its edge exactly once, whether this creator,
\* the one it replayed or both wrote it.
AnswerIsWhole ==
  /\ \A i \in Ids : runs[i].edges <= 1
  /\ \A c \in Creators : maker[c].out \in {"created", "replayed"} =>
       \E i \in Ids : runs[i].pub /\ (child => runs[i].edges = 1)

\* Whatever a creation that came to nothing left behind is in somebody's
\* hands: a process is still working on it, or the key record names it and
\* its staging directory, from which the branch is found, is still there.
\* The exception is a removal that itself failed (`let _ =` in Rollback).
NothingForgotten ==
  \A i \in Ids :
    (runs[i].tree \/ runs[i].stage # "none") /\ ~runs[i].pub =>
      \/ LeaseHeld(i) \/ runs[i].lost
      \/ (i \in {key.run} \cup key.stale /\ runs[i].stage # "none")

\* Resources and staging of a run are only taken away by its own creator or
\* once its creator and everything that creator started are gone, and never
\* from a published run.
TakesOnlyDead ==
  \A i \in Ids :
    (runs[i].tree /\ ~runs'[i].tree) \/ (runs[i].stage # "none" /\ runs'[i].stage = "none" /\ ~runs'[i].pub)
      => /\ ~runs[i].pub /\ ~runs[i].add
         /\ \A c \in Creators : Working(c) /\ maker[c].id = i => maker[c].at \in {"undo", "unstage"}

\* A creator never removes the reservation of another run: a key record goes
\* away only in the hands of the creator it names.
ReleasesOwnKey ==
  key # NoKey /\ key' = NoKey =>
    \E c \in Creators : Working(c) /\ maker[c].id = key.run

\* Once a key leads to a published run it keeps leading to that run.
KeyStaysWithRun ==
  \A i \in Ids : runs[i].pub /\ key.run = i => key' = key

\* A client that repeats its keyed call gets its run published in the end,
\* unless the key belongs to a creator that cannot be verified.
Converges == key.by = "none" => <>(\E i \in Ids : runs[i].pub)

\* A worker is never held for ever: its run is published, its creation is
\* rolled back, or its shim gives up on a creator that was killed.
OrphanWorkerEnds ==
  []<>(\A i \in Ids : runs[i].pane # "held")

\* However many creators share a key, die and are replaced, the key leads to
\* one whole run and nothing started for it is forgotten.
CreatesOnce == CreateTypeOK /\ OneRunPerKey /\ AnswerIsWhole /\ NothingForgotten

\* A creator takes nothing from another that is alive, and nothing from a
\* published run: neither checkout, nor staging, nor key.
RespectsOthers == [][TakesOnlyDead /\ ReleasesOwnKey /\ KeyStaysWithRun]_create_vars

=============================================================================
