------------------------------ MODULE Resident ------------------------------
(***************************************************************************)
(* A named resident run between and during its rounds: the worker and its  *)
(* exit shim, `node round-report`, `run message` (resume), `run land`,     *)
(* `run merge`, `run cancel` and the supervisor's idle expiry, all acting  *)
(* on one worktree and serialized by the run's resident lock.              *)
(*                                                                         *)
(* Every launch of the worker is a process of its own; the node records    *)
(* one of them.  A launch is started before it is recorded (node.resumed), *)
(* so a messenger that dies in between leaves a worker nobody recorded.    *)
(* A client is one CLI process; it runs one verb at a time.                *)
(***************************************************************************)
EXTENDS Integers, FiniteSets

CONSTANTS
  Clients,    \* CLI processes that may act at the same time
  Launches,   \* 1..n, the launches of the worker in order
  Verbs,      \* what the clients are used for
  Fates       \* scenarios: kills, failures, lost shims, moves of the source

ASSUME ResidentAssumption ==
  /\ Clients \cap {"none", "supervisor"} = {}
  /\ Launches \subseteq Nat \ {0} /\ 1 \in Launches
  /\ Verbs \subseteq {"message", "land", "cancel", "merge"}
  /\ Fates \subseteq [calls : Nat, kill : Nat, fail : Nat, lose : Nat, move : Nat]

VARIABLES
  node,      \* the node projection
  wtree,     \* worktree and branch against the source branch
  proc,      \* the launches
  op,        \* the clients
  holder,    \* who holds resident.lock
  tick,      \* the supervisor's idle expiry
  lot,       \* what is left of the scenario
  orphan     \* a messenger died between the launch and its record

res_vars == <<node, wtree, proc, op, holder, tick, lot, orphan>>

Unlaunched == [a |-> 0, st |-> "none"]

FreshNode == [st |-> "live", attempt |-> 0, pid |-> 1, exit |-> "none",
              rounds |-> 0, open |-> FALSE, by |-> 0, dormant |-> FALSE,
              attention |-> FALSE, txn |-> "none", moved |-> FALSE, landed |-> 0]

Resting == [verb |-> "none", at |-> "idle", launch |-> 0, attempt |-> 0]

ResInit ==
  /\ node = FreshNode
  /\ wtree = [there |-> TRUE, dirty |-> FALSE, rebasing |-> FALSE,
              ahead |-> FALSE, behind |-> FALSE]
  /\ proc = [l \in Launches |-> IF l = 1 THEN [a |-> 0, st |-> "live"] ELSE Unlaunched]
  /\ op = [c \in Clients |-> Resting]
  /\ holder = "none"
  /\ tick = [at |-> "idle", round |-> 0]
  /\ lot \in Fates
  /\ orphan = FALSE

-----------------------------------------------------------------------------
Live == {l \in Launches : proc[l].st = "live"}

NextLaunch == {l \in Launches : /\ proc[l].st = "none"
                                /\ \A k \in Launches : k < l => proc[k].st # "none"}

Settled(n) == n.st # "live"

\* The open round was reported by the attempt the node records now.
Reported(n) == n.open /\ n.by = n.attempt

\* The agent itself has the recorded pid: it is gone as soon as it ends,
\* which may be before its shim has recorded the exit.
classify_worker ==
  IF proc[node.pid].st \in {"live", "stopping"} THEN "live"
  ELSE IF node.exit # "none" THEN "exited" ELSE "gone"

\* A told exit, or a round report whose worker is provably gone.
await_worker_exit ==
  /\ ~Settled(node)
  /\ \/ classify_worker = "exited"
     \/ classify_worker = "gone" /\ Reported(node)

Spend(what) == lot[what] > 0 /\ lot' = [lot EXCEPT ![what] = @ - 1]

Place(c, at) == op' = [op EXCEPT ![c].at = at]

\* A verb ends, with or without success; its locks go with it.
Return(c) ==
  /\ op' = [op EXCEPT ![c] = Resting]
  /\ holder' = IF holder = c THEN "none" ELSE holder

-----------------------------------------------------------------------------
(* The worker and its shim.                                                *)

\* The agent edits, commits, or resolves a rebase left in progress.  What
\* happens to the work of a settled run is the subject of Teardown.
Work(l) ==
  /\ l \in Live /\ wtree.there /\ ~Settled(node)
  /\ \/ wtree' = [wtree EXCEPT !.dirty = TRUE]
     \/ wtree' = [wtree EXCEPT !.dirty = FALSE, !.ahead = TRUE]
     \/ wtree' = [wtree EXCEPT !.rebasing = FALSE]
  /\ UNCHANGED <<node, proc, op, holder, tick, lot, orphan>>

\* node.round_reported: a second report of the attempt amends the round.
reduce_node_round_reported(n) ==
  IF Settled(n) \/ Reported(n) THEN n
  ELSE [n EXCEPT !.rounds = @ + 1, !.open = TRUE, !.by = n.attempt, !.attention = FALSE]

round_report(l) ==
  /\ l \in Live
  /\ ~Settled(node) /\ node.exit = "none" /\ ~Reported(node)
  /\ node' = reduce_node_round_reported(node)
  /\ UNCHANGED <<wtree, proc, op, holder, tick, lot, orphan>>

\* The agent ends.  The shim of a launch the node does not record yet keeps
\* nothing of it; otherwise it goes on to record the status.
AgentEnds(l) ==
  /\ l \in Live
  /\ \E status \in {"clean", "fail"} :
       proc' = [proc EXCEPT ![l].st = IF node.attempt < proc[l].a THEN "gone" ELSE status]
  /\ UNCHANGED <<node, wtree, op, holder, tick, lot, orphan>>

\* The shim and the agent are lost together (SIGKILL, host restart).
ShimLost(l) ==
  /\ proc[l].st \in {"live", "clean", "fail"}
  /\ Spend("lose")
  /\ proc' = [proc EXCEPT ![l].st = "gone"]
  /\ UNCHANGED <<node, wtree, op, holder, tick, orphan>>

\* worker.exited of another attempt, or a second one, changes nothing.
reduce_worker_exited(n, a, status) ==
  IF a # n.attempt \/ n.exit # "none" THEN n ELSE [n EXCEPT !.exit = status]

record_worker_exit(l) ==
  /\ proc[l].st \in {"clean", "fail"}
  /\ node' = reduce_worker_exited(node, proc[l].a, proc[l].st)
  /\ proc' = [proc EXCEPT ![l].st = "gone"]
  /\ UNCHANGED <<wtree, op, holder, tick, lot, orphan>>

\* A launch that is not recorded in time is terminated by its shim.
await_resumed(l) ==
  /\ proc[l].st = "live" /\ node.attempt < proc[l].a
  /\ proc' = [proc EXCEPT ![l].st = "stopping"]
  /\ UNCHANGED <<node, wtree, op, holder, tick, lot, orphan>>

AgentStops(l) ==
  /\ proc[l].st = "stopping"
  /\ proc' = [proc EXCEPT ![l].st = "gone"]
  /\ UNCHANGED <<node, wtree, op, holder, tick, lot, orphan>>

-----------------------------------------------------------------------------
(* The clients: await, the lock, then the verb.                            *)

StartVerb(c) ==
  /\ op[c].at = "idle" /\ ~Settled(node)
  /\ Spend("calls")
  /\ \E v \in Verbs :
       op' = [op EXCEPT ![c] = [Resting EXCEPT !.verb = v,
                !.at = IF v \in {"message", "land"} THEN "await" ELSE "lock"]]
  /\ UNCHANGED <<node, wtree, proc, holder, tick, orphan>>

\* `run message` between rounds and `run land` wait for the end of the
\* round before they ask for the lock; the others ask at once.
AwaitRound(c) ==
  /\ op[c].at = "await"
  /\ IF await_worker_exit THEN Place(c, "lock") /\ UNCHANGED holder ELSE Return(c)
  /\ UNCHANGED <<node, wtree, proc, tick, lot, orphan>>

\* resident_busy when another operation keeps the lock too long.
ResidentLock(c) ==
  /\ op[c].at = "lock"
  /\ IF holder = "none" THEN Place(c, "locked") /\ holder' = c ELSE Return(c)
  /\ UNCHANGED <<node, wtree, proc, tick, lot, orphan>>

\* The process is killed; the kernel drops its lock.
ClientKilled(c) ==
  /\ op[c].at # "idle"
  /\ Spend("kill")
  /\ Return(c)
  /\ orphan' = (orphan \/ op[c].at \in {"shake", "record"})
  /\ UNCHANGED <<node, wtree, proc, tick>>

-----------------------------------------------------------------------------
(* `run message`: resume the exited worker.                                *)

Locked(c, verb) == op[c].at = "locked" /\ op[c].verb = verb

\* Under the lock everything is read again.  A failing exit without a
\* report belongs to the supervisor.
MessageCheck(c) ==
  /\ Locked(c, "message")
  /\ IF await_worker_exit /\ (Reported(node) \/ node.exit # "fail")
     THEN /\ op' = [op EXCEPT ![c].at = "tree", ![c].attempt = node.attempt + 1]
          /\ UNCHANGED holder
     ELSE Return(c)
  /\ UNCHANGED <<node, wtree, proc, tick, lot, orphan>>

\* A worktree removed by idle expiry is made again from the kept branch.
recreate_worktree == [wtree EXCEPT !.there = TRUE]

\* A rebase in progress or uncommitted changes are left to the worker; so
\* is a rebase that stops on conflicts.
rebase_onto_source(t) ==
  IF t.rebasing \/ t.dirty \/ ~t.behind THEN {t}
  ELSE {[t EXCEPT !.behind = FALSE], [t EXCEPT !.rebasing = TRUE]}

MessagePrepare(c) ==
  /\ op[c].at = "tree"
  /\ \/ /\ wtree' \in rebase_onto_source(recreate_worktree)
        /\ Place(c, "launch")
        /\ UNCHANGED <<holder, lot>>
     \/ /\ Spend("fail") /\ Return(c)
        /\ UNCHANGED wtree
  /\ UNCHANGED <<node, proc, tick, orphan>>

\* The worker of the next attempt is started, in the recorded pane (whatever
\* still ran in it is killed) or in a window of its own.
materialize_resume(c) ==
  /\ op[c].at = "launch"
  /\ \/ \E l \in NextLaunch, reuse \in BOOLEAN :
          /\ proc' = [k \in Launches |->
               IF k = l THEN [a |-> op[c].attempt, st |-> "live"]
               ELSE IF reuse /\ proc[k].st = "live" THEN [proc[k] EXCEPT !.st = "gone"]
               ELSE proc[k]]
          /\ op' = [op EXCEPT ![c].at = "shake", ![c].launch = l]
          /\ UNCHANGED <<holder, lot>>
     \/ /\ Spend("fail") /\ Return(c)
        /\ UNCHANGED proc
     \/ /\ NextLaunch = {} /\ Return(c)
        /\ UNCHANGED <<proc, lot>>
  /\ UNCHANGED <<node, wtree, tick, orphan>>

Stop(l) == [proc EXCEPT ![l].st = IF @ = "live" THEN "stopping" ELSE @]

\* No handshake, or one that cannot be verified: what was started is stopped.
resume_after_launch(c) ==
  /\ op[c].at = "shake"
  /\ \/ /\ op[c].launch \in Live /\ Place(c, "record")
        /\ UNCHANGED <<proc, holder, lot>>
     \/ /\ IF op[c].launch \in Live THEN Spend("fail") ELSE UNCHANGED lot
        /\ proc' = Stop(op[c].launch) /\ Return(c)
  /\ UNCHANGED <<node, wtree, tick, orphan>>

\* node.resumed rewires the node to the new attempt, closes the round, ends
\* dormancy and forgets a pending landing.
reduce_node_resumed(n, l, attempt) ==
  IF Settled(n) \/ attempt <= n.attempt THEN n
  ELSE [n EXCEPT !.attempt = attempt, !.pid = l, !.exit = "none", !.open = FALSE,
                 !.dormant = FALSE, !.attention = FALSE, !.txn = "none", !.moved = FALSE]

\* The node may have settled, or moved on, while the worker started; then,
\* or when the append fails, the unrecorded worker is stopped.
record_resumed(c) ==
  /\ op[c].at = "record"
  /\ IF ~Settled(node) /\ node.attempt + 1 = op[c].attempt
     THEN \/ /\ node' = reduce_node_resumed(node, op[c].launch, op[c].attempt)
             /\ UNCHANGED <<proc, lot>>
          \/ Spend("fail") /\ proc' = Stop(op[c].launch) /\ UNCHANGED node
     ELSE proc' = Stop(op[c].launch) /\ UNCHANGED <<node, lot>>
  /\ Return(c)
  /\ UNCHANGED <<wtree, tick, orphan>>

-----------------------------------------------------------------------------
(* `run land`: the recorded transaction, the rebase, the compare-and-swap  *)
(* of the source branch, and the record of the landing.                    *)

Landing == {c \in Clients : op[c].verb = "land" /\ op[c].at \in {"rebase", "abort", "move", "note"}}

\* node.round_landed clears the transaction and an expiry attention.
reduce_node_round_landed(n) ==
  IF Settled(n) THEN n
  ELSE [n EXCEPT !.txn = "none", !.moved = FALSE, !.landed = n.rounds, !.attention = FALSE]

\* A transaction whose driver is gone: completed when its commits are on
\* the source branch, else cleared.
recover_node(n) ==
  IF n.txn = "none" \/ n.txn \in Landing THEN n
  ELSE IF n.moved THEN reduce_node_round_landed(n)
  ELSE [n EXCEPT !.txn = "none"]

Landable == ~node.dormant /\ wtree.there /\ ~wtree.rebasing /\ ~wtree.dirty /\ wtree.ahead

\* The worker must still be between rounds under the lock; nothing to land
\* and an unclean worktree both end the verb before anything is changed.
LandStart(c) ==
  /\ Locked(c, "land")
  /\ IF await_worker_exit /\ Landable
     THEN \/ /\ node' = [recover_node(node) EXCEPT !.txn = c, !.moved = FALSE]
             /\ Place(c, "rebase")
             /\ UNCHANGED <<holder, lot>>
          \/ Spend("fail") /\ Return(c) /\ UNCHANGED node
     ELSE Return(c) /\ UNCHANGED <<node, lot>>
  /\ UNCHANGED <<wtree, proc, tick, orphan>>

LandRebase(c) ==
  /\ op[c].verb = "land" /\ op[c].at = "rebase"
  /\ \/ wtree' = [wtree EXCEPT !.behind = FALSE] /\ Place(c, "move")
     \/ wtree.behind /\ wtree' = [wtree EXCEPT !.rebasing = TRUE] /\ Place(c, "abort")
  /\ UNCHANGED <<node, proc, holder, tick, lot, orphan>>

Aborted(c, n) == IF n.txn = c THEN [n EXCEPT !.txn = "none"] ELSE n

\* Conflicts: the transaction is aborted and the rebase undone.
LandAbort(c) ==
  /\ op[c].at = "abort"
  /\ node' = Aborted(c, node)
  /\ wtree' = [wtree EXCEPT !.rebasing = FALSE]
  /\ Return(c)
  /\ UNCHANGED <<proc, tick, lot, orphan>>

\* The source branch moves only from the tip the rebase was made on.
LandMove(c) ==
  /\ op[c].at = "move"
  /\ IF wtree.behind
     THEN node' = Aborted(c, node) /\ Return(c) /\ UNCHANGED wtree
     ELSE /\ wtree' = [wtree EXCEPT !.ahead = FALSE]
          /\ node' = IF node.txn = c THEN [node EXCEPT !.moved = TRUE] ELSE node
          /\ Place(c, "note") /\ UNCHANGED holder
  /\ UNCHANGED <<proc, tick, lot, orphan>>

LandNote(c) ==
  /\ op[c].at = "note"
  /\ \/ node' = reduce_node_round_landed(node) /\ UNCHANGED lot
     \/ Spend("fail") /\ UNCHANGED node
  /\ Return(c)
  /\ UNCHANGED <<wtree, proc, tick, orphan>>

-----------------------------------------------------------------------------
(* `run merge` and `run cancel` settle the run under the same lock.  The   *)
(* steps and crash points of a merge are the subject of Merge.             *)

MergeRun(c) ==
  /\ Locked(c, "merge")
  /\ \/ /\ ~Settled(node) /\ wtree.there /\ ~wtree.dirty /\ ~wtree.rebasing
        /\ node' = [recover_node(node) EXCEPT !.st = "done"]
        /\ wtree' = [wtree EXCEPT !.ahead = FALSE, !.behind = FALSE]
     \/ UNCHANGED <<node, wtree>>
  /\ Return(c)
  /\ UNCHANGED <<proc, tick, lot, orphan>>

CancelRun(c) ==
  /\ Locked(c, "cancel")
  /\ node' = IF Settled(node) THEN node ELSE [node EXCEPT !.st = "cancelled"]
  /\ Return(c)
  /\ UNCHANGED <<wtree, proc, tick, lot, orphan>>

-----------------------------------------------------------------------------
(* The supervisor.                                                         *)

\* A failing exit, or an unrecorded death, ends the run unless the attempt
\* reported its round first.
classify_live_node_with_round ==
  /\ ~Settled(node) /\ ~Reported(node)
  /\ node.exit = "fail" \/ (node.exit = "none" /\ proc[node.pid].st = "gone")
  /\ node' = [node EXCEPT !.st = "failed"]
  /\ UNCHANGED <<wtree, proc, op, holder, tick, lot, orphan>>

\* Every tick resolves a landing whose driver is gone; no resident lock.
RecoverLanding ==
  /\ ~Settled(node) /\ recover_node(node) # node
  /\ node' = recover_node(node)
  /\ UNCHANGED <<wtree, proc, op, holder, tick, lot, orphan>>

idle_deadline(n) ==
  ~Settled(n) /\ n.open /\ n.exit # "none" /\ ~n.dormant /\ ~n.attention

\* The deadline of the open round has passed.
TickLook ==
  /\ tick.at = "idle" /\ idle_deadline(node)
  /\ tick' = [at |-> "lock", round |-> node.rounds]
  /\ UNCHANGED <<node, wtree, proc, op, holder, lot, orphan>>

TickLock ==
  /\ tick.at = "lock"
  /\ IF holder = "none" THEN tick' = [tick EXCEPT !.at = "check"] /\ holder' = "supervisor"
     ELSE tick' = [at |-> "idle", round |-> 0] /\ UNCHANGED holder
  /\ UNCHANGED <<node, wtree, proc, op, lot, orphan>>

TickEnds == tick' = [at |-> "idle", round |-> 0] /\ holder' = "none"

\* Read again under the lock: the same round, still open and unanswered.
still_due == idle_deadline(node) /\ node.rounds = tick.round

TickCheck ==
  /\ tick.at = "check"
  /\ IF still_due THEN tick' = [tick EXCEPT !.at = "guard"] /\ UNCHANGED holder ELSE TickEnds
  /\ UNCHANGED <<node, wtree, proc, op, lot, orphan>>

\* Faulty variant: commits that are not landed do not count.
TickGuard_ahead ==
  /\ tick.at = "guard"
  /\ IF ~wtree.there \/ wtree.rebasing \/ wtree.dirty
     THEN tick' = [tick EXCEPT !.at = "preserve"] ELSE tick' = [tick EXCEPT !.at = "remove"]
  /\ UNCHANGED <<node, wtree, proc, op, holder, lot, orphan>>

\* Anything unlanded, uncommitted or unverifiable is preserved.
TickGuard ==
  /\ tick.at = "guard"
  /\ \/ /\ UNCHANGED lot
        /\ IF ~wtree.there \/ wtree.rebasing \/ wtree.ahead \/ wtree.dirty
           THEN tick' = [tick EXCEPT !.at = "preserve"]
           ELSE tick' = [tick EXCEPT !.at = "remove"]
     \/ Spend("fail") /\ tick' = [tick EXCEPT !.at = "preserve"]
  /\ UNCHANGED <<node, wtree, proc, op, holder, orphan>>

\* `git worktree remove` without force; the branch stays.
TickRemove ==
  /\ tick.at = "remove"
  /\ IF wtree.dirty THEN tick' = [tick EXCEPT !.at = "preserve"] /\ UNCHANGED wtree
     ELSE tick' = [tick EXCEPT !.at = "dormant"] /\ wtree' = [wtree EXCEPT !.there = FALSE]
  /\ UNCHANGED <<node, proc, op, holder, lot, orphan>>

reduce_node_resident_dormant(n) ==
  IF Settled(n) \/ ~n.open \/ n.dormant THEN n
  ELSE [n EXCEPT !.dormant = TRUE, !.attention = FALSE]

reduce_node_resident_attention(n) ==
  IF Settled(n) \/ ~n.open THEN n ELSE [n EXCEPT !.attention = TRUE]

TickRecord ==
  /\ tick.at \in {"dormant", "preserve"}
  /\ \/ /\ node' = IF tick.at = "dormant" THEN reduce_node_resident_dormant(node)
                   ELSE reduce_node_resident_attention(node)
        /\ UNCHANGED lot
     \/ Spend("fail") /\ UNCHANGED node
  /\ TickEnds
  /\ UNCHANGED <<wtree, proc, op, orphan>>

\* The supervisor dies and another takes over.
TickKilled ==
  /\ tick.at # "idle"
  /\ Spend("kill")
  /\ tick' = [at |-> "idle", round |-> 0]
  /\ holder' = IF holder = "supervisor" THEN "none" ELSE holder
  /\ UNCHANGED <<node, wtree, proc, op, orphan>>

\* Somebody else's work lands on the source branch.
SourceMoves ==
  /\ ~Settled(node) /\ Spend("move")
  /\ wtree' = [wtree EXCEPT !.behind = TRUE]
  /\ UNCHANGED <<node, proc, op, holder, tick, orphan>>

-----------------------------------------------------------------------------
WorkerStep(l) ==
  \/ Work(l) \/ round_report(l) \/ AgentEnds(l) \/ ShimLost(l)
  \/ record_worker_exit(l) \/ await_resumed(l) \/ AgentStops(l)

ClientStep(c) ==
  \/ AwaitRound(c) \/ ResidentLock(c)
  \/ MessageCheck(c) \/ MessagePrepare(c) \/ materialize_resume(c)
  \/ resume_after_launch(c) \/ record_resumed(c)
  \/ LandStart(c) \/ LandRebase(c) \/ LandAbort(c) \/ LandMove(c) \/ LandNote(c)
  \/ MergeRun(c) \/ CancelRun(c)

TickStep == TickLook \/ TickLock \/ TickCheck \/ TickGuard \/ TickRemove \/ TickRecord

Idling ==
  /\ Settled(node) \/ lot.calls = 0
  /\ Live = {} /\ tick.at = "idle" /\ \A c \in Clients : op[c].at = "idle"
  /\ UNCHANGED res_vars

ResNext ==
  \/ \E l \in Launches : WorkerStep(l)
  \/ \E c \in Clients : StartVerb(c) \/ ClientStep(c) \/ ClientKilled(c)
  \/ TickStep \/ TickKilled \/ classify_live_node_with_round \/ RecoverLanding
  \/ SourceMoves \/ Idling

\* A process that runs gets on; the supervisor ticks; a shim's wait ends.
ResFairness ==
  /\ \A c \in Clients : WF_res_vars(ClientStep(c))
  /\ WF_res_vars(TickStep)
  /\ \A l \in Launches : WF_res_vars(await_resumed(l))

ResSpec == ResInit /\ [][ResNext]_res_vars /\ ResFairness

-----------------------------------------------------------------------------
\* The shapes of the state, and the lock: whoever acts on the worktree of a
\* resident holds resident.lock (run/resident.rs, ResidentLock).
ResTypeOK ==
  /\ node.st \in {"live", "done", "failed", "cancelled"}
  /\ node.exit \in {"none", "clean", "fail"}
  /\ node.pid \in Launches /\ node.rounds \in Nat /\ node.attempt \in Nat
  /\ \A l \in Launches : proc[l].st \in {"none", "live", "stopping", "clean", "fail", "gone"}
  /\ \A c \in Clients : op[c].at \notin {"idle", "await", "lock"} => holder = c
  /\ tick.at \notin {"idle", "lock"} => holder = "supervisor"

Touching ==
  \/ \E c \in Clients : op[c].at \in {"tree", "launch", "rebase", "abort", "move"}
  \/ tick.at \in {"guard", "remove"}

\* Nobody rebases, lands from or removes the worktree, or starts another
\* worker, while a worker runs in it (run/land.rs: "so nobody writes to the
\* worktree during the rebase"), as long as no messenger died between
\* starting a worker and recording it.
GitAlone == Touching /\ Live # {} => orphan

\* The exit the node records is that of the process it records: a late shim
\* of an earlier attempt cannot end the round of the next one
\* (reduce_worker_exited, run-worker's wait for its own attempt).
ExitIsOwn == node.exit # "none" /\ proc[node.pid].st = "live" => orphan

\* A dormant resident waits in an open round with a told exit, and no worker
\* runs unless a message is about to record it (reduce_node_resumed).
DormantIsIdle ==
  node.dormant /\ ~Settled(node) =>
    /\ node.open /\ node.exit # "none"
    /\ Live = {} \/ orphan \/ \E c \in Clients : op[c].at \in {"shake", "record"}

\* Idle expiry takes a worktree only when nothing in it could be lost
\* (remove_landed_resident_worktree), whatever else ran since its checks.
ExpiryLosesNothing ==
  wtree.there /\ ~wtree'.there =>
    \/ orphan
    \/ ~wtree.dirty /\ ~wtree.rebasing /\ ~wtree.ahead

\* No worker is started after the run settled (run/cancel.rs takes the
\* resident lock "so no worker is started after the run settles").
NoStartAfterSettle ==
  \A l \in Launches : proc[l].st = "none" /\ proc'[l].st # "none"
    => ~Settled(node)

\* Every verb returns: the waits for an exit, for the lock and for a
\* handshake are all bounded, so again and again no client is in a call.
VerbsReturn == []<>(\A c \in Clients : op[c].at = "idle")

\* An open round whose worker was told to have exited does not stay idle for
\* ever: it becomes dormant, raises attention, is resumed or is settled.
IdleIsSettled ==
  node.open /\ node.exit # "none" /\ ~Settled(node)
    ~> \/ node.dormant \/ node.attention \/ ~node.open \/ Settled(node)

\* A worker that nobody recorded is stopped by its own shim.
StrandedEnds ==
  []<>(\A l \in Launches : proc[l].st = "live" => node.attempt >= proc[l].a)

\* The doc of `run land` without the exception: "A land runs only while no
\* worker process exists".
LandAlone ==
  \A c \in Clients : op[c].at \in {"rebase", "abort", "move"} => Live = {}

\* Rounds, messages, landings and the idle expiry take turns in the one
\* worktree of a resident, and none of them loses work or acts under a running
\* worker.
ResidentTakesTurns ==
  [][ /\ ResTypeOK' /\ GitAlone' /\ ExitIsOwn' /\ DormantIsIdle'
      /\ ExpiryLosesNothing /\ NoStartAfterSettle ]_res_vars

=============================================================================
