-------------------------------- MODULE Merge -------------------------------
(***************************************************************************)
(* `run merge` and `run land`: integrating a worker's branch into its      *)
(* source branch as a transaction over two stores that share no lock, the  *)
(* run directory and the Git repository, and its recovery by whoever finds *)
(* the transaction after its driver died.                                  *)
(*                                                                         *)
(* A commit is the sequence of patches that leads to it, so that a branch  *)
(* tip, an object id and a history are one thing: a patch keeps its        *)
(* identity across a rebase while the object id changes.  The worker's     *)
(* patches are 1..MaxCommits; larger numbers are commits of others.        *)
(*                                                                         *)
(* Processes are the drivers and one supervisor.  proc[p].pc is the next   *)
(* step of p:                                                              *)
(*   probe, classify, resolve      recover_node (drivers and supervisor)   *)
(*   read, start                   record_merge_start                      *)
(*   lock, rebase, prepare, ff,    run_git_merge; release also drops the   *)
(*   release                       lock directory                          *)
(*   report | abort                the terminal append | abort_merge_start *)
(*   watch, rollup                 the rest of a supervisor's tick         *)
(* No critical section of the run lock spans a Git command, so every step  *)
(* of a process interleaves with every step of the others.                 *)
(***************************************************************************)
EXTENDS RunStore

CONSTANTS Created,             \* payloads of the run's first event,
          RootData,            \* and the payload of its second
          Drivers,             \* slots for `run merge` / `run land` processes
          Faults,              \* what else may happen, see Fault
          Committed,           \* commits of the worker before the first merge
          MaxOps, MaxCommits, MaxForeign, MaxCrashes

Fault == {"cancel", "failing exit", "lost worker", "orphan git"}

ASSUME MergeBounds ==
    /\ Faults \subseteq Fault
    /\ {MaxOps, MaxCommits, MaxForeign, MaxCrashes} \subseteq Nat
    /\ Committed \in 0..MaxCommits

VARIABLES store,    \* the run directory
          git,      \* the tips of the source and the worker's branch
          lock,     \* holder of worktree-merge.lock, or Nobody
          fence,    \* holder of resident.lock, or Nobody
          txns,     \* the OIDs each transaction recorded
          proc,     \* program counter and locals of every process
          worker,   \* the worker process
          orphan,   \* a git child that outlived its driver, or 0
          landed,   \* transactions whose driver moved the source
          crashes

vars == <<store, git, lock, fence, txns, proc, worker, orphan, landed,
          crashes>>

Nobody == "nobody"
Sup == "supervisor"
Procs == Drivers \cup {Sup}

NoOids == [expected |-> <<>>, worker |-> <<>>, base |-> <<>>, tip |-> <<>>,
           reporter |-> "none"]
NoProc == [pc |-> "idle", landing |-> FALSE, op |-> 0, probed |-> 0,
           verdict |-> "none", oids |-> NoOids]

Init ==
    /\ store \in {published(c, RootData) : c \in Created}
    /\ git = [source |-> <<>>, worker |-> [k \in 1..Committed |-> k]]
    /\ lock = Nobody
    /\ fence = Nobody
    /\ txns = <<>>
    /\ proc = [p \in Procs |->
                 IF p = Sup THEN [NoProc EXCEPT !.pc = "probe"] ELSE NoProc]
    /\ worker = "running"
    /\ orphan = 0
    /\ landed = {}
    /\ crashes = 0

-----------------------------------------------------------------------------
(* Git *)
rebased(branch, onto) ==
    onto \o SelectSeq(branch, LAMBDA x : x \notin Range(onto))

(* `git cherry rev tip base`: the positions of tip's own commits that are  *)
(* in the history of neither rev nor base.                                 *)
cherry(rev, tip, base) ==
    {k \in DOMAIN tip : /\ ~IsPrefix(SubSeq(tip, 1, k), rev)
                        /\ ~IsPrefix(SubSeq(tip, 1, k), base)}

(* git_verify_landed: patch equivalence, then ancestry. *)
worker_landed(rev, tip, base) ==
    LET own == cherry(rev, tip, base)
    IN  IF own # {} /\ \A k \in own : tip[k] \in Range(rev) THEN "landed"
        ELSE IF IsPrefix(tip, rev) /\ ~IsPrefix(tip, base) THEN "landed"
        ELSE IF own # {} THEN "not landed"
        ELSE "unverifiable"

(* Faulty variant: the source moved, so the merge must have landed. *)
classify_moved(op) ==
    IF git.source = txns[op].expected THEN "reject" ELSE "complete"

(* Faulty variant: ancestry alone, which a rebase defeats. *)
classify_by_ancestry(op) ==
    IF IsPrefix(txns[op].worker, git.source) THEN "complete" ELSE "reject"

classify(op) ==
    LET t == txns[op]
        now == worker_landed(git.source, t.worker, t.base)
        before == worker_landed(t.expected, t.worker, t.base)
    IN  IF git.source = t.expected \/ now = "not landed" THEN "reject"
        ELSE IF now = "unverifiable" \/ before = "unverifiable"
        THEN "cannot verify"
        ELSE IF before = "landed" THEN "reject"
        ELSE "complete"

-----------------------------------------------------------------------------
(* The projections as a process reads them, without replaying the tail. *)
node == store.view.nodes[Root]
base_of(n) == IF n.base_sha = 0 THEN <<>> ELSE txns[n.base_sha].tip

(* Faulty variant: a recorded driver is taken to be alive. *)
driver_is_alive_assumed(op) == op \in DOMAIN txns

driver_is_alive(op) == \E d \in Drivers : proc[d].op = op

MergedReport(op) == [NoReport EXCEPT !.success = "true", !.via = TRUE,
                                     !.origin = "run-merge", !.op_id = op]
FailedReport == [NoReport EXCEPT !.success = "false",
                                 !.origin = "supervisor"]
CancelReport == [NoReport EXCEPT !.success = "false", !.cancelled = TRUE]

started(op, landing) ==
    next_event(store, "merge.started", Root, NoKey,
               [NoTxn EXCEPT !.op_id = op, !.landing = landing,
                             !.worker_branch = 1, !.source_branch = 9])
aborted(op) ==
    next_event(store, "merge.aborted", Root, NumKey("merge-aborted", op),
               [op_id |-> op])
completed(op, landing) ==
    IF landing
    THEN next_event(store, "node.round_landed", Root,
                    NumKey("round-landed", op),
                    [op_id |-> op, integrated |-> op])
    ELSE next_event(store, "node.report", Root,
                    NodeKey("explicit-merge", Root), MergedReport(op))
prepared == next_event(store, "audit", Root, NoKey, [note |-> 0])

prior_of(ev) == prior_with_key(store, ev.kind, ev.key)

-----------------------------------------------------------------------------
(* Control *)
Goto(p, pc) == proc' = [proc EXCEPT ![p].pc = pc]
End(p) == proc' = [proc EXCEPT ![p] = NoProc]
FreeFence(p) == fence' = IF fence = p THEN Nobody ELSE fence

(* recover_node lets a driver go on to a fresh transaction, or turns it    *)
(* away; the supervisor goes on with its tick either way.                  *)
Proceed(p) == Goto(p, IF p = Sup THEN "watch" ELSE "read") /\ UNCHANGED fence
Refuse(p) ==
    IF p = Sup THEN Proceed(p) ELSE End(p) /\ FreeFence(p)
(* A prior merge turned out to be complete: a `run merge` is done. *)
Settle(p) ==
    IF p = Sup \/ proc[p].landing THEN Proceed(p) ELSE Refuse(p)

(* The append of ev by p: it succeeds and p goes on as next, or p dies     *)
(* with the event durable and unfolded.                                    *)
AppendBy(p, ev, next) ==
    \/ /\ store' = appended(store, ev)
       /\ next
       /\ UNCHANGED crashes
    \/ /\ crashes < MaxCrashes
       /\ crashes' = crashes + 1
       /\ store' = stranded(store, ev)
       /\ proc' = [proc EXCEPT ![p] = IF p = Sup
                                      THEN [NoProc EXCEPT !.pc = "probe"]
                                      ELSE NoProc]
       /\ FreeFence(p)

(* A keyed append: a prior event under the key ends it after the replay. *)
KeyedAppendBy(p, ev, next, otherwise) ==
    IF prior_of(ev) = {} THEN AppendBy(p, ev, next)
    ELSE store' = healed(store) /\ otherwise /\ UNCHANGED crashes

-----------------------------------------------------------------------------
(* Entry of `run merge` and `run land`; a resident run's are serialised by *)
(* its resident lock.                                                      *)
is_resident == store.view.manifest.resident

Enter(d, landing) ==
    /\ is_resident => fence = Nobody
    /\ fence' = IF is_resident THEN d ELSE fence
    /\ proc' = [proc EXCEPT ![d] =
                  [NoProc EXCEPT !.pc = "probe", !.landing = landing,
                                 !.oids.base = base_of(node)]]
    /\ UNCHANGED <<store, git, lock, txns, worker, orphan, landed, crashes>>

merge(d) ==
    /\ proc[d].pc = "idle" /\ Len(txns) < MaxOps
    /\ run_status(store) # "cancelled"
    /\ Enter(d, FALSE)

(* await_worker_exit, and commits to land *)
land(d) ==
    /\ proc[d].pc = "idle" /\ Len(txns) < MaxOps
    /\ is_resident
    /\ ~is_terminal(run_status(store)) /\ ~is_terminal(node.status)
    /\ node.worker_exit # "none"
    /\ ~IsPrefix(git.worker, git.source)
    /\ Enter(d, TRUE)

-----------------------------------------------------------------------------
(* recover_node: the projections are read under the shared lock, Git is    *)
(* asked outside any lock, and the verdict is applied under the exclusive  *)
(* lock if the transaction is still the one that was classified.           *)
Probe(p) ==
    /\ proc[p].pc = "probe"
    /\ LET t == node.pending_merge
       IN  IF t = NoTxn \/ is_terminal(node.status) THEN Proceed(p)
           ELSE IF driver_is_alive(t.op_id) THEN Refuse(p)
           ELSE /\ proc' = [proc EXCEPT ![p].pc = "classify",
                                        ![p].probed = t.op_id]
                /\ UNCHANGED fence
    /\ UNCHANGED <<store, git, lock, txns, worker, orphan, landed, crashes>>

Classify(p, verdict) ==
    /\ proc[p].pc = "classify"
    /\ IF verdict = "cannot verify" THEN Refuse(p)
       ELSE /\ proc' = [proc EXCEPT ![p].pc = "resolve",
                                    ![p].verdict = verdict]
            /\ UNCHANGED fence
    /\ UNCHANGED <<store, git, lock, txns, worker, orphan, landed, crashes>>

(* A Git command that fails leaves the transaction undecided. *)
CannotVerify(p) == Classify(p, "cannot verify")
Decide(p) == proc[p].probed # 0 /\ Classify(p, classify(proc[p].probed))

(* Recovery has no prepared tip for a landing, and takes the source's tip. *)
Reported(op, landing) ==
    txns' = [txns EXCEPT ![op].reporter = "recovery",
                         ![op].tip = IF landing THEN git.source ELSE @]

(* The terminal append under the completion key; a different payload under *)
(* the key is a conflict, which leaves the node to whoever wrote it.       *)
CompleteBy(p, op) ==
    LET t == node.pending_merge
        ev == completed(op, t.landing)
    IN  IF prior_of(ev) = {}
        THEN /\ Reported(op, t.landing)
             /\ AppendBy(p, ev, Settle(p))
        ELSE /\ store' = healed(store)
             /\ IF /\ \E prior \in prior_of(ev) : prior.data = ev.data
                   /\ txns[op].reporter = "recovery"
                THEN Settle(p) ELSE Proceed(p)
             /\ UNCHANGED <<txns, crashes>>

Resolve(p) ==
    /\ proc[p].pc = "resolve"
    /\ LET op == proc[p].probed
       IN  IF node.pending_merge.op_id # op
           THEN Proceed(p) /\ UNCHANGED <<store, txns, crashes>>
           ELSE IF is_terminal(node.status) \/ proc[p].verdict = "reject"
           THEN /\ KeyedAppendBy(p, aborted(op), Proceed(p), Proceed(p))
                /\ UNCHANGED txns
           ELSE CompleteBy(p, op)
    /\ UNCHANGED <<git, lock, worker, orphan, landed>>

-----------------------------------------------------------------------------
(* record_merge_start *)
ReadOids(d) ==
    /\ proc[d].pc = "read"
    /\ proc' = [proc EXCEPT ![d].pc = "start",
                            ![d].oids.expected = git.source,
                            ![d].oids.worker = git.worker]
    /\ UNCHANGED <<store, git, lock, fence, txns, worker, orphan, landed,
                   crashes>>

record_merge_start(d) ==
    LET op == Len(txns) + 1
    IN  /\ proc[d].pc = "start" /\ op <= MaxOps
        /\ txns' = Append(txns, proc[d].oids)
        /\ AppendBy(d, started(op, proc[d].landing),
                    /\ proc' = [proc EXCEPT ![d].pc = "lock", ![d].op = op]
                    /\ UNCHANGED fence)
        /\ UNCHANGED <<git, lock, worker, orphan, landed>>

-----------------------------------------------------------------------------
(* run_git_merge.  A failure of any kind (a dirty tree, a lock timeout, a  *)
(* source that moved, a conflict, a refused fast-forward) drops the lock   *)
(* and leads to abort_merge_start.                                         *)
GiveUp(d) ==
    /\ Goto(d, "abort")
    /\ lock' = IF lock = d THEN Nobody ELSE lock

GitFails(d) ==
    /\ proc[d].pc \in {"lock", "rebase", "prepare", "ff"}
    /\ GiveUp(d)
    /\ UNCHANGED <<store, git, fence, txns, worker, orphan, landed, crashes>>

AcquireLock(d) ==
    /\ proc[d].pc = "lock"
    /\ lock = Nobody
    /\ lock' = d
    /\ Goto(d, "rebase")
    /\ UNCHANGED <<store, git, fence, txns, worker, orphan, landed, crashes>>

Rebase(d) ==
    /\ proc[d].pc = "rebase"
    /\ IF git.source # proc[d].oids.expected
       THEN GiveUp(d) /\ UNCHANGED git
       ELSE /\ git' = [git EXCEPT !.worker = rebased(@, git.source)]
            /\ Goto(d, "prepare")
            /\ UNCHANGED lock
    /\ UNCHANGED <<store, fence, txns, worker, orphan, landed, crashes>>

(* The prepared tip is durable before the ref moves; a landing keeps it in *)
(* memory.                                                                 *)
Prepare(d) ==
    /\ proc[d].pc = "prepare"
    /\ IF git.source # proc[d].oids.expected
       THEN GiveUp(d) /\ UNCHANGED <<store, fence, txns, crashes>>
       ELSE /\ txns' = [txns EXCEPT ![proc[d].op].tip = git.worker]
            /\ IF proc[d].landing
               THEN Goto(d, "ff") /\ UNCHANGED <<store, fence, crashes>>
               ELSE AppendBy(d, prepared, Goto(d, "ff") /\ UNCHANGED fence)
            /\ UNCHANGED lock
    /\ UNCHANGED <<git, worker, orphan, landed>>

(* `git merge --ff-only` of the worker's branch as it is now *)
ff_possible == IsPrefix(git.source, git.worker)
MoveRef(op) ==
    /\ git' = [git EXCEPT !.source = git.worker]
    /\ landed' = IF git.source # git.worker THEN landed \cup {op} ELSE landed

(* Faulty variant: the target is reset to the worker's branch. *)
FastForward_forced(d) ==
    /\ proc[d].pc = "ff"
    /\ MoveRef(proc[d].op)
    /\ Goto(d, "release")
    /\ UNCHANGED <<store, fence, lock, txns, worker, orphan, crashes>>

FastForward(d) ==
    /\ proc[d].pc = "ff"
    /\ IF ff_possible
       THEN MoveRef(proc[d].op) /\ Goto(d, "release") /\ UNCHANGED lock
       ELSE IF IsPrefix(git.worker, git.source)
       THEN Goto(d, "release") /\ UNCHANGED <<git, lock, landed>>
       ELSE GiveUp(d) /\ UNCHANGED <<git, landed>>
    /\ UNCHANGED <<store, fence, txns, worker, orphan, crashes>>

Release(d) ==
    /\ proc[d].pc = "release"
    /\ lock' = Nobody
    /\ Goto(d, "report")
    /\ UNCHANGED <<store, git, fence, txns, worker, orphan, landed, crashes>>

(* The terminal report of a merge, the landing fact of a land. *)
SubmitReport(d) ==
    LET op == proc[d].op
        done == End(d) /\ FreeFence(d)
    IN  /\ proc[d].pc = "report"
        /\ KeyedAppendBy(d, completed(op, proc[d].landing), done, done)
        /\ txns' = IF prior_of(completed(op, proc[d].landing)) = {}
                   THEN [txns EXCEPT ![op].reporter = "driver"] ELSE txns
        /\ UNCHANGED <<git, lock, worker, orphan, landed>>

abort_merge_start(d) ==
    LET done == End(d) /\ FreeFence(d)
    IN  /\ proc[d].pc = "abort"
        /\ KeyedAppendBy(d, aborted(proc[d].op), done, done)
        /\ UNCHANGED <<git, lock, txns, worker, orphan, landed>>

-----------------------------------------------------------------------------
(* The rest of the supervisor's tick. *)
told_failure ==
    ~is_terminal(node.status) /\ node.worker_exit = "failing"
    /\ ~(open_round(node.resident)
         /\ node.resident.last_round.attempt = node.retry_attempts)

(* Faulty variant: a pending transaction does not hold the backstop off. *)
crash_backstop_eager ==
    /\ worker = "lost" /\ git.worker # <<>>
    /\ ~is_terminal(node.status)
    /\ node.last_report = NoReport /\ node.worker_exit = "none"

(* The death is confirmed and its grace is over; a worker that committed   *)
(* nothing is retried instead.                                             *)
crash_backstop ==
    /\ worker = "lost" /\ git.worker # <<>>
    /\ ~is_terminal(node.status)
    /\ node.last_report = NoReport /\ node.worker_exit = "none"
    /\ node.pending_merge = NoTxn

watchdog_tick ==
    /\ proc[Sup].pc = "watch"
    /\ IF told_failure \/ crash_backstop
       THEN AppendBy(Sup, next_event(store, "node.report", Root, NoKey,
                                     FailedReport),
                     Goto(Sup, "rollup") /\ UNCHANGED fence)
       ELSE Goto(Sup, "rollup") /\ UNCHANGED <<store, fence, crashes>>
    /\ UNCHANGED <<git, lock, txns, worker, orphan, landed>>

RollUp ==
    /\ proc[Sup].pc = "rollup"
    /\ IF rollup_decision(store) = <<>>
       THEN /\ store' = healed(store)
            /\ Goto(Sup, "probe") /\ UNCHANGED <<fence, crashes>>
       ELSE AppendBy(Sup, rollup_event(store),
                     Goto(Sup, "probe") /\ UNCHANGED fence)
    /\ UNCHANGED <<git, lock, txns, worker, orphan, landed>>

-----------------------------------------------------------------------------
(* The worker commits, and ends: told through its shim, or lost with it. *)
Commit ==
    LET k == Cardinality(Range(git.worker) \cap 1..MaxCommits) + 1
    IN  /\ worker = "running" /\ k <= MaxCommits
        /\ git' = [git EXCEPT !.worker = Append(@, k)]
        /\ UNCHANGED <<store, lock, fence, txns, proc, worker, orphan, landed,
                       crashes>>

WorkerExits(code) ==
    /\ worker = "running"
    /\ worker' = "exited"
    /\ store' = appended(store, next_event(store, "worker.exited", Root,
                    NoKey, [attempt |-> 0, exit_code |-> code,
                            signal |-> "absent"]))
    /\ UNCHANGED <<git, lock, fence, txns, proc, orphan, landed, crashes>>

WorkerEnds ==
    \/ WorkerExits("zero")
    \/ "failing exit" \in Faults /\ WorkerExits("other")
    \/ /\ "lost worker" \in Faults
       /\ worker = "running"
       /\ worker' = "lost"
       /\ UNCHANGED <<store, git, lock, fence, txns, proc, orphan, landed,
                      crashes>>

(* Somebody else commits to the source branch. *)
ForeignCommit ==
    LET k == Cardinality(Range(git.source) \ 1..MaxCommits) + 1
    IN  /\ k <= MaxForeign
        /\ git' = [git EXCEPT !.source = Append(@, MaxCommits + k)]
        /\ UNCHANGED <<store, lock, fence, txns, proc, worker, orphan, landed,
                       crashes>>

(* cancel_run, as one step (module Cancel takes it apart). *)
cancel_run ==
    /\ "cancel" \in Faults
    /\ ~is_terminal(run_status(store))
    /\ LET live == log_statuses(store)[Root] \in Live
           s == IF live
                THEN appended(store, next_event(store, "node.report", Root,
                        NodeKey("run-cancel", Root), CancelReport))
                ELSE store
       IN  store' = appended(s, next_event(s, "run.status", Root,
                        RunKey("run-cancel"),
                        [status |-> "cancelled", children_successful |-> FALSE,
                         recovery_merge_report_seq |-> 0]))
    /\ UNCHANGED <<git, lock, fence, txns, proc, worker, orphan, landed,
                   crashes>>

(* A process dies.  The directory that serves as merge lock stays behind;  *)
(* the operating system drops the resident lock; and a git child that was  *)
(* about to move the ref may outlive its driver.                           *)
Crash(p) ==
    /\ crashes < MaxCrashes
    /\ proc[p].pc \notin {"idle", "probe"}
    /\ crashes' = crashes + 1
    /\ proc' = [proc EXCEPT ![p] = IF p = Sup
                                   THEN [NoProc EXCEPT !.pc = "probe"]
                                   ELSE NoProc]
    /\ FreeFence(p)
    /\ \/ UNCHANGED orphan
       \/ /\ "orphan git" \in Faults /\ proc[p].pc = "ff"
          /\ orphan' = proc[p].op
    /\ UNCHANGED <<store, git, lock, txns, worker, landed>>

OrphanMovesRef ==
    /\ orphan # 0
    /\ orphan' = 0
    /\ git' = IF ff_possible THEN [git EXCEPT !.source = git.worker] ELSE git
    /\ UNCHANGED <<store, lock, fence, txns, proc, worker, landed, crashes>>

(* The operator inspects a lock whose holder is gone, and removes it. *)
RemoveStaleLock ==
    /\ lock # Nobody
    /\ proc[lock].pc \notin {"rebase", "prepare", "ff", "release"}
    /\ lock' = Nobody
    /\ UNCHANGED <<store, git, fence, txns, proc, worker, orphan, landed,
                   crashes>>

DriverStep(d) ==
    \/ Probe(d) \/ Resolve(d) \/ ReadOids(d) \/ record_merge_start(d)
    \/ AcquireLock(d) \/ Rebase(d) \/ Prepare(d) \/ FastForward(d)
    \/ Release(d) \/ SubmitReport(d) \/ abort_merge_start(d)

SupStep == Probe(Sup) \/ Resolve(Sup) \/ watchdog_tick \/ RollUp

Next ==
    \/ \E d \in Drivers : merge(d) \/ land(d) \/ DriverStep(d) \/ GitFails(d)
    \/ SupStep
    \/ \E p \in Procs : Decide(p) \/ CannotVerify(p) \/ Crash(p)
    \/ Commit \/ WorkerEnds \/ ForeignCommit \/ cancel_run
    \/ OrphanMovesRef \/ RemoveStaleLock

Spec == Init /\ [][Next]_vars

(* Processes that live go on; Git answers a question that is asked again   *)
(* and again; a driver that waits for the merge lock times out.            *)
FairSpec ==
    /\ Spec
    /\ WF_vars(SupStep)
    /\ SF_vars(Decide(Sup))
    /\ WF_vars(Decide(Sup) \/ CannotVerify(Sup))
    /\ \A d \in Drivers :
         WF_vars(DriverStep(d) \/ GitFails(d) \/ Decide(d) \/ CannotVerify(d))

-----------------------------------------------------------------------------
(* Histories, in which no patch occurs twice, and what the log says of a   *)
(* transaction.                                                            *)
History ==
    LET N == MaxCommits + MaxForeign
    IN  {h \in UNION {[1..k -> 1..N] : k \in 0..N} : IsInjective(h)}
Oids == [expected : History, worker : History, base : History, tip : History,
         reporter : {"none", "driver", "recovery"}]

(* Records have the shape of their types, and no branch ever holds a patch *)
(* twice, however often it is rebased and landed.                          *)
TypeOK ==
    /\ \A i \in DOMAIN store.log : store.log[i] \in Event
    /\ store.view.manifest \in Manifest
    /\ are_node_files(store.view.nodes)
    /\ git.source \in History /\ git.worker \in History
    /\ lock \in Drivers \cup {Nobody}
    /\ fence \in Drivers \cup {Nobody}
    /\ Len(txns) <= MaxOps
    /\ \A op \in DOMAIN txns : txns[op] \in Oids
    /\ landed \subseteq DOMAIN txns
    /\ \A p \in Procs : proc[p].op \in 0..MaxOps

logged_completion(op) ==
    \E i \in DOMAIN store.log :
        \/ /\ store.log[i].kind = "node.report"
           /\ store.log[i].key.tag = "explicit-merge"
           /\ store.log[i].data.op_id = op
        \/ store.log[i].key = NumKey("round-landed", op)
logged_abort(op) ==
    \E i \in DOMAIN store.log : store.log[i].key = NumKey("merge-aborted", op)
recorded_node == healed(store).view.nodes[Root]

(* A merge or a landing is on record only when every patch of the recorded *)
(* worker tip is in the source branch, whoever recorded it.                *)
CompletedIsLanded ==
    \A op \in DOMAIN txns : logged_completion(op) =>
        Range(txns[op].worker) \subseteq Range(git.source)

(* Recovery never rejects a transaction that moved the source branch, if   *)
(* the recorded worker tip held a patch that the source did not have yet.  *)
LandedIsNotAborted ==
    \A op \in landed :
        logged_abort(op) =>
            Range(txns[op].worker) \subseteq Range(txns[op].expected)

(* The source moves only by fast-forward, and a live driver moves it only  *)
(* from the tip its transaction recorded.  (A git child that outlived its  *)
(* driver is only held to the fast-forward.)                               *)
SourceFastForwards ==
    [][ /\ IsPrefix(git.source, git'.source)
        /\ \A op \in landed' \ landed :
             driver_is_alive(op) => git.source = txns[op].expected ]_vars

(* A merge that landed and is not on record has a driver that lives, or a  *)
(* pending transaction that recovery can find.                             *)
is_tracked(op) ==
    \/ driver_is_alive(op)
    \/ logged_completion(op)
    \/ recorded_node.pending_merge.op_id = op

(* Whether the node was live when the transaction was appended: the        *)
(* reducer ignores merge.started on a settled node.                        *)
started_live(op) ==
    \E i \in DOMAIN store.log :
        /\ store.log[i].kind = "merge.started"
        /\ store.log[i].data.op_id = op
        /\ read_node_status_facts(store.log, i)[Root].status \in Live

(* Nobody settled the node over the head of the transaction: the run was   *)
(* not cancelled, nor the node failed because its worker told a failure.   *)
undisturbed ==
    ~\E i \in DOMAIN store.log :
        \/ store.log[i].key.tag = "run-cancel"
        \/ /\ store.log[i].kind = "worker.exited"
           /\ store.log[i].data.exit_code # "zero"

(* A landed merge is not lost with its driver, provided that the node was  *)
(* live when record_merge_start appended the transaction and that neither  *)
(* a cancel nor a told failure settled the node meanwhile.                 *)
LandedIsRecoverable ==
    undisturbed => \A op \in landed : started_live(op) => is_tracked(op)

(* record_merge_start is "never permission to merge without a recoverable  *)
(* transaction": no landed merge is lost with its driver.                  *)
EveryLandingIsRecoverable == \A op \in landed : is_tracked(op)

(* A driver that was told that nothing is pending, or that the pending     *)
(* transaction was cleared, does not replace the transaction of a live one.*)
NoLiveOverwrite ==
    [][ LET before == recorded_node.pending_merge.op_id
            after == recorded_node'.pending_merge.op_id
        IN  before # 0 /\ after \notin {0, before} =>
              ~driver_is_alive(before) ]_vars

(* The crash backstop does not fail a node, however sure of the death of   *)
(* its worker, once a merge that the log holds as started has landed.      *)
LandedIsNotFailed ==
    [][ node.worker_exit = "none" /\ Len(store'.log) > Len(store.log)
        /\ Last(store'.log).kind = "node.report"
        /\ Last(store'.log).data = FailedReport
          => \A op \in landed : ~started_live(op) ]_vars

(* A transaction whose driver died does not stay pending. *)
NothingStaysPending ==
    \A op \in 1..MaxOps :
        recorded_node.pending_merge.op_id = op
          ~> recorded_node.pending_merge.op_id # op

(* A merge of a live node that landed ends up on record, by its driver or  *)
(* by recover_node in a later tick.                                        *)
LandedIsRecorded ==
    \A op \in 1..MaxOps :
        op \in landed /\ started_live(op) ~> logged_completion(op)

\* What the log says of a merge and what the source branch holds agree,
\* whichever of driver, second driver and recovery spoke last.
RecordMatchesSource == TypeOK /\ CompletedIsLanded /\ LandedIsNotAborted

\* Every merge transaction comes to an end, and a landed one to the right end
\* (recover_node, called by each driver and by each tick).
MergesResolve == NothingStaysPending /\ LandedIsRecorded

\* A merge or a landing is on record only when it is in the source, and one
\* that is in the source has not been lost with its driver.
LandedIsKept == CompletedIsLanded /\ LandedIsRecoverable

=============================================================================
