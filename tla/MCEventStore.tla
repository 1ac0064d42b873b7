---------------------------- MODULE MCEventStore ----------------------------
(***************************************************************************)
(* Instances of EventStore for TLC.  Each set of requests below is what    *)
(* one group of callers appends to a run.  Requests of different groups    *)
(* are not mixed, and each group has its own bound on the log.             *)
(***************************************************************************)
EXTENDS StoreRefinement

CONSTANTS n1, n2, c1

MCNodeIds == {n1, n2}
MCChildren == {c1}

Req(entry, kind, node, key, data) ==
    [entry |-> entry, kind |-> kind, node |-> node, key |-> key,
     data |-> data]

Audit == Req("event", "audit", n1, NoKey, [note |-> 0])

(* Creation by `run create`. *)
RunData(owner, res) ==
    [source_branch |-> 0, agent_owner |-> owner, resident |-> res]
Spawned == [branch |-> 1, base_sha |-> 1, agent_pid |-> 1,
            source_branch |-> 9, session |-> 1]

NewRun ==
    Req("event", "run.created", n1, NoKey, RunData("taskfleet", FALSE))
NewResidentRun ==
    Req("event", "run.created", n1, NoKey, RunData("taskfleet", TRUE))
NewCallerRun ==
    Req("event", "run.created", n1, NoKey, RunData("caller", FALSE))
NewRoot == Req("event", "node.created", n1, NoKey, Spawned)
NewCallerRoot ==
    Req("event", "node.created", n1, NoKey, [Spawned EXCEPT !.session = 0])

(* Reports *)
AgentDone == [NoReport EXCEPT !.success = "true", !.origin = "agent"]
NoVerdict == [NoReport EXCEPT !.origin = "agent"]
Backstop == [NoReport EXCEPT !.success = "false", !.origin = "supervisor"]
Cancelled == [NoReport EXCEPT !.success = "false", !.cancelled = TRUE]
Merged(op) == [NoReport EXCEPT !.success = "true", !.via = TRUE,
                               !.origin = "run-merge", !.op_id = op]

ReportReq(n, r) == Req("event", "node.report", n, NoKey, r)
KeyedReq(n, r) == Req("event", "node.report", n, RunKey("supplied"), r)
BackstopReq(n) == Req("unlocked", "node.report", n, NoKey, Backstop)
MergedReq(n, op) ==
    Req("event", "node.report", n, NodeKey("explicit-merge", n),
        Merged(op))
StatusReq(n, s) ==
    Req("unlocked", "node.status", n, NoKey, [status |-> s])

(* Run statuses *)
RunStatus(s) == [status |-> s, recovery_merge_report_seq |-> 0,
                 children_successful |-> TRUE]
RollUp(s) ==
    Req("unlocked", "run.status", n1, RunKey("supervisor-rollup"),
        RunStatus(s))
Recovery(k) ==
    Req("unlocked", "run.status", n1, NumKey("supervisor-recovery-rollup", k),
        [RunStatus("done") EXCEPT !.recovery_merge_report_seq = k])
CancelRun ==
    Req("unlocked", "run.status", n1, RunKey("run-cancel"),
        RunStatus("cancelled"))

Txn(op, landing) == [NoTxn EXCEPT !.op_id = op, !.landing = landing,
                                  !.worker_branch = 1, !.source_branch = 9]
Started(n, op) == Req("unlocked", "merge.started", n, NoKey, Txn(op, FALSE))
Aborted(n, op) == Req("unlocked", "merge.aborted", n, NoKey, [op_id |-> op])

Retry(n, k) ==
    Req("unlocked", "node.retry", n, NoKey,
        [branch |-> 1 + k, base_sha |-> 1 + k, agent_pid |-> 1 + k,
         session |-> 1 + k, attempt |-> k])

(* How nodes and the run settle. *)
OutcomeRequests ==
    {KeyedReq(n1, AgentDone), ReportReq(n1, NoVerdict), BackstopReq(n1),
     MergedReq(n1, 1), MergedReq(n1, 2), StatusReq(n1, "running"),
     Req("unlocked", "node.report", n1, NodeKey("run-cancel", n1),
         Cancelled),
     RollUp("failed"), RollUp("done"), CancelRun, Recovery(4),
     Started(n1, 1), Aborted(n1, 1), NoRequest}

(* A failed run adopted by a late merge, and rolled up again. *)
RecoveryRequests ==
    {BackstopReq(n1), MergedReq(n1, 1), RollUp("failed"), CancelRun,
     Recovery(5), NoRequest}

(* Attempts: respawns, told exits, observed deaths, evidence, displays. *)
Exited(n, k, code) ==
    Req("event", "worker.exited", n, NoKey,
        [attempt |-> k, exit_code |-> code, signal |-> "absent"])
Death(n) == Req("unlocked", "node.death_observed", n, NoKey, [note |-> 0])
Evidence(kind, n, k) ==
    Req("event", kind, n, NumKey("worker-evidence", k),
        [attempt |-> k, session |-> k + 1])
Display(kind, n, k, m) ==
    Req("event", kind, n, NumKey("worker-display", k),
        [attempt |-> k, marker |-> m])

AttemptRequests ==
    {Retry(n1, 1), Exited(n1, 0, "zero"), Exited(n1, 1, "other"), Death(n1),
     Evidence("worker.evidence.archived", n1, 0),
     Evidence("worker.evidence.failed", n1, 1),
     Display("worker.display.retained", n1, 0, 7),
     Display("worker.display.expired", n1, 0, 7),
     Display("worker.display.unavailable", n1, 0, 7),
     BackstopReq(n1), Started(n1, 1), NoRequest}

(* A second node, child runs and their supervisors. *)
Cursor(n, k) ==
    Req("unlocked", "supervisor.cursor_advanced", n, NoKey,
        [child |-> c1, report_seq |-> k])
TreeRequests ==
    {Req("idempotent", "node.created", n2, RunKey("supplied"), Spawned),
     Req("unlocked", "child.spawned", n1, RunKey("child-spawned"),
         [child |-> c1]),
     Req("event", "supervisor.attached", n1, NoKey, [pid |-> 5]),
     Req("event", "supervisor.attached", n1, NoKey, [pid |-> 6]),
     Cursor(n1, 3), Cursor(n1, 5), StatusReq(n2, "running"),
     StatusReq(n2, "failed"), ReportReq(n2, AgentDone), NoRequest}

(* Requests for a human decision. *)
Awaiting(n, k) ==
    Req("unlocked", "node.awaiting_input", n, NoKey, [items |-> k])
Resolved(n, k) ==
    Req("unlocked", "node.input_resolved", n, NoKey, [event_seq |-> k])
InputRequests ==
    {Awaiting(n1, 3), Awaiting(n1, 5), Awaiting(n1, 9), Resolved(n1, 3),
     Resolved(n1, 4), Resolved(n1, 5), Exited(n1, 0, "zero"), Retry(n1, 1),
     ReportReq(n1, AgentDone), NoRequest}

(* Resident workers. *)
Round(n, k) ==
    Req("unlocked", "node.round_reported", n, NoKey, [attempt |-> k])
Resumed(n, k) ==
    Req("unlocked", "node.resumed", n, NoKey,
        [attempt |-> k, base_sha |-> 0, agent_pid |-> 1 + k,
         session |-> 1 + k])
ResidentRequests ==
    {Round(n1, 0), Round(n1, 1), Resumed(n1, 1), Resumed(n1, 2),
     Req("unlocked", "merge.started", n1, NoKey, Txn(1, TRUE)),
     Req("event", "node.round_landed", n1, NumKey("round-landed", 1),
         [op_id |-> 1, integrated |-> 4]),
     Req("event", "node.resident_dormant", n1, NumKey("resident-expiry", 3),
         [note |-> 0]),
     Req("event", "node.resident_attention", n1, NumKey("resident-expiry", 3),
         [note |-> 0]),
     BackstopReq(n1), NoRequest}

(* Caller-owned Pi sessions and their settlement. *)
Lifecycle(g, state, path) ==
    Req("unlocked", "caller.pi.lifecycle", n1, NoKey,
        [generation |-> g, state |-> state, session |-> 3, path |-> path,
         reason |-> state \notin {"reserved", "started"}])
Bound(g) ==
    Req("unlocked", "caller.pi.session_bound", n1, NoKey,
        [original_cwd |-> 1, session |-> 3, path |-> 4, generation |-> g])
IntentReq(op, g) ==
    Req("unlocked", "caller.settlement_intent", n1, RunKey("settlement"),
        [operation |-> op, node |-> n1, key |-> RunKey("settlement"),
         generation |-> g, writer |-> 2, seq |-> 0])
CallerTxn(op, k) ==
    [Txn(op, FALSE) EXCEPT !.caller_authority =
        [intent_seq |-> k, intent_key |-> RunKey("settlement"), writer |-> 2]]
CallerStarted(op, k) ==
    Req("unlocked", "merge.started", n1, NoKey, CallerTxn(op, k))
CallerRequests ==
    {Lifecycle(1, "reserved", 0), Bound(1), Lifecycle(1, "started", 4),
     Lifecycle(1, "exited", 4), IntentReq("merge", 0), IntentReq("merge", 1),
     IntentReq("cancel", 1), IntentReq("discard", 0), CallerStarted(1, 3),
     CallerStarted(1, 4), Aborted(n1, 1), MergedReq(n1, 1), BackstopReq(n1),
     RollUp("failed"), NoRequest}

(* Damage to the log, its quarantine, and what callers append meanwhile. *)
DamageRequests ==
    {ReportReq(n1, AgentDone), BackstopReq(n1), MergedReq(n1, 1),
     Audit, NoRequest}

Group(root, requests, bound) ==
    [requests |-> requests \cup root, bound |-> bound,
     damage |-> requests = DamageRequests]
Plain == {NewRun, NewRoot}
Resident == {NewResidentRun, NewRoot}
Caller == {NewCallerRun, NewCallerRoot}

CrashGroups ==
    {Group(Plain, OutcomeRequests, 5), Group(Plain, RecoveryRequests, 6),
     Group(Plain, AttemptRequests, 5), Group(Plain, TreeRequests, 5),
     Group(Plain, InputRequests, 5), Group(Plain, DamageRequests, 5),
     Group(Resident, ResidentRequests, 5), Group(Caller, CallerRequests, 6)}
AtomicGroups ==
    {Group(Plain, OutcomeRequests, 5), Group(Plain, RecoveryRequests, 6),
     Group(Plain, AttemptRequests, 4), Group(Plain, TreeRequests, 4),
     Group(Resident, ResidentRequests, 4), Group(Caller, CallerRequests, 5)}
InputGroups == {Group(Plain, InputRequests, 5)}

MCRunCreated == {NewRun, NewResidentRun, NewCallerRun}
MCRootCreated == {NewRoot, NewCallerRoot}

RequestsOf(groups) ==
    UNION {g.requests : g \in groups} \ (MCRunCreated \cup MCRootCreated)
CrashRequests == RequestsOf(CrashGroups)
AtomicRequests == RequestsOf(AtomicGroups)
InputRequestsOnly == RequestsOf(InputGroups)

(* Every event of the log, and the request being served, is of one group. *)
is_request_of(ev, g) ==
    \E req \in g.requests : /\ req.kind = ev.kind /\ req.node = ev.node
                            /\ req.key = ev.key /\ req.data = ev.data
coming == IF w.pc \in {"replay", "refold", "append"} /\ w.req # NoRequest
          THEN 1 ELSE 0
OneGroup(groups) ==
    \E g \in groups :
        /\ Len(log) + coming <= g.bound
        /\ faults = 0 \/ g.damage
        /\ w.req = NoRequest \/ w.req \in g.requests
        /\ \A i \in DOMAIN log : is_request_of(log[i].ev, g)
InCrashGroup == OneGroup(CrashGroups)
InAtomicGroup == OneGroup(AtomicGroups)
InInputGroup == OneGroup(InputGroups)

=============================================================================
