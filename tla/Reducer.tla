------------------------------ MODULE Reducer -------------------------------
(***************************************************************************)
(* The reducer: one operator per event kind.  Given the projections on     *)
(* disk (the manifest m and the node files ns) and an event ev, an         *)
(* operator plans the projection writes of that event:                     *)
(*   Rejected     the event is a CorruptEventLog error;                    *)
(*   Plan(ops)    the writes to commit, in order; Plan(<<>>) is a no-op.   *)
(* reduce_run_status also reads the log, which therefore is a parameter of *)
(* reduce_event_to_ops.                                                    *)
(*                                                                         *)
(* The run_id of an event and the syntactic validation of string fields    *)
(* are abstracted away: a payload is a record whose fields have the type   *)
(* the parser requires.  Every rejection that depends on the projections,  *)
(* or on the value of a numeric or boolean field, is kept.                 *)
(***************************************************************************)
EXTENDS Schema

Plan(ops) == [ok |-> TRUE, ops |-> ops]
Rejected == [ok |-> FALSE, ops |-> <<>>]

(* The two kinds of projection write. *)
ProjectionOp ==
    [file : {"manifest"}, node : {Root}, manifest : Manifest]
    \cup [file : {"node"}, node : NodeIds, value : Node]
ManifestOp(m) == [file |-> "manifest", node |-> Root, manifest |-> m]
NodeOp(n, v) == [file |-> "node", node |-> n, value |-> v]

(* One projection write of commit_ops, on either kind of file. *)
write_manifest(m, op) == IF op.file = "manifest" THEN op.manifest ELSE m
write_node(ns, op) ==
    IF op.file = "node"
    THEN [n \in DOMAIN ns \cup {op.node} |->
             IF n = op.node THEN op.value ELSE ns[n]]
    ELSE ns

HasNode(ns, ev) == ev.node \in DOMAIN ns

-----------------------------------------------------------------------------
(* Event kinds.  "audit" stands for every kind without a projection. *)
Kind ==
    {"run.created", "run.status", "node.created", "node.status",
     "node.report", "node.retry", "caller.pi.session_bound",
     "caller.pi.lifecycle", "caller.settlement_intent", "worker.exited",
     "worker.evidence.archived", "worker.evidence.failed",
     "worker.display.retained", "worker.display.expired",
     "worker.display.unavailable", "node.death_observed",
     "node.awaiting_input", "node.input_resolved", "node.round_reported",
     "node.resumed", "node.round_landed", "node.resident_dormant",
     "node.resident_attention", "merge.started", "merge.aborted",
     "child.spawned", "supervisor.attached", "supervisor.cursor_advanced",
     "audit"}

(* Event payloads, by kind: what the field parsers let through. *)
RunCreatedData == [source_branch : Nat, agent_owner : Owner,
                   resident : BOOLEAN]
RunStatusData == [status : Status, recovery_merge_report_seq : Nat,
                  children_successful : BOOLEAN]
NodeCreatedData == [branch : Nat, base_sha : Nat, agent_pid : Nat,
                    source_branch : Nat, session : Nat]
NodeRetryData == [branch : Nat, base_sha : Nat, agent_pid : Nat,
                  session : Nat, attempt : Nat]
NodeStatusData == [status : Status]
WorkerExitedData == [attempt : Nat, exit_code : {"absent", "zero", "other"},
                     signal : {"absent", "other"}]
EvidenceData == [attempt : Nat, session : Nat]
DisplayData == [attempt : Nat, marker : Nat]
AwaitingData == [items : Nat]
ResolvedData == [event_seq : Nat]
AbortedData == [op_id : Nat]
ChildData == [child : Children]
AttachedData == [pid : Nat]
CursorData == [child : Children, report_seq : Nat]
RoundData == [attempt : Nat]
ResumedData == [attempt : Nat, base_sha : Nat, agent_pid : Nat,
                session : Nat]
LandedData == [op_id : Nat, integrated : Nat]
NoteData == [note : Nat]

Payload ==
    Report \cup RunCreatedData \cup RunStatusData \cup NodeCreatedData
    \cup NodeRetryData \cup NodeStatusData \cup WorkerExitedData
    \cup EvidenceData \cup DisplayData \cup AwaitingData \cup ResolvedData
    \cup MergeTxn \cup AbortedData \cup ChildData \cup AttachedData
    \cup CursorData \cup RoundData \cup ResumedData \cup LandedData
    \cup Intent \cup CallerPiSession \cup CallerPiLifecycle \cup NoteData

(* The payload has the shape its kind calls for. *)
well_formed(k, d) ==
    /\ k = "run.created" => d \in RunCreatedData
    /\ k = "run.status" => d \in RunStatusData
    /\ k = "node.created" => d \in NodeCreatedData
    /\ k = "node.retry" => d \in NodeRetryData
    /\ k = "node.status" => d \in NodeStatusData
    /\ k = "node.report" => d \in Report
    /\ k = "worker.exited" => d \in WorkerExitedData
    /\ k \in {"worker.evidence.archived", "worker.evidence.failed"} =>
          d \in EvidenceData
    /\ k \in {"worker.display.retained", "worker.display.expired",
              "worker.display.unavailable"} => d \in DisplayData
    /\ k = "node.awaiting_input" => d \in AwaitingData
    /\ k = "node.input_resolved" => d \in ResolvedData
    /\ k = "merge.started" => d \in MergeTxn
    /\ k = "merge.aborted" => d \in AbortedData
    /\ k = "child.spawned" => d \in ChildData
    /\ k = "supervisor.attached" => d \in AttachedData
    /\ k = "supervisor.cursor_advanced" => d \in CursorData
    /\ k = "node.round_reported" => d \in RoundData
    /\ k = "node.resumed" => d \in ResumedData
    /\ k = "node.round_landed" => d \in LandedData
    /\ k = "caller.settlement_intent" => d \in Intent
    /\ k = "caller.pi.session_bound" => d \in CallerPiSession
    /\ k = "caller.pi.lifecycle" => d \in CallerPiLifecycle

Event == {e \in [seq : Nat, kind : Kind, node : NodeIds, key : Key,
                 data : Payload] : well_formed(e.kind, e.data)}

-----------------------------------------------------------------------------
(* Log-derived node statuses: NodeStatusAcc.  A node the log has not       *)
(* created has status "absent"; merge is the seq of the adopted merge      *)
(* report, 0 if there is none.                                             *)
(* Faulty variant: a late merge is not adopted. *)
observe_report_sticky(fact, ev) ==
    IF is_terminal(fact.status) \/ report_terminal_status(ev.data) = "none"
    THEN fact
    ELSE [fact EXCEPT !.status = report_terminal_status(ev.data)]

observe_report(fact, ev) ==
    IF is_terminal(fact.status)
    THEN IF permits_terminal_merge_recovery(fact.status, ev.data)
         THEN [status |-> "done", merge |-> ev.seq]
         ELSE fact
    ELSE LET new == report_terminal_status(ev.data)
         IN  IF new = "none" THEN fact
             ELSE [status |-> new,
                   merge |-> IF report_is_confirmed_merge(ev.data)
                             THEN ev.seq ELSE fact.merge]

observe(facts, ev) ==
    LET fact == facts[ev.node]
    IN  CASE ev.kind = "node.created" /\ fact.status = "absent" ->
               [facts EXCEPT ![ev.node].status = "pending"]
          [] ev.kind = "node.status" /\ fact.status \in Live ->
               [facts EXCEPT ![ev.node].status = ev.data.status]
          [] ev.kind = "node.report" /\ fact.status # "absent" ->
               [facts EXCEPT ![ev.node] = observe_report(fact, ev)]
          [] OTHER -> facts

read_node_status_facts(lg, before_seq) ==
    FoldLeft(observe, [n \in NodeIds |-> [status |-> "absent", merge |-> 0]],
             SelectSeq(lg, LAMBDA ev : ev.seq < before_seq))

known_statuses(facts) ==
    {facts[n].status : n \in NodeIds} \ {"absent"}

-----------------------------------------------------------------------------
(* Run events *)
reduce_run_created(m, ev) ==
    IF has_manifest(m) THEN Plan(<<>>)
    ELSE Plan(<<ManifestOp([NoManifest EXCEPT
                  !.status = "pending",
                  !.source_branch = ev.data.source_branch,
                  !.agent_owner = ev.data.agent_owner,
                  !.resident = ev.data.resident])>>)

(* Faulty variant: the proof in the log is not examined. *)
recovery_allowed_unproved(m, lg, ev) ==
    m.status = "failed" /\ ev.data.status = "done"

recovery_allowed(m, lg, ev) ==
    LET facts == read_node_status_facts(lg, ev.seq)
    IN  /\ m.status = "failed"
        /\ ev.data.status = "done"
        /\ ev.data.children_successful
        /\ ev.data.recovery_merge_report_seq # 0
        /\ aggregate_terminal_status(known_statuses(facts)) = "done"
        /\ \E n \in NodeIds :
              facts[n].merge = ev.data.recovery_merge_report_seq

(* Faulty variant: no terminal guard. *)
reduce_run_status_unguarded(m, lg, ev) ==
    Plan(<<ManifestOp([m EXCEPT !.status = ev.data.status])>>)

reduce_run_status(m, lg, ev) ==
    IF \/ ~has_manifest(m)
       \/ is_terminal(m.status) /\ ~recovery_allowed(m, lg, ev)
       \/ m.status = ev.data.status
    THEN Plan(<<>>)
    ELSE Plan(<<ManifestOp([m EXCEPT !.status = ev.data.status])>>)

-----------------------------------------------------------------------------
(* Creation and rewiring of a node *)
worker_evidence_from_spawn_data(d, attempt) ==
    IF d.session = 0 THEN NoEvidence
    ELSE [attempt |-> attempt, session |-> d.session, status |-> "pending"]

FreshNode(d) ==
    [status |-> "pending", branch |-> d.branch, base_sha |-> d.base_sha,
     agent_pid |-> d.agent_pid, retry_attempts |-> 0,
     last_report |-> NoReport, pending_merge |-> NoTxn,
     worker_exit |-> "none", first_death_at |-> 0,
     awaiting_input |-> NoInput, children |-> {}, supervisor_pid |-> 0,
     cursor |-> [c \in Children |-> 0],
     evidence |-> worker_evidence_from_spawn_data(d, 0),
     retained_display |-> NoDisplay, retention_unavailable |-> FALSE,
     caller_pi_session |-> NoPiSession,
     caller_pi_lifecycle |-> NoPiLifecycle, resident |-> NoResident]

reduce_node_created(m, ns, ev) ==
    LET implicit == /\ ev.node = Root
                    /\ m.source_branch = 0
        source == IF implicit THEN ev.data.source_branch ELSE m.source_branch
        node == NodeOp(ev.node, FreshNode(ev.data))
    IN  IF HasNode(ns, ev) THEN Plan(<<>>)
        ELSE IF has_manifest(m)
        THEN Plan(<<node, ManifestOp([m EXCEPT !.source_branch = source])>>)
        ELSE Plan(<<node>>)

(* A new agent in a new worktree; what the last one left is cleared. *)
respawned(n, d) ==
    [n EXCEPT
       !.branch = d.branch, !.base_sha = d.base_sha, !.agent_pid = d.agent_pid,
       !.evidence = worker_evidence_from_spawn_data(d, d.attempt),
       !.retained_display = NoDisplay, !.retention_unavailable = FALSE,
       !.status = "pending", !.last_report = NoReport,
       !.pending_merge = NoTxn, !.worker_exit = "none",
       !.first_death_at = 0, !.awaiting_input = NoInput,
       !.retry_attempts = IF d.attempt = 0 THEN @ + 1 ELSE d.attempt]

(* Faulty variant: the attempt is counted instead of set. *)
reduce_node_retry_counts(ns, ev) ==
    IF ~HasNode(ns, ev) \/ is_terminal(ns[ev.node].status) THEN Plan(<<>>)
    ELSE Plan(<<NodeOp(ev.node,
           [ns[ev.node] EXCEPT !.retry_attempts = @ + 1])>>)

reduce_node_retry(ns, ev) ==
    LET n == ns[ev.node]
    IN  IF ~HasNode(ns, ev) \/ is_terminal(n.status) THEN Plan(<<>>)
        ELSE Plan(<<NodeOp(ev.node, respawned(n, ev.data))>>)

-----------------------------------------------------------------------------
(* Outcome of a node *)
with_status(n, s) ==
    [n EXCEPT !.status = s,
              !.pending_merge = IF is_terminal(s) THEN NoTxn ELSE @,
              !.awaiting_input = IF is_terminal(s) THEN NoInput ELSE @]

reduce_node_status(ns, ev) ==
    LET n == ns[ev.node]
    IN  IF \/ ~HasNode(ns, ev)
           \/ is_terminal(n.status)
           \/ n.status = ev.data.status
        THEN Plan(<<>>)
        ELSE Plan(<<NodeOp(ev.node, with_status(n, ev.data.status))>>)

(* Faulty variant: a pending merge survives the settlement. *)
settled_keeps_txn(n, r, s) ==
    [n EXCEPT !.last_report = r, !.status = s, !.awaiting_input = NoInput]

(* The node settled by report r with status s. *)
settled(n, r, s) ==
    [n EXCEPT !.last_report = r, !.status = s,
              !.pending_merge = NoTxn, !.awaiting_input = NoInput]

(* Faulty variant: a report without a verdict is folded. *)
reduce_node_report_unchecked(ns, ev) ==
    IF ~HasNode(ns, ev) \/ is_terminal(ns[ev.node].status) THEN Plan(<<>>)
    ELSE Plan(<<NodeOp(ev.node, settled(ns[ev.node], ev.data,
                                        report_terminal_status(ev.data)))>>)

reduce_node_report(ns, ev) ==
    LET n == ns[ev.node]
        new == report_terminal_status(ev.data)
    IN  IF ~HasNode(ns, ev) THEN Plan(<<>>)
        ELSE IF is_terminal(n.status)
        THEN IF /\ permits_terminal_merge_recovery(n.status, ev.data)
                /\ ~(n.last_report = ev.data /\ n.status = "done")
             THEN Plan(<<NodeOp(ev.node, settled(n, ev.data, "done"))>>)
             ELSE Plan(<<>>)
        ELSE IF new = "none" THEN Rejected
        ELSE Plan(<<NodeOp(ev.node, settled(n, ev.data, new))>>)

-----------------------------------------------------------------------------
(* Told facts about the worker process and its evidence *)
(* Faulty variant: the exit of an earlier attempt is taken for this one's. *)
reduce_worker_exited_any_attempt(ns, ev) ==
    IF ~HasNode(ns, ev) THEN Plan(<<>>)
    ELSE Plan(<<NodeOp(ev.node,
           [ns[ev.node] EXCEPT !.worker_exit = "clean"])>>)

reduce_worker_exited(ns, ev) ==
    LET n == ns[ev.node]
        code == ev.data.exit_code
        signal == ev.data.signal
    IN  IF (code = "absent") = (signal = "absent") THEN Rejected
        ELSE IF \/ ~HasNode(ns, ev)
                \/ ev.data.attempt # n.retry_attempts
                \/ n.worker_exit # "none"
        THEN Plan(<<>>)
        ELSE Plan(<<NodeOp(ev.node, [n EXCEPT
               !.worker_exit = IF code = "zero" THEN "clean" ELSE "failing",
               !.awaiting_input = NoInput])>>)

(* Archiving succeeded (s = "complete") or failed (s = "failed"). *)
reduce_worker_evidence(ns, ev, s) ==
    LET n == ns[ev.node]
    IN  IF ~HasNode(ns, ev) THEN Plan(<<>>)
        ELSE IF n.evidence = NoEvidence THEN Rejected
        ELSE IF \/ n.evidence.attempt # ev.data.attempt
                \/ n.evidence.session # ev.data.session
                \/ n.evidence.status = "complete"
        THEN Plan(<<>>)
        ELSE Plan(<<NodeOp(ev.node, [n EXCEPT !.evidence.status = s])>>)

reduce_worker_display_retained(ns, ev) ==
    LET n == ns[ev.node]
    IN  IF \/ ~HasNode(ns, ev)
           \/ ev.data.attempt # n.retry_attempts
           \/ ev.data.marker = 0
           \/ n.retained_display # NoDisplay
        THEN Plan(<<>>)
        ELSE Plan(<<NodeOp(ev.node, [n EXCEPT !.retained_display =
               [marker |-> ev.data.marker, attempt |-> ev.data.attempt,
                expired_at |-> 0]])>>)

reduce_worker_display_expired(ns, ev) ==
    LET n == ns[ev.node]
        d == n.retained_display
    IN  IF \/ ~HasNode(ns, ev)
           \/ d = NoDisplay
           \/ d.attempt # ev.data.attempt
           \/ d.marker # ev.data.marker
           \/ d.expired_at # 0
        THEN Plan(<<>>)
        ELSE Plan(<<NodeOp(ev.node,
               [n EXCEPT !.retained_display.expired_at = ev.seq])>>)

reduce_worker_display_unavailable(ns, ev) ==
    LET n == ns[ev.node]
    IN  IF \/ ~HasNode(ns, ev)
           \/ ev.data.attempt # n.retry_attempts
           \/ n.retained_display # NoDisplay
        THEN Plan(<<>>)
        ELSE Plan(<<NodeOp(ev.node,
               [n EXCEPT !.retention_unavailable = TRUE])>>)

reduce_node_death_observed(ns, ev) ==
    LET n == ns[ev.node]
    IN  IF \/ ~HasNode(ns, ev)
           \/ n.first_death_at # 0
           \/ is_terminal(n.status)
           \/ n.worker_exit # "none"
           \/ n.last_report # NoReport
           \/ n.pending_merge # NoTxn
        THEN Plan(<<>>)
        ELSE Plan(<<NodeOp(ev.node, [n EXCEPT !.first_death_at = ev.seq])>>)

-----------------------------------------------------------------------------
(* Requests for a human decision *)
MAX_ITEMS == 8

reduce_node_awaiting_input(ns, ev) ==
    LET n == ns[ev.node]
        items == ev.data.items
    IN  IF items \notin 1..MAX_ITEMS THEN Rejected
        ELSE IF \/ ~HasNode(ns, ev)
                \/ is_terminal(n.status)
                \/ n.worker_exit # "none"
        THEN Plan(<<>>)
        ELSE IF n.awaiting_input = NoInput
        THEN Plan(<<NodeOp(ev.node, [n EXCEPT !.awaiting_input =
               [event_seq |-> ev.seq, items |-> items]])>>)
        ELSE IF n.awaiting_input.items + items > MAX_ITEMS THEN Rejected
        ELSE Plan(<<NodeOp(ev.node,
               [n EXCEPT !.awaiting_input.items = @ + items])>>)

reduce_node_input_resolved(ns, ev) ==
    LET n == ns[ev.node]
    IN  IF \/ ~HasNode(ns, ev)
           \/ n.awaiting_input = NoInput
           \/ n.awaiting_input.event_seq # ev.data.event_seq
        THEN Plan(<<>>)
        ELSE Plan(<<NodeOp(ev.node, [n EXCEPT !.awaiting_input = NoInput])>>)

-----------------------------------------------------------------------------
(* The merge transaction *)

(* The caller-authority link a transaction must carry, by owner. *)
merge_authorized(m, ev) ==
    LET intent == m.caller_settlement_intent
        link == ev.data.caller_authority
    IN  IF m.agent_owner = "caller"
        THEN /\ intent.operation = "merge"
             /\ intent.node = ev.node
             /\ link = [intent_seq |-> intent.seq, intent_key |-> intent.key,
                        writer |-> intent.writer]
             /\ ev.data.source_branch = m.source_branch
        ELSE link = NoAuthority

caller_txn_matches(m, n, ev) ==
    m.agent_owner = "caller" =>
        /\ n.branch = ev.data.worker_branch
        /\ n.caller_pi_lifecycle.generation
              = m.caller_settlement_intent.generation

(* A merge may start on a live node, and on the failed node of a failed    *)
(* caller-owned run whose settlement intent is that merge.                 *)
merge_may_start(m, n, ev) ==
    \/ ~is_terminal(n.status)
    \/ /\ m.agent_owner = "caller"
       /\ n.status = "failed"
       /\ m.status = "failed"
       /\ m.node_count = 1
       /\ m.caller_settlement_intent.operation = "merge"
       /\ m.caller_settlement_intent.node = ev.node

reduce_merge_started(m, ns, ev) ==
    LET n == ns[ev.node]
    IN  IF ~has_manifest(m) \/ ~merge_authorized(m, ev) THEN Rejected
        ELSE IF ~HasNode(ns, ev) THEN Plan(<<>>)
        ELSE IF ~caller_txn_matches(m, n, ev) THEN Rejected
        ELSE IF \/ ~merge_may_start(m, n, ev)
                \/ n.pending_merge.op_id = ev.data.op_id
        THEN Plan(<<>>)
        ELSE Plan(<<NodeOp(ev.node, [n EXCEPT !.pending_merge = ev.data])>>)

reduce_merge_aborted(ns, ev) ==
    LET n == ns[ev.node]
    IN  IF \/ ~HasNode(ns, ev)
           \/ n.pending_merge = NoTxn
           \/ n.pending_merge.op_id # ev.data.op_id
        THEN Plan(<<>>)
        ELSE Plan(<<NodeOp(ev.node, [n EXCEPT !.pending_merge = NoTxn])>>)

-----------------------------------------------------------------------------
(* Child runs and supervisors *)
reduce_child_spawned(ns, ev) ==
    LET n == ns[ev.node]
    IN  IF ~HasNode(ns, ev) \/ ev.data.child \in n.children THEN Plan(<<>>)
        ELSE Plan(<<NodeOp(ev.node,
               [n EXCEPT !.children = @ \cup {ev.data.child}])>>)

reduce_supervisor_attached(ns, ev) ==
    LET n == ns[ev.node]
    IN  IF ~HasNode(ns, ev) \/ n.supervisor_pid = ev.data.pid THEN Plan(<<>>)
        ELSE Plan(<<NodeOp(ev.node,
               [n EXCEPT !.supervisor_pid = ev.data.pid])>>)

reduce_supervisor_cursor_advanced(ns, ev) ==
    LET n == ns[ev.node]
        d == ev.data
    IN  IF ~HasNode(ns, ev) \/ d.report_seq <= n.cursor[d.child]
        THEN Plan(<<>>)
        ELSE Plan(<<NodeOp(ev.node,
               [n EXCEPT !.cursor[d.child] = d.report_seq])>>)

-----------------------------------------------------------------------------
(* Resident workers *)
(* A report amends the open round of its attempt, or opens the next one. *)
with_report(r, ev) ==
    IF open_round(r) /\ r.last_round.attempt = ev.data.attempt
    THEN [r EXCEPT !.last_round.event_seq = ev.seq]
    ELSE [r EXCEPT !.rounds_reported = @ + 1,
                   !.last_round = [round |-> r.rounds_reported + 1,
                                   attempt |-> ev.data.attempt,
                                   event_seq |-> ev.seq, closed_at |-> 0],
                   !.expiry_attention_at = 0]

reduce_node_round_reported(m, ns, ev) ==
    LET n == ns[ev.node]
    IN  IF ~m.resident THEN Rejected
        ELSE IF \/ ~HasNode(ns, ev)
                \/ is_terminal(n.status)
                \/ ev.data.attempt # n.retry_attempts
        THEN Plan(<<>>)
        ELSE Plan(<<NodeOp(ev.node, [n EXCEPT
               !.resident = with_report(@, ev),
               !.awaiting_input = NoInput])>>)

(* A new agent in the same worktree; the reported round is closed. *)
awakened(r, ev) ==
    [r EXCEPT !.last_round.closed_at = IF open_round(r) THEN ev.seq ELSE @,
              !.dormant_since = 0, !.expiry_attention_at = 0]

resumed_by(n, ev) ==
    LET d == ev.data
    IN  [n EXCEPT
           !.base_sha = IF d.base_sha = 0 THEN @ ELSE d.base_sha,
           !.agent_pid = d.agent_pid,
           !.evidence = worker_evidence_from_spawn_data(d, d.attempt),
           !.status = "pending", !.worker_exit = "none",
           !.first_death_at = 0, !.awaiting_input = NoInput,
           !.pending_merge = NoTxn, !.retained_display = NoDisplay,
           !.retention_unavailable = FALSE, !.retry_attempts = d.attempt,
           !.resident = awakened(@, ev)]

reduce_node_resumed(m, ns, ev) ==
    LET n == ns[ev.node]
    IN  IF ~m.resident THEN Rejected
        ELSE IF \/ ~HasNode(ns, ev)
                \/ is_terminal(n.status)
                \/ ev.data.attempt <= n.retry_attempts
        THEN Plan(<<>>)
        ELSE Plan(<<NodeOp(ev.node, resumed_by(n, ev))>>)

with_landing(r, ev) ==
    [r EXCEPT !.last_landing = [at |-> ev.seq,
                                integrated |-> ev.data.integrated,
                                round |-> r.last_round.round],
              !.expiry_attention_at = 0]

reduce_node_round_landed(m, ns, ev) ==
    LET n == ns[ev.node]
        d == ev.data
    IN  IF ~m.resident THEN Rejected
        ELSE IF ~HasNode(ns, ev) \/ is_terminal(n.status) THEN Plan(<<>>)
        ELSE Plan(<<NodeOp(ev.node, [n EXCEPT
               !.pending_merge = IF @.landing /\ @.op_id = d.op_id
                                 THEN NoTxn ELSE @,
               !.base_sha = d.integrated,
               !.resident = with_landing(@, ev)])>>)

reduce_node_resident_dormant(m, ns, ev) ==
    LET n == ns[ev.node]
    IN  IF ~m.resident THEN Rejected
        ELSE IF \/ ~HasNode(ns, ev)
                \/ is_terminal(n.status)
                \/ ~open_round(n.resident)
                \/ n.resident.dormant_since # 0
        THEN Plan(<<>>)
        ELSE Plan(<<NodeOp(ev.node, [n EXCEPT
               !.resident.dormant_since = ev.seq,
               !.resident.expiry_attention_at = 0])>>)

reduce_node_resident_attention(m, ns, ev) ==
    LET n == ns[ev.node]
    IN  IF ~m.resident THEN Rejected
        ELSE IF \/ ~HasNode(ns, ev)
                \/ is_terminal(n.status)
                \/ ~open_round(n.resident)
                \/ n.resident.expiry_attention_at # 0
        THEN Plan(<<>>)
        ELSE Plan(<<NodeOp(ev.node,
               [n EXCEPT !.resident.expiry_attention_at = ev.seq])>>)

-----------------------------------------------------------------------------
(* Caller-owned Pi sessions and the settlement intent *)
reduce_caller_settlement_intent(m, ns, ev) ==
    LET n == ns[ev.node]
        intent == [ev.data EXCEPT !.seq = ev.seq]
        existing == m.caller_settlement_intent
        after_failure == /\ m.status = "failed"
                         /\ n.status = "failed"
                         /\ m.node_count = 1
                         /\ ev.node = Root
                         /\ intent.operation \in {"merge", "discard"}
    IN  IF \/ ~has_manifest(m)
           \/ ~HasNode(ns, ev)
           \/ m.agent_owner # "caller"
           \/ intent.node # ev.node
           \/ intent.key # ev.key
           \/ ev.data.seq # 0
           \/ intent.generation # n.caller_pi_lifecycle.generation
        THEN Rejected
        ELSE IF existing # NoIntent
        THEN IF existing = intent THEN Plan(<<>>) ELSE Rejected
        ELSE IF is_terminal(m.status) /\ ~after_failure THEN Rejected
        ELSE Plan(<<ManifestOp(
               [m EXCEPT !.caller_settlement_intent = intent])>>)

reduce_caller_pi_session_bound(m, ns, ev) ==
    LET n == ns[ev.node]
        binding == ev.data
        reserved == n.caller_pi_lifecycle
        matches == IF reserved = NoPiLifecycle THEN binding.generation = 0
                   ELSE /\ reserved.session = binding.session
                        /\ reserved.generation = binding.generation
                        /\ reserved.path \in {0, binding.path}
                        /\ reserved.state \in {"reserved", "started"}
    IN  IF \/ ~has_manifest(m)
           \/ m.agent_owner # "caller"
           \/ ~HasNode(ns, ev)
           \/ binding.original_cwd # n.branch
        THEN Rejected
        ELSE IF n.caller_pi_session # NoPiSession
        THEN IF n.caller_pi_session = binding THEN Plan(<<>>) ELSE Rejected
        ELSE IF ~matches THEN Rejected
        ELSE Plan(<<NodeOp(ev.node, [n EXCEPT
               !.caller_pi_lifecycle.path =
                  IF reserved = NoPiLifecycle THEN @ ELSE binding.path,
               !.caller_pi_session = binding])>>)

(* The static and identity checks on a lifecycle fact. *)
lifecycle_fact_valid(n, fact) ==
    LET b == n.caller_pi_session
    IN  /\ fact.generation # 0
        /\ b # NoPiSession => fact.session = b.session /\ fact.path = b.path
        /\ fact.state = "reserved" => fact.path = 0
        /\ fact.state = "started" => fact.path # 0
        /\ \/ b # NoPiSession
           \/ fact.state = "reserved"
           \/ n.caller_pi_lifecycle.state = "reserved"
        /\ fact.reason = (fact.state \notin {"started", "reserved"})

lifecycle_transition_allowed(n, fact) ==
    LET old == n.caller_pi_lifecycle
        bound == n.caller_pi_session # NoPiSession
        new == fact.state
    IN  \/ /\ old = NoPiLifecycle
           /\ fact.generation = 1
           /\ new = IF bound THEN "started" ELSE "reserved"
        \/ /\ old.state = "started"
           /\ old.generation = fact.generation
           /\ new \in {"exited", "control_uncertain"}
        \/ /\ old.state = "reserved"
           /\ old.generation = fact.generation
           /\ old.session = fact.session
           /\ \/ old.path = fact.path
              \/ old.path = 0 /\ new = "started" /\ bound
           /\ \/ new \in {"launch_failed", "control_uncertain"}
              \/ new = "started" /\ bound
        \/ /\ old.state \in {"exited", "launch_failed"}
           /\ old.generation + 1 = fact.generation
           /\ new = "started"

reduce_caller_pi_lifecycle(m, ns, ev) ==
    LET n == ns[ev.node]
    IN  IF \/ ~has_manifest(m)
           \/ m.agent_owner # "caller"
           \/ ~HasNode(ns, ev)
        THEN Rejected
        ELSE IF ~lifecycle_fact_valid(n, ev.data) THEN Rejected
        ELSE IF n.caller_pi_lifecycle = ev.data THEN Plan(<<>>)
        ELSE IF is_terminal(m.status) THEN Rejected
        ELSE IF ~lifecycle_transition_allowed(n, ev.data) THEN Rejected
        ELSE Plan(<<NodeOp(ev.node,
               [n EXCEPT !.caller_pi_lifecycle = ev.data])>>)

-----------------------------------------------------------------------------
(* Dispatch.  Audit kinds and unknown kinds plan nothing. *)
reduce_event_to_ops(m, ns, lg, ev) ==
    LET k == ev.kind
    IN  CASE k = "run.created" -> reduce_run_created(m, ev)
          [] k = "run.status" -> reduce_run_status(m, lg, ev)
          [] k = "node.created" -> reduce_node_created(m, ns, ev)
          [] k = "node.status" -> reduce_node_status(ns, ev)
          [] k = "node.report" -> reduce_node_report(ns, ev)
          [] k = "node.retry" -> reduce_node_retry(ns, ev)
          [] k = "caller.pi.session_bound" ->
               reduce_caller_pi_session_bound(m, ns, ev)
          [] k = "caller.pi.lifecycle" ->
               reduce_caller_pi_lifecycle(m, ns, ev)
          [] k = "caller.settlement_intent" ->
               reduce_caller_settlement_intent(m, ns, ev)
          [] k = "worker.exited" -> reduce_worker_exited(ns, ev)
          [] k = "worker.evidence.archived" ->
               reduce_worker_evidence(ns, ev, "complete")
          [] k = "worker.evidence.failed" ->
               reduce_worker_evidence(ns, ev, "failed")
          [] k = "worker.display.retained" ->
               reduce_worker_display_retained(ns, ev)
          [] k = "worker.display.expired" ->
               reduce_worker_display_expired(ns, ev)
          [] k = "worker.display.unavailable" ->
               reduce_worker_display_unavailable(ns, ev)
          [] k = "node.death_observed" -> reduce_node_death_observed(ns, ev)
          [] k = "node.awaiting_input" -> reduce_node_awaiting_input(ns, ev)
          [] k = "node.input_resolved" -> reduce_node_input_resolved(ns, ev)
          [] k = "node.round_reported" ->
               reduce_node_round_reported(m, ns, ev)
          [] k = "node.resumed" -> reduce_node_resumed(m, ns, ev)
          [] k = "node.round_landed" -> reduce_node_round_landed(m, ns, ev)
          [] k = "node.resident_dormant" ->
               reduce_node_resident_dormant(m, ns, ev)
          [] k = "node.resident_attention" ->
               reduce_node_resident_attention(m, ns, ev)
          [] k = "merge.started" -> reduce_merge_started(m, ns, ev)
          [] k = "merge.aborted" -> reduce_merge_aborted(ns, ev)
          [] k = "child.spawned" -> reduce_child_spawned(ns, ev)
          [] k = "supervisor.attached" -> reduce_supervisor_attached(ns, ev)
          [] k = "supervisor.cursor_advanced" ->
               reduce_supervisor_cursor_advanced(ns, ev)
          [] OTHER -> Plan(<<>>)
-----------------------------------------------------------------------------

(* advance_applied_seq: recount the nodes and raise the watermark. *)
advance_applied_seq(m, ns, seq) ==
    IF has_manifest(m) /\ m.applied_seq < seq
    THEN [m EXCEPT !.applied_seq = seq, !.node_count = Cardinality(DOMAIN ns)]
    ELSE m

(* One event folded into the projections p = [manifest, nodes] without     *)
(* interruption; lg is the log the reducer may read.  An event that the    *)
(* reducer refuses leaves no trace.                                        *)
commit_op(p, op) == [manifest |-> write_manifest(p.manifest, op),
                     nodes |-> write_node(p.nodes, op)]

apply_event(lg, p, ev) ==
    LET q == reduce_event_to_ops(p.manifest, p.nodes, lg, ev)
        after == FoldLeft(commit_op, p, q.ops)
    IN  IF q.ok
        THEN [after EXCEPT !.manifest =
                advance_applied_seq(@, after.nodes, ev.seq)]
        ELSE p

(* The events of lg beyond the watermark of p, folded into p in order. *)
replay(lg, p) ==
    FoldLeft(LAMBDA q, ev : apply_event(lg, q, ev), p,
             SelectSeq(lg, LAMBDA ev : ev.seq > p.manifest.applied_seq))

NoProjections == [manifest |-> NoManifest, nodes |-> NoFiles]

-----------------------------------------------------------------------------
(* What the reducer promises of a single write, for the properties of the  *)
(* store and the proofs.                                                   *)
run_may_become(s, t) ==
    is_terminal(s) => t = s \/ (s = "failed" /\ t = "done")

node_may_become(u, v) ==
    /\ run_may_become(u.status, v.status)
    /\ u.status = "failed" /\ v.status = "done" =>
          report_is_confirmed_merge(v.last_report)

is_quiet(owner, v) ==
    is_terminal(v.status) =>
        /\ v.awaiting_input = NoInput
        /\ owner = "taskfleet" => v.pending_merge = NoTxn

=============================================================================
