--------------------------- MODULE ReducerProofs ----------------------------
(***************************************************************************)
(* What the reducer plans for one event, for every manifest, every set of  *)
(* node files and every well-formed event: the writes are values of the    *)
(* schema, none of them moves the watermark or replaces a settlement       *)
(* intent, none takes a run or node out of a terminal status except by the *)
(* recovery from failed to done, and none leaves a settled node with an    *)
(* open merge or question.                                                 *)
(***************************************************************************)
EXTENDS Reducer, TLAPS

(* A manifest write that keeps what a manifest must keep. *)
ManifestStep(m, x) ==
    /\ x \in Manifest
    /\ x.status # "absent"
    /\ x.applied_seq = m.applied_seq
    /\ x.agent_owner = m.agent_owner \/ m.agent_owner = "taskfleet"
    /\ run_may_become(m.status, x.status)
    /\ m.caller_settlement_intent # NoIntent =>
          x.caller_settlement_intent = m.caller_settlement_intent

(* A node write; a new node is live. *)
NodeStep(m, u, v) ==
    /\ v \in Node
    /\ node_may_become(u, v)
    /\ is_quiet(m.agent_owner, u) => is_quiet(m.agent_owner, v)

OpOK(m, ns, op) ==
    /\ op \in ProjectionOp
    /\ op.file = "manifest" => ManifestStep(m, op.manifest)
    /\ op.file = "node" =>
          IF op.node \in DOMAIN ns THEN NodeStep(m, ns[op.node], op.value)
          ELSE op.value.status \in Live

(* A plan is at most a node write followed by a manifest write. *)
OpsOK(m, ns, ops) ==
    \/ ops = <<>>
    \/ \E a : ops = <<a>> /\ OpOK(m, ns, a)
    \/ \E a, b : /\ ops = <<a, b>>
                 /\ a.file = "node"
                 /\ b.file = "manifest"
                 /\ OpOK(m, ns, a)
                 /\ OpOK(m, ns, b)

-----------------------------------------------------------------------------
(* The empty values of the schema have their types. *)
LEMMA EmptyValues ==
    /\ NoKey \in Key
    /\ NoReport \in Report
    /\ NoTxn \in MergeTxn
    /\ NoInput \in AwaitingInput
    /\ NoDisplay \in RetainedDisplay
    /\ NoEvidence \in WorkerEvidence
    /\ NoPiSession \in CallerPiSession
    /\ NoPiLifecycle \in CallerPiLifecycle
    /\ NoIntent \in Intent
    /\ NoResident \in ResidentState
    /\ NoManifest \in Manifest
<1>1. NoKey \in Key
  BY Zenon, RootAssumption DEF NoKey, Key, RunKey, Tag
<1>2. NoReport \in Report
  BY Zenon DEF NoReport, Report, Flag, Origin
<1>3. NoTxn \in MergeTxn
  BY Zenon, <1>1 DEF NoTxn, MergeTxn, NoAuthority, Authority
<1>4. NoInput \in AwaitingInput /\ NoDisplay \in RetainedDisplay
  BY Zenon DEF NoInput, AwaitingInput, NoDisplay, RetainedDisplay
<1>5. NoEvidence \in WorkerEvidence
  BY Zenon DEF NoEvidence, WorkerEvidence, EvidenceStatus
<1>6. NoPiSession \in CallerPiSession
  BY Zenon DEF NoPiSession, CallerPiSession
<1>7. NoPiLifecycle \in CallerPiLifecycle
  BY Zenon DEF NoPiLifecycle, CallerPiLifecycle, CallerPiState
<1>8. NoIntent \in Intent
  BY Zenon, <1>1, RootAssumption DEF NoIntent, Intent, Operation
<1>9. NoResident \in ResidentState
  BY Zenon DEF NoResident, ResidentState, NoRound, RoundReport, NoLanding,
         RoundLanding
<1>10. NoManifest \in Manifest
  BY Zenon, <1>8 DEF NoManifest, Manifest, Owner
<1> QED
  BY ZenonT(60), <1>1, <1>2, <1>3, <1>4, <1>5, <1>6, <1>7, <1>8, <1>9, <1>10

(* Plans with no write and with one manifest write. *)
LEMMA NoWrite ==
    ASSUME NEW m, NEW ns
    PROVE  OpsOK(m, ns, Plan(<<>>).ops) /\ OpsOK(m, ns, Rejected.ops)
BY Zenon DEF OpsOK, Plan, Rejected

(* A plan of one manifest write is sound if the write is. *)
LEMMA OneManifestWrite ==
    ASSUME NEW m, NEW ns, NEW x, ManifestStep(m, x)
    PROVE  OpsOK(m, ns, Plan(<<ManifestOp(x)>>).ops)
<1>1. OpOK(m, ns, ManifestOp(x))
  BY Zenon, RootAssumption DEF OpOK, ManifestOp, ManifestStep, ProjectionOp
<1> QED
  BY Zenon, <1>1 DEF OpsOK, Plan

(* The parts of an event, and the node it is about. *)
LEMMA EventParts ==
    ASSUME NEW ev \in Event
    PROVE  /\ ev.seq \in Nat
           /\ ev.kind \in Kind
           /\ ev.node \in NodeIds
           /\ ev.key \in Key
           /\ ev.data \in Payload
           /\ well_formed(ev.kind, ev.data)
BY Zenon DEF Event

(* The node an event names, where its file exists, has the type of a node. *)
LEMMA NodeOf ==
    ASSUME NEW ns, are_node_files(ns), NEW ev, HasNode(ns, ev)
    PROVE  ns[ev.node] \in Node
BY Zenon DEF are_node_files, HasNode

(* A write that keeps the status and opens nothing; a write to a live node *)
(* that stays live; and a write that settles a live node.                  *)
LEMMA KeepsStatus ==
    ASSUME NEW m, NEW u \in Node, NEW v \in Node, v.status = u.status,
           v.awaiting_input \in {u.awaiting_input, NoInput},
           v.pending_merge \in {u.pending_merge, NoTxn}
    PROVE  NodeStep(m, u, v)
BY Zenon DEF NodeStep, node_may_become, run_may_become, is_quiet, is_terminal,
       Terminal

(* A write that leaves a live node live may change anything else of it. *)
LEMMA StaysLive ==
    ASSUME NEW m, NEW u \in Node, NEW v \in Node,
           ~is_terminal(u.status), ~is_terminal(v.status)
    PROVE  NodeStep(m, u, v)
BY Zenon DEF NodeStep, node_may_become, run_may_become, is_quiet, is_terminal,
       Terminal

(* A write that settles a live node must close its question and transaction. *)
LEMMA Settles ==
    ASSUME NEW m, NEW u \in Node, NEW v \in Node,
           ~is_terminal(u.status),
           v.awaiting_input = NoInput, v.pending_merge = NoTxn
    PROVE  NodeStep(m, u, v)
BY Zenon DEF NodeStep, node_may_become, run_may_become, is_quiet, is_terminal,
       Terminal

(* What a fold starts from. *)
Folding(m, ns, ev) ==
    /\ m \in Manifest
    /\ has_manifest(m) \/ m = NoManifest
    /\ are_node_files(ns)
    /\ ev \in Event

(* A plan that writes at most the node of its event. *)
LEMMA NodePlan ==
    ASSUME NEW m, NEW ns, NEW ev, Folding(m, ns, ev), NEW ops, NEW v,
           ops \in {<<>>, <<NodeOp(ev.node, v)>>},
           ops # <<>> => HasNode(ns, ev) /\ NodeStep(m, ns[ev.node], v)
    PROVE  OpsOK(m, ns, ops)
<1>1. CASE ops = <<>>
  BY Zenon, <1>1 DEF OpsOK
<1>2. CASE ops # <<>>
  <2>1. OpOK(m, ns, NodeOp(ev.node, v))
    BY Zenon, <1>2, EventParts
       DEF Folding, OpOK, NodeOp, NodeStep, HasNode, ProjectionOp
  <2> QED
    BY Zenon, <1>2, <2>1 DEF OpsOK
<1> QED
  BY Zenon, <1>1, <1>2

(* The evidence a spawned worker starts with. *)
LEMMA SpawnEvidence ==
    ASSUME NEW d, NEW k \in Nat, d.session \in Nat
    PROVE  worker_evidence_from_spawn_data(d, k) \in WorkerEvidence
BY Zenon, EmptyValues DEF worker_evidence_from_spawn_data, WorkerEvidence,
                   EvidenceStatus

(* A respawn starts on a live node and leaves it live.                     *)
LEMMA NodeRetryOK ==
    ASSUME NEW m, NEW ns, NEW ev, Folding(m, ns, ev),
           ev.kind = "node.retry"
    PROVE  OpsOK(m, ns, reduce_node_retry(ns, ev).ops)
<1> DEFINE ops == reduce_node_retry(ns, ev).ops
           n == ns[ev.node]
           v == respawned(n, ev.data)
<1>1. ev.data \in NodeRetryData
  BY Zenon, EventParts DEF Folding, well_formed
<1>2. ops \in {<<>>, <<NodeOp(ev.node, v)>>}
  BY Zenon DEF reduce_node_retry, Plan, Rejected
<1>3. ASSUME ops # <<>> PROVE HasNode(ns, ev) /\ NodeStep(m, n, v)
  <2>1. HasNode(ns, ev) /\ ~is_terminal(n.status)
    BY Zenon, <1>3 DEF reduce_node_retry, Plan, Rejected
  <2>2. n \in Node
    BY Zenon, <2>1, NodeOf DEF Folding
  <2>3. worker_evidence_from_spawn_data(ev.data, ev.data.attempt)
            \in WorkerEvidence
    BY ZenonT(60), <1>1, <2>1, <2>2, SpawnEvidence DEF NodeRetryData
  <2>4. (IF ev.data.attempt = 0 THEN n.retry_attempts + 1
         ELSE ev.data.attempt) \in Nat
    BY SMTT(30), <1>1, <2>1, <2>2, <2>3 DEF Node, NodeRetryData
  <2>5. v \in Node
    BY ZenonT(60), <1>1, <2>1, <2>2, <2>3, <2>4, EmptyValues
       DEF respawned, Node, NodeRetryData, Status, Live, WorkerExit
  <2>6. ~is_terminal(v.status)
    BY ZenonT(60), <1>1, <2>1, <2>2, <2>3, <2>4, <2>5
       DEF respawned, Node, is_terminal, Terminal
  <2> QED
    BY ZenonT(60), <2>1, <2>2, <2>3, <2>4, <2>5, <2>6, StaysLive 
<1> HIDE DEF v, ops, n
<1>4. OpsOK(m, ns, ops)
  BY SMTT(60), <1>2, <1>3, NodePlan DEF n
<1> QED
  BY Zenon, <1>4 DEF ops

(* A status fact moves a live node; a terminal one settles it.             *)
LEMMA NodeStatusOK ==
    ASSUME NEW m, NEW ns, NEW ev, Folding(m, ns, ev),
           ev.kind = "node.status"
    PROVE  OpsOK(m, ns, reduce_node_status(ns, ev).ops)
<1> DEFINE ops == reduce_node_status(ns, ev).ops
           n == ns[ev.node]
           v == with_status(n, ev.data.status)
<1>1. ev.data \in NodeStatusData
  BY Zenon, EventParts DEF Folding, well_formed
<1>2. ops \in {<<>>, <<NodeOp(ev.node, v)>>}
  BY Zenon DEF reduce_node_status, Plan, Rejected
<1>3. ASSUME ops # <<>> PROVE HasNode(ns, ev) /\ NodeStep(m, n, v)
  <2>1. HasNode(ns, ev) /\ ~is_terminal(n.status)
    BY Zenon, <1>3 DEF reduce_node_status, Plan, Rejected
  <2>2. n \in Node
    BY Zenon, <2>1, NodeOf DEF Folding
  <2>3. v \in Node
    BY ZenonT(60), <1>1, <2>1, <2>2, EmptyValues
       DEF with_status, Node, NodeStatusData
  <2>4. is_terminal(v.status) =>
          v.awaiting_input = NoInput /\ v.pending_merge = NoTxn
    BY ZenonT(60), <1>1, <2>1, <2>2, <2>3 DEF with_status, Node
  <2> QED
    BY ZenonT(60), <2>1, <2>2, <2>3, <2>4
       DEF NodeStep, node_may_become, run_may_become, is_quiet, is_terminal,
           Terminal
<1> HIDE DEF v, ops, n
<1>4. OpsOK(m, ns, ops)
  BY SMTT(60), <1>2, <1>3, NodePlan DEF n
<1> QED
  BY Zenon, <1>4 DEF ops

(* A told exit of the current attempt closes its question.                 *)
LEMMA WorkerExitedOK ==
    ASSUME NEW m, NEW ns, NEW ev, Folding(m, ns, ev),
           ev.kind = "worker.exited"
    PROVE  OpsOK(m, ns, reduce_worker_exited(ns, ev).ops)
<1> DEFINE ops == reduce_worker_exited(ns, ev).ops
           n == ns[ev.node]
           v == [n EXCEPT !.worker_exit = IF ev.data.exit_code = "zero" THEN "clean"
                                          ELSE "failing",
                          !.awaiting_input = NoInput]
<1>1. ev.data \in WorkerExitedData
  BY Zenon, EventParts DEF Folding, well_formed
<1>2. ops \in {<<>>, <<NodeOp(ev.node, v)>>}
  BY Zenon DEF reduce_worker_exited, Plan, Rejected
<1>3. ASSUME ops # <<>> PROVE HasNode(ns, ev) /\ NodeStep(m, n, v)
  <2>1. HasNode(ns, ev)
    BY Zenon, <1>3 DEF reduce_worker_exited, Plan, Rejected
  <2>2. n \in Node
    BY Zenon, <2>1, NodeOf DEF Folding
  <2>3. /\ v \in Node
       /\ v.status = n.status
       /\ v.awaiting_input \in {n.awaiting_input, NoInput}
       /\ v.pending_merge \in {n.pending_merge, NoTxn}
    BY ZenonT(60), <1>1, <2>1, <2>2, EmptyValues DEF Node, WorkerExit
  <2> QED
    BY ZenonT(60), <2>1, <2>2, <2>3, KeepsStatus
<1> HIDE DEF v, ops, n
<1>4. OpsOK(m, ns, ops)
  BY SMTT(60), <1>2, <1>3, NodePlan DEF n
<1> QED
  BY Zenon, <1>4 DEF ops

(* Archiving changes the evidence status alone.                            *)
LEMMA WorkerEvidenceOK ==
    ASSUME NEW m, NEW ns, NEW ev, Folding(m, ns, ev),
           ev.kind \in {"worker.evidence.archived", "worker.evidence.failed"},
           NEW s \in EvidenceStatus
    PROVE  OpsOK(m, ns, reduce_worker_evidence(ns, ev, s).ops)
<1> DEFINE ops == reduce_worker_evidence(ns, ev, s).ops
           n == ns[ev.node]
           v == [n EXCEPT !.evidence.status = s]
<1>1. ev.data \in EvidenceData
  BY Zenon, EventParts DEF Folding, well_formed
<1>2. ops \in {<<>>, <<NodeOp(ev.node, v)>>}
  BY Zenon DEF reduce_worker_evidence, Plan, Rejected
<1>3. ASSUME ops # <<>> PROVE HasNode(ns, ev) /\ NodeStep(m, n, v)
  <2>1. HasNode(ns, ev)
    BY Zenon, <1>3 DEF reduce_worker_evidence, Plan, Rejected
  <2>2. n \in Node
    BY Zenon, <2>1, NodeOf DEF Folding
  <2>3. [n.evidence EXCEPT !.status = s] \in WorkerEvidence
    BY ZenonT(60), <1>1, <2>1, <2>2 DEF Node, WorkerEvidence
  <2>4. /\ v \in Node
       /\ v.status = n.status
       /\ v.awaiting_input \in {n.awaiting_input, NoInput}
       /\ v.pending_merge \in {n.pending_merge, NoTxn}
    BY ZenonT(60), <1>1, <2>1, <2>2, <2>3 DEF Node
  <2> QED
    BY ZenonT(60), <2>1, <2>2, <2>3, <2>4, KeepsStatus
<1> HIDE DEF v, ops, n
<1>4. OpsOK(m, ns, ops)
  BY SMTT(60), <1>2, <1>3, NodePlan DEF n
<1> QED
  BY Zenon, <1>4 DEF ops

(* A retained display is recorded.                                         *)
LEMMA DisplayRetainedOK ==
    ASSUME NEW m, NEW ns, NEW ev, Folding(m, ns, ev),
           ev.kind = "worker.display.retained"
    PROVE  OpsOK(m, ns, reduce_worker_display_retained(ns, ev).ops)
<1> DEFINE ops == reduce_worker_display_retained(ns, ev).ops
           n == ns[ev.node]
           v == [n EXCEPT !.retained_display =
                   [marker |-> ev.data.marker, attempt |-> ev.data.attempt,
                    expired_at |-> 0]]
<1>1. ev.data \in DisplayData
  BY Zenon, EventParts DEF Folding, well_formed
<1>2. ops \in {<<>>, <<NodeOp(ev.node, v)>>}
  BY Zenon DEF reduce_worker_display_retained, Plan, Rejected
<1>3. ASSUME ops # <<>> PROVE HasNode(ns, ev) /\ NodeStep(m, n, v)
  <2>1. HasNode(ns, ev)
    BY Zenon, <1>3 DEF reduce_worker_display_retained, Plan, Rejected
  <2>2. n \in Node
    BY Zenon, <2>1, NodeOf DEF Folding
  <2>3. [marker |-> ev.data.marker, attempt |-> ev.data.attempt,
         expired_at |-> 0] \in RetainedDisplay
    BY ZenonT(60), <1>1, <2>1, <2>2 DEF DisplayData, RetainedDisplay
  <2>4. /\ v \in Node
       /\ v.status = n.status
       /\ v.awaiting_input \in {n.awaiting_input, NoInput}
       /\ v.pending_merge \in {n.pending_merge, NoTxn}
    BY ZenonT(60), <1>1, <2>1, <2>2, <2>3 DEF Node
  <2> QED
    BY ZenonT(60), <2>1, <2>2, <2>3, <2>4, KeepsStatus
<1> HIDE DEF v, ops, n
<1>4. OpsOK(m, ns, ops)
  BY SMTT(60), <1>2, <1>3, NodePlan DEF n
<1> QED
  BY Zenon, <1>4 DEF ops

(* A retained display expires.                                             *)
LEMMA DisplayExpiredOK ==
    ASSUME NEW m, NEW ns, NEW ev, Folding(m, ns, ev),
           ev.kind = "worker.display.expired"
    PROVE  OpsOK(m, ns, reduce_worker_display_expired(ns, ev).ops)
<1> DEFINE ops == reduce_worker_display_expired(ns, ev).ops
           n == ns[ev.node]
           v == [n EXCEPT !.retained_display.expired_at = ev.seq]
<1>1. ev.seq \in Nat /\ ev.data \in DisplayData
  BY Zenon, EventParts DEF Folding, well_formed
<1>2. ops \in {<<>>, <<NodeOp(ev.node, v)>>}
  BY Zenon DEF reduce_worker_display_expired, Plan, Rejected
<1>3. ASSUME ops # <<>> PROVE HasNode(ns, ev) /\ NodeStep(m, n, v)
  <2>1. HasNode(ns, ev)
    BY Zenon, <1>3 DEF reduce_worker_display_expired, Plan, Rejected
  <2>2. n \in Node
    BY Zenon, <2>1, NodeOf DEF Folding
  <2>3. [n.retained_display EXCEPT !.expired_at = ev.seq]
            \in RetainedDisplay
    BY ZenonT(60), <1>1, <2>1, <2>2 DEF Node, RetainedDisplay
  <2>4. /\ v \in Node
       /\ v.status = n.status
       /\ v.awaiting_input \in {n.awaiting_input, NoInput}
       /\ v.pending_merge \in {n.pending_merge, NoTxn}
    BY ZenonT(60), <1>1, <2>1, <2>2, <2>3 DEF Node
  <2> QED
    BY ZenonT(60), <2>1, <2>2, <2>3, <2>4, KeepsStatus
<1> HIDE DEF v, ops, n
<1>4. OpsOK(m, ns, ops)
  BY SMTT(60), <1>2, <1>3, NodePlan DEF n
<1> QED
  BY Zenon, <1>4 DEF ops

(* Retention is not available.                                             *)
LEMMA DisplayUnavailableOK ==
    ASSUME NEW m, NEW ns, NEW ev, Folding(m, ns, ev),
           ev.kind = "worker.display.unavailable"
    PROVE  OpsOK(m, ns, reduce_worker_display_unavailable(ns, ev).ops)
<1> DEFINE ops == reduce_worker_display_unavailable(ns, ev).ops
           n == ns[ev.node]
           v == [n EXCEPT !.retention_unavailable = TRUE]
<1>1. ev.data \in DisplayData
  BY Zenon, EventParts DEF Folding, well_formed
<1>2. ops \in {<<>>, <<NodeOp(ev.node, v)>>}
  BY Zenon DEF reduce_worker_display_unavailable, Plan, Rejected
<1>3. ASSUME ops # <<>> PROVE HasNode(ns, ev) /\ NodeStep(m, n, v)
  <2>1. HasNode(ns, ev)
    BY Zenon, <1>3 DEF reduce_worker_display_unavailable, Plan, Rejected
  <2>2. n \in Node
    BY Zenon, <2>1, NodeOf DEF Folding
  <2>3. /\ v \in Node
       /\ v.status = n.status
       /\ v.awaiting_input \in {n.awaiting_input, NoInput}
       /\ v.pending_merge \in {n.pending_merge, NoTxn}
    BY ZenonT(60), <1>1, <2>1, <2>2 DEF Node
  <2> QED
    BY ZenonT(60), <2>1, <2>2, <2>3, KeepsStatus
<1> HIDE DEF v, ops, n
<1>4. OpsOK(m, ns, ops)
  BY SMTT(60), <1>2, <1>3, NodePlan DEF n
<1> QED
  BY Zenon, <1>4 DEF ops

(* The first observed death is dated.                                      *)
LEMMA DeathObservedOK ==
    ASSUME NEW m, NEW ns, NEW ev, Folding(m, ns, ev),
           ev.kind = "node.death_observed"
    PROVE  OpsOK(m, ns, reduce_node_death_observed(ns, ev).ops)
<1> DEFINE ops == reduce_node_death_observed(ns, ev).ops
           n == ns[ev.node]
           v == [n EXCEPT !.first_death_at = ev.seq]
<1>1. ev.seq \in Nat
  BY Zenon, EventParts DEF Folding, well_formed
<1>2. ops \in {<<>>, <<NodeOp(ev.node, v)>>}
  BY Zenon DEF reduce_node_death_observed, Plan, Rejected
<1>3. ASSUME ops # <<>> PROVE HasNode(ns, ev) /\ NodeStep(m, n, v)
  <2>1. HasNode(ns, ev)
    BY Zenon, <1>3 DEF reduce_node_death_observed, Plan, Rejected
  <2>2. n \in Node
    BY Zenon, <2>1, NodeOf DEF Folding
  <2>3. /\ v \in Node
       /\ v.status = n.status
       /\ v.awaiting_input \in {n.awaiting_input, NoInput}
       /\ v.pending_merge \in {n.pending_merge, NoTxn}
    BY Zenon, <1>1, <2>1, <2>2 DEF Node
  <2> QED
    BY ZenonT(60), <2>1, <2>2, <2>3, KeepsStatus
<1> HIDE DEF v, ops, n
<1>4. OpsOK(m, ns, ops)
  BY SMTT(60), <1>2, <1>3, NodePlan DEF n
<1> QED
  BY Zenon, <1>4 DEF ops

(* A question is answered.                                                 *)
LEMMA InputResolvedOK ==
    ASSUME NEW m, NEW ns, NEW ev, Folding(m, ns, ev),
           ev.kind = "node.input_resolved"
    PROVE  OpsOK(m, ns, reduce_node_input_resolved(ns, ev).ops)
<1> DEFINE ops == reduce_node_input_resolved(ns, ev).ops
           n == ns[ev.node]
           v == [n EXCEPT !.awaiting_input = NoInput]
<1>1. ev.data \in ResolvedData
  BY Zenon, EventParts DEF Folding, well_formed
<1>2. ops \in {<<>>, <<NodeOp(ev.node, v)>>}
  BY Zenon DEF reduce_node_input_resolved, Plan, Rejected
<1>3. ASSUME ops # <<>> PROVE HasNode(ns, ev) /\ NodeStep(m, n, v)
  <2>1. HasNode(ns, ev)
    BY Zenon, <1>3 DEF reduce_node_input_resolved, Plan, Rejected
  <2>2. n \in Node
    BY Zenon, <2>1, NodeOf DEF Folding
  <2>3. /\ v \in Node
       /\ v.status = n.status
       /\ v.awaiting_input \in {n.awaiting_input, NoInput}
       /\ v.pending_merge \in {n.pending_merge, NoTxn}
    BY ZenonT(60), <1>1, <2>1, <2>2, EmptyValues DEF Node
  <2> QED
    BY ZenonT(60), <2>1, <2>2, <2>3, KeepsStatus
<1> HIDE DEF v, ops, n
<1>4. OpsOK(m, ns, ops)
  BY SMTT(60), <1>2, <1>3, NodePlan DEF n
<1> QED
  BY Zenon, <1>4 DEF ops

(* A merge transaction is dropped.                                         *)
LEMMA MergeAbortedOK ==
    ASSUME NEW m, NEW ns, NEW ev, Folding(m, ns, ev),
           ev.kind = "merge.aborted"
    PROVE  OpsOK(m, ns, reduce_merge_aborted(ns, ev).ops)
<1> DEFINE ops == reduce_merge_aborted(ns, ev).ops
           n == ns[ev.node]
           v == [n EXCEPT !.pending_merge = NoTxn]
<1>1. ev.data \in AbortedData
  BY Zenon, EventParts DEF Folding, well_formed
<1>2. ops \in {<<>>, <<NodeOp(ev.node, v)>>}
  BY Zenon DEF reduce_merge_aborted, Plan, Rejected
<1>3. ASSUME ops # <<>> PROVE HasNode(ns, ev) /\ NodeStep(m, n, v)
  <2>1. HasNode(ns, ev)
    BY Zenon, <1>3 DEF reduce_merge_aborted, Plan, Rejected
  <2>2. n \in Node
    BY Zenon, <2>1, NodeOf DEF Folding
  <2>3. /\ v \in Node
       /\ v.status = n.status
       /\ v.awaiting_input \in {n.awaiting_input, NoInput}
       /\ v.pending_merge \in {n.pending_merge, NoTxn}
    BY ZenonT(60), <1>1, <2>1, <2>2, EmptyValues DEF Node
  <2> QED
    BY ZenonT(60), <2>1, <2>2, <2>3, KeepsStatus
<1> HIDE DEF v, ops, n
<1>4. OpsOK(m, ns, ops)
  BY SMTT(60), <1>2, <1>3, NodePlan DEF n
<1> QED
  BY Zenon, <1>4 DEF ops

(* A child run is linked.                                                  *)
LEMMA ChildSpawnedOK ==
    ASSUME NEW m, NEW ns, NEW ev, Folding(m, ns, ev),
           ev.kind = "child.spawned"
    PROVE  OpsOK(m, ns, reduce_child_spawned(ns, ev).ops)
<1> DEFINE ops == reduce_child_spawned(ns, ev).ops
           n == ns[ev.node]
           v == [n EXCEPT !.children = @ \cup {ev.data.child}]
<1>1. ev.data \in ChildData
  BY Zenon, EventParts DEF Folding, well_formed
<1>2. ops \in {<<>>, <<NodeOp(ev.node, v)>>}
  BY Zenon DEF reduce_child_spawned, Plan, Rejected
<1>3. ASSUME ops # <<>> PROVE HasNode(ns, ev) /\ NodeStep(m, n, v)
  <2>1. HasNode(ns, ev)
    BY Zenon, <1>3 DEF reduce_child_spawned, Plan, Rejected
  <2>2. n \in Node
    BY Zenon, <2>1, NodeOf DEF Folding
  <2>3. n.children \cup {ev.data.child} \in SUBSET Children
    BY ZenonT(60), <1>1, <2>1, <2>2 DEF Node, ChildData
  <2>4. /\ v \in Node
       /\ v.status = n.status
       /\ v.awaiting_input \in {n.awaiting_input, NoInput}
       /\ v.pending_merge \in {n.pending_merge, NoTxn}
    BY ZenonT(60), <1>1, <2>1, <2>2, <2>3 DEF Node
  <2> QED
    BY ZenonT(60), <2>1, <2>2, <2>3, <2>4, KeepsStatus
<1> HIDE DEF v, ops, n
<1>4. OpsOK(m, ns, ops)
  BY SMTT(60), <1>2, <1>3, NodePlan DEF n
<1> QED
  BY Zenon, <1>4 DEF ops

(* A supervisor attaches.                                                  *)
LEMMA AttachedOK ==
    ASSUME NEW m, NEW ns, NEW ev, Folding(m, ns, ev),
           ev.kind = "supervisor.attached"
    PROVE  OpsOK(m, ns, reduce_supervisor_attached(ns, ev).ops)
<1> DEFINE ops == reduce_supervisor_attached(ns, ev).ops
           n == ns[ev.node]
           v == [n EXCEPT !.supervisor_pid = ev.data.pid]
<1>1. ev.data \in AttachedData
  BY Zenon, EventParts DEF Folding, well_formed
<1>2. ops \in {<<>>, <<NodeOp(ev.node, v)>>}
  BY Zenon DEF reduce_supervisor_attached, Plan, Rejected
<1>3. ASSUME ops # <<>> PROVE HasNode(ns, ev) /\ NodeStep(m, n, v)
  <2>1. HasNode(ns, ev)
    BY Zenon, <1>3 DEF reduce_supervisor_attached, Plan, Rejected
  <2>2. n \in Node
    BY Zenon, <2>1, NodeOf DEF Folding
  <2>3. /\ v \in Node
       /\ v.status = n.status
       /\ v.awaiting_input \in {n.awaiting_input, NoInput}
       /\ v.pending_merge \in {n.pending_merge, NoTxn}
    BY ZenonT(60), <1>1, <2>1, <2>2 DEF Node, AttachedData
  <2> QED
    BY ZenonT(60), <2>1, <2>2, <2>3, KeepsStatus
<1> HIDE DEF v, ops, n
<1>4. OpsOK(m, ns, ops)
  BY SMTT(60), <1>2, <1>3, NodePlan DEF n
<1> QED
  BY Zenon, <1>4 DEF ops

(* A cursor advances.                                                      *)
LEMMA CursorOK ==
    ASSUME NEW m, NEW ns, NEW ev, Folding(m, ns, ev),
           ev.kind = "supervisor.cursor_advanced"
    PROVE  OpsOK(m, ns, reduce_supervisor_cursor_advanced(ns, ev).ops)
<1> DEFINE ops == reduce_supervisor_cursor_advanced(ns, ev).ops
           n == ns[ev.node]
           v == [n EXCEPT !.cursor[ev.data.child] = ev.data.report_seq]
<1>1. ev.data \in CursorData
  BY Zenon, EventParts DEF Folding, well_formed
<1>2. ops \in {<<>>, <<NodeOp(ev.node, v)>>}
  BY Zenon DEF reduce_supervisor_cursor_advanced, Plan, Rejected
<1>3. ASSUME ops # <<>> PROVE HasNode(ns, ev) /\ NodeStep(m, n, v)
  <2>1. HasNode(ns, ev)
    BY Zenon, <1>3 DEF reduce_supervisor_cursor_advanced, Plan, Rejected
  <2>2. n \in Node
    BY Zenon, <2>1, NodeOf DEF Folding
  <2>3. [n.cursor EXCEPT ![ev.data.child] = ev.data.report_seq]
            \in [Children -> Nat]
    BY ZenonT(60), <1>1, <2>1, <2>2 DEF Node, CursorData
  <2>4. /\ v \in Node
       /\ v.status = n.status
       /\ v.awaiting_input \in {n.awaiting_input, NoInput}
       /\ v.pending_merge \in {n.pending_merge, NoTxn}
    BY ZenonT(60), <1>1, <2>1, <2>2, <2>3 DEF Node
  <2> QED
    BY ZenonT(60), <2>1, <2>2, <2>3, <2>4, KeepsStatus
<1> HIDE DEF v, ops, n
<1>4. OpsOK(m, ns, ops)
  BY SMTT(60), <1>2, <1>3, NodePlan DEF n
<1> QED
  BY Zenon, <1>4 DEF ops

(* A round report amends or opens a round of a live node.                  *)
LEMMA RoundReportedOK ==
    ASSUME NEW m, NEW ns, NEW ev, Folding(m, ns, ev),
           ev.kind = "node.round_reported"
    PROVE  OpsOK(m, ns, reduce_node_round_reported(m, ns, ev).ops)
<1> DEFINE ops == reduce_node_round_reported(m, ns, ev).ops
           n == ns[ev.node]
           v == [n EXCEPT !.resident = with_report(@, ev),
                          !.awaiting_input = NoInput]
<1>1. ev.seq \in Nat /\ ev.data \in RoundData
  BY Zenon, EventParts DEF Folding, well_formed
<1>2. ops \in {<<>>, <<NodeOp(ev.node, v)>>}
  BY Zenon DEF reduce_node_round_reported, Plan, Rejected
<1>3. ASSUME ops # <<>> PROVE HasNode(ns, ev) /\ NodeStep(m, n, v)
  <2>1. HasNode(ns, ev)
    BY Zenon, <1>3 DEF reduce_node_round_reported, Plan, Rejected
  <2>2. n \in Node
    BY Zenon, <2>1, NodeOf DEF Folding
  <2>3. n.resident \in ResidentState
    BY ZenonT(60), <1>1, <2>1, <2>2 DEF Node
  <2>4. [n.resident EXCEPT !.last_round.event_seq = ev.seq]
            \in ResidentState
    BY ZenonT(60), <1>1, <2>1, <2>2, <2>3 DEF ResidentState, RoundReport
  <2>5. [round |-> n.resident.rounds_reported + 1,
         attempt |-> ev.data.attempt, event_seq |-> ev.seq,
         closed_at |-> 0] \in RoundReport
    BY SMTT(30), <1>1, <2>1, <2>2, <2>3, <2>4
       DEF ResidentState, RoundReport, RoundData
  <2>6. n.resident.rounds_reported + 1 \in Nat
    BY SMTT(30), <1>1, <2>1, <2>2, <2>3, <2>4, <2>5 DEF ResidentState
  <2>7. [n.resident EXCEPT
          !.rounds_reported = @ + 1,
          !.last_round = [round |-> n.resident.rounds_reported + 1,
                          attempt |-> ev.data.attempt,
                          event_seq |-> ev.seq, closed_at |-> 0],
          !.expiry_attention_at = 0] \in ResidentState
    BY ZenonT(60), <1>1, <2>1, <2>2, <2>3, <2>4, <2>5, <2>6 DEF ResidentState
  <2>8. with_report(n.resident, ev) \in ResidentState
    BY ZenonT(60), <1>1, <2>1, <2>2, <2>3, <2>4, <2>5, <2>6, <2>7 DEF with_report
  <2>9. /\ v \in Node
       /\ v.status = n.status
       /\ v.awaiting_input \in {n.awaiting_input, NoInput}
       /\ v.pending_merge \in {n.pending_merge, NoTxn}
    BY ZenonT(60), <1>1, <2>1, <2>2, <2>3, <2>4, <2>5, <2>6, <2>7, <2>8,
       EmptyValues
       DEF Node
  <2> QED
    BY ZenonT(60), <2>1, <2>2, <2>3, <2>4, <2>5, <2>6, <2>7, <2>8, <2>9,
       KeepsStatus
<1> HIDE DEF v, ops, n
<1>4. OpsOK(m, ns, ops)
  BY SMTT(60), <1>2, <1>3, NodePlan DEF n
<1> QED
  BY Zenon, <1>4 DEF ops

(* A resume starts on a live node and leaves it live.                      *)
LEMMA ResumedOK ==
    ASSUME NEW m, NEW ns, NEW ev, Folding(m, ns, ev),
           ev.kind = "node.resumed"
    PROVE  OpsOK(m, ns, reduce_node_resumed(m, ns, ev).ops)
<1> DEFINE ops == reduce_node_resumed(m, ns, ev).ops
           n == ns[ev.node]
           v == resumed_by(n, ev)
<1>1. ev.seq \in Nat /\ ev.data \in ResumedData
  BY Zenon, EventParts DEF Folding, well_formed
<1>2. ops \in {<<>>, <<NodeOp(ev.node, v)>>}
  BY Zenon DEF reduce_node_resumed, Plan, Rejected
<1>3. ASSUME ops # <<>> PROVE HasNode(ns, ev) /\ NodeStep(m, n, v)
  <2>1. HasNode(ns, ev) /\ ~is_terminal(n.status)
    BY Zenon, <1>3 DEF reduce_node_resumed, Plan, Rejected
  <2>2. n \in Node
    BY ZenonT(60), <2>1, NodeOf DEF Folding
  <2>3. worker_evidence_from_spawn_data(ev.data, ev.data.attempt)
            \in WorkerEvidence
    BY ZenonT(60), <1>1, <2>1, <2>2, SpawnEvidence DEF ResumedData
  <2>4. awakened(n.resident, ev) \in ResidentState
    BY ZenonT(60), <1>1, <2>1, <2>2, <2>3
       DEF awakened, Node, ResidentState, RoundReport
  <2>5. (IF ev.data.base_sha = 0 THEN n.base_sha ELSE ev.data.base_sha)
            \in Nat
    BY ZenonT(60), <1>1, <2>1, <2>2, <2>3, <2>4 DEF Node, ResumedData
  <2>6. v \in Node
    BY ZenonT(60), <1>1, <2>1, <2>2, <2>3, <2>4, <2>5, EmptyValues
       DEF resumed_by, Node, ResumedData, Status, Live, WorkerExit
  <2>7. ~is_terminal(v.status)
    BY ZenonT(60), <1>1, <2>1, <2>2, <2>3, <2>4, <2>5, <2>6
       DEF resumed_by, Node, is_terminal, Terminal
  <2> QED
    BY ZenonT(60), <2>1, <2>2, <2>3, <2>4, <2>5, <2>6, <2>7, StaysLive 
<1> HIDE DEF v, ops, n
<1>4. OpsOK(m, ns, ops)
  BY SMTT(60), <1>2, <1>3, NodePlan DEF n
<1> QED
  BY Zenon, <1>4 DEF ops

(* A landing completes its own transaction.                                *)
LEMMA RoundLandedOK ==
    ASSUME NEW m, NEW ns, NEW ev, Folding(m, ns, ev),
           ev.kind = "node.round_landed"
    PROVE  OpsOK(m, ns, reduce_node_round_landed(m, ns, ev).ops)
<1> DEFINE ops == reduce_node_round_landed(m, ns, ev).ops
           n == ns[ev.node]
           v == [n EXCEPT
                   !.pending_merge = IF @.landing /\ @.op_id = ev.data.op_id
                                     THEN NoTxn ELSE @,
                   !.base_sha = ev.data.integrated,
                   !.resident = with_landing(@, ev)]
<1>1. ev.seq \in Nat /\ ev.data \in LandedData
  BY Zenon, EventParts DEF Folding, well_formed
<1>2. ops \in {<<>>, <<NodeOp(ev.node, v)>>}
  BY Zenon DEF reduce_node_round_landed, Plan, Rejected
<1>3. ASSUME ops # <<>> PROVE HasNode(ns, ev) /\ NodeStep(m, n, v)
  <2>1. HasNode(ns, ev)
    BY Zenon, <1>3 DEF reduce_node_round_landed, Plan, Rejected
  <2>2. n \in Node
    BY Zenon, <2>1, NodeOf DEF Folding
  <2>3. with_landing(n.resident, ev) \in ResidentState
    BY ZenonT(60), <1>1, <2>1, <2>2
       DEF with_landing, Node, ResidentState, RoundReport, RoundLanding,
           LandedData
  <2>4. /\ v \in Node
       /\ v.status = n.status
       /\ v.awaiting_input \in {n.awaiting_input, NoInput}
       /\ v.pending_merge \in {n.pending_merge, NoTxn}
    BY ZenonT(60), <1>1, <2>1, <2>2, <2>3, EmptyValues DEF Node, LandedData
  <2> QED
    BY ZenonT(60), <2>1, <2>2, <2>3, <2>4, KeepsStatus
<1> HIDE DEF v, ops, n
<1>4. OpsOK(m, ns, ops)
  BY SMTT(60), <1>2, <1>3, NodePlan DEF n
<1> QED
  BY Zenon, <1>4 DEF ops

(* A resident node falls dormant.                                          *)
LEMMA DormantOK ==
    ASSUME NEW m, NEW ns, NEW ev, Folding(m, ns, ev),
           ev.kind = "node.resident_dormant"
    PROVE  OpsOK(m, ns, reduce_node_resident_dormant(m, ns, ev).ops)
<1> DEFINE ops == reduce_node_resident_dormant(m, ns, ev).ops
           n == ns[ev.node]
           v == [n EXCEPT !.resident.dormant_since = ev.seq,
                          !.resident.expiry_attention_at = 0]
<1>1. ev.seq \in Nat
  BY Zenon, EventParts DEF Folding, well_formed
<1>2. ops \in {<<>>, <<NodeOp(ev.node, v)>>}
  BY Zenon DEF reduce_node_resident_dormant, Plan, Rejected
<1>3. ASSUME ops # <<>> PROVE HasNode(ns, ev) /\ NodeStep(m, n, v)
  <2>1. HasNode(ns, ev)
    BY Zenon, <1>3 DEF reduce_node_resident_dormant, Plan, Rejected
  <2>2. n \in Node
    BY Zenon, <2>1, NodeOf DEF Folding
  <2>3. [n.resident EXCEPT !.dormant_since = ev.seq,
                           !.expiry_attention_at = 0] \in ResidentState
    BY ZenonT(60), <1>1, <2>1, <2>2 DEF Node, ResidentState
  <2>4. /\ v \in Node
       /\ v.status = n.status
       /\ v.awaiting_input \in {n.awaiting_input, NoInput}
       /\ v.pending_merge \in {n.pending_merge, NoTxn}
    BY ZenonT(60), <1>1, <2>1, <2>2, <2>3 DEF Node
  <2> QED
    BY ZenonT(60), <2>1, <2>2, <2>3, <2>4, KeepsStatus
<1> HIDE DEF v, ops, n
<1>4. OpsOK(m, ns, ops)
  BY SMTT(60), <1>2, <1>3, NodePlan DEF n
<1> QED
  BY Zenon, <1>4 DEF ops

(* A resident node asks for attention.                                     *)
LEMMA AttentionOK ==
    ASSUME NEW m, NEW ns, NEW ev, Folding(m, ns, ev),
           ev.kind = "node.resident_attention"
    PROVE  OpsOK(m, ns, reduce_node_resident_attention(m, ns, ev).ops)
<1> DEFINE ops == reduce_node_resident_attention(m, ns, ev).ops
           n == ns[ev.node]
           v == [n EXCEPT !.resident.expiry_attention_at = ev.seq]
<1>1. ev.seq \in Nat
  BY Zenon, EventParts DEF Folding, well_formed
<1>2. ops \in {<<>>, <<NodeOp(ev.node, v)>>}
  BY Zenon DEF reduce_node_resident_attention, Plan, Rejected
<1>3. ASSUME ops # <<>> PROVE HasNode(ns, ev) /\ NodeStep(m, n, v)
  <2>1. HasNode(ns, ev)
    BY Zenon, <1>3 DEF reduce_node_resident_attention, Plan, Rejected
  <2>2. n \in Node
    BY Zenon, <2>1, NodeOf DEF Folding
  <2>3. [n.resident EXCEPT !.expiry_attention_at = ev.seq]
            \in ResidentState
    BY ZenonT(60), <1>1, <2>1, <2>2 DEF Node, ResidentState
  <2>4. /\ v \in Node
       /\ v.status = n.status
       /\ v.awaiting_input \in {n.awaiting_input, NoInput}
       /\ v.pending_merge \in {n.pending_merge, NoTxn}
    BY ZenonT(60), <1>1, <2>1, <2>2, <2>3 DEF Node
  <2> QED
    BY ZenonT(60), <2>1, <2>2, <2>3, <2>4, KeepsStatus
<1> HIDE DEF v, ops, n
<1>4. OpsOK(m, ns, ops)
  BY SMTT(30), <1>2, <1>3, NodePlan DEF n
<1> QED
  BY Zenon, <1>4 DEF ops

(* A transaction starts on a live node, or on a caller-owned one.          *)
LEMMA MergeStartedOK ==
    ASSUME NEW m, NEW ns, NEW ev, Folding(m, ns, ev),
           ev.kind = "merge.started"
    PROVE  OpsOK(m, ns, reduce_merge_started(m, ns, ev).ops)
<1> DEFINE ops == reduce_merge_started(m, ns, ev).ops
           n == ns[ev.node]
           v == [n EXCEPT !.pending_merge = ev.data]
<1>1. ev.data \in MergeTxn
  BY Zenon, EventParts DEF Folding, well_formed
<1>2. ops \in {<<>>, <<NodeOp(ev.node, v)>>}
  BY Zenon DEF reduce_merge_started, Plan, Rejected
<1>3. ASSUME ops # <<>> PROVE HasNode(ns, ev) /\ NodeStep(m, n, v)
  <2>1. HasNode(ns, ev) /\ (~is_terminal(n.status) \/ m.agent_owner = "caller")
    BY Zenon, <1>3 DEF reduce_merge_started, Plan, Rejected, merge_may_start
  <2>2. n \in Node
    BY Zenon, <2>1, NodeOf DEF Folding
  <2>3. /\ v \in Node
       /\ v.status = n.status
       /\ v.awaiting_input = n.awaiting_input
    BY ZenonT(60), <1>1, <2>1, <2>2 DEF Node
  <2> QED
    BY ZenonT(60), <2>1, <2>2, <2>3
       DEF NodeStep, node_may_become, run_may_become, is_quiet, is_terminal,
           Terminal
<1> HIDE DEF v, ops, n
<1>4. OpsOK(m, ns, ops)
  BY SMTT(60), <1>2, <1>3, NodePlan DEF n
<1> QED
  BY Zenon, <1>4 DEF ops

(* A lifecycle fact is recorded.                                           *)
LEMMA LifecycleOK ==
    ASSUME NEW m, NEW ns, NEW ev, Folding(m, ns, ev),
           ev.kind = "caller.pi.lifecycle"
    PROVE  OpsOK(m, ns, reduce_caller_pi_lifecycle(m, ns, ev).ops)
<1> DEFINE ops == reduce_caller_pi_lifecycle(m, ns, ev).ops
           n == ns[ev.node]
           v == [n EXCEPT !.caller_pi_lifecycle = ev.data]
<1>1. ev.data \in CallerPiLifecycle
  BY Zenon, EventParts DEF Folding, well_formed
<1>2. ops \in {<<>>, <<NodeOp(ev.node, v)>>}
  BY Zenon DEF reduce_caller_pi_lifecycle, Plan, Rejected
<1>3. ASSUME ops # <<>> PROVE HasNode(ns, ev) /\ NodeStep(m, n, v)
  <2>1. HasNode(ns, ev)
    BY Zenon, <1>3 DEF reduce_caller_pi_lifecycle, Plan, Rejected
  <2>2. n \in Node
    BY Zenon, <2>1, NodeOf DEF Folding
  <2>3. /\ v \in Node
       /\ v.status = n.status
       /\ v.awaiting_input \in {n.awaiting_input, NoInput}
       /\ v.pending_merge \in {n.pending_merge, NoTxn}
    BY ZenonT(60), <1>1, <2>1, <2>2 DEF Node
  <2> QED
    BY ZenonT(60), <2>1, <2>2, <2>3, KeepsStatus
<1> HIDE DEF v, ops, n
<1>4. OpsOK(m, ns, ops)
  BY SMTT(30), <1>2, <1>3, NodePlan DEF n
<1> QED
  BY Zenon, <1>4 DEF ops

(* A session is bound.                                                     *)
LEMMA SessionBoundOK ==
    ASSUME NEW m, NEW ns, NEW ev, Folding(m, ns, ev),
           ev.kind = "caller.pi.session_bound"
    PROVE  OpsOK(m, ns, reduce_caller_pi_session_bound(m, ns, ev).ops)
<1> DEFINE ops == reduce_caller_pi_session_bound(m, ns, ev).ops
           n == ns[ev.node]
           v == [n EXCEPT
                   !.caller_pi_lifecycle.path =
                      IF n.caller_pi_lifecycle = NoPiLifecycle THEN @
                      ELSE ev.data.path,
                   !.caller_pi_session = ev.data]
<1>1. ev.data \in CallerPiSession
  BY Zenon, EventParts DEF Folding, well_formed
<1>2. ops \in {<<>>, <<NodeOp(ev.node, v)>>}
  BY Zenon DEF reduce_caller_pi_session_bound, Plan, Rejected
<1>3. ASSUME ops # <<>> PROVE HasNode(ns, ev) /\ NodeStep(m, n, v)
  <2>1. HasNode(ns, ev)
    BY Zenon, <1>3 DEF reduce_caller_pi_session_bound, Plan, Rejected
  <2>2. n \in Node
    BY Zenon, <2>1, NodeOf DEF Folding
  <2>3. (IF n.caller_pi_lifecycle = NoPiLifecycle
         THEN n.caller_pi_lifecycle.path ELSE ev.data.path) \in Nat
    BY ZenonT(60), <1>1, <2>1, <2>2 DEF Node, CallerPiLifecycle, CallerPiSession
  <2>4. /\ v \in Node
       /\ v.status = n.status
       /\ v.awaiting_input \in {n.awaiting_input, NoInput}
       /\ v.pending_merge \in {n.pending_merge, NoTxn}
    BY ZenonT(60), <1>1, <2>1, <2>2, <2>3 DEF Node, CallerPiLifecycle
  <2> QED
    BY ZenonT(60), <2>1, <2>2, <2>3, <2>4, KeepsStatus
<1> HIDE DEF v, ops, n
<1>4. OpsOK(m, ns, ops)
  BY SMTT(60), <1>2, <1>3, NodePlan DEF n
<1> QED
  BY Zenon, <1>4 DEF ops

(* A terminal report settles a live node; a confirmed merge turns a failed *)
(* node done, and leaves a done one done.                                  *)
LEMMA NodeReportOK ==
    ASSUME NEW m, NEW ns, NEW ev, Folding(m, ns, ev),
           ev.kind = "node.report"
    PROVE  OpsOK(m, ns, reduce_node_report(ns, ev).ops)
<1> DEFINE ops == reduce_node_report(ns, ev).ops
           n == ns[ev.node]
           new == report_terminal_status(ev.data)
           s == IF is_terminal(n.status) THEN "done" ELSE new
           v == settled(n, ev.data, s)
<1>1. ev.data \in Report
  BY Zenon, EventParts DEF Folding, well_formed
<1>2. ops \in {<<>>, <<NodeOp(ev.node, v)>>}
  BY Zenon DEF reduce_node_report, Plan, Rejected
<1>3. ASSUME ops # <<>> PROVE HasNode(ns, ev) /\ NodeStep(m, n, v)
  <2>1. /\ HasNode(ns, ev)
        /\ IF is_terminal(n.status)
           THEN permits_terminal_merge_recovery(n.status, ev.data)
           ELSE new # "none"
    BY Zenon, <1>3 DEF reduce_node_report, Plan, Rejected
  <2>2. n \in Node
    BY Zenon, <2>1, NodeOf DEF Folding
  <2>3. s \in Terminal
    BY Zenon, <1>1, <2>1 DEF report_terminal_status, Terminal, Report, Flag
  <2>4. v \in Node
    BY ZenonT(60), <1>1, <2>2, <2>3, EmptyValues DEF settled, Node, Status
  <2>5. /\ v.status = s
        /\ v.last_report = ev.data
        /\ v.awaiting_input = NoInput
        /\ v.pending_merge = NoTxn
    BY Zenon, <2>2 DEF settled, Node
  <2> HIDE DEF v
  <2>6. CASE is_terminal(n.status)
    <3>1. /\ v.status = "done"
          /\ n.status \in {"failed", "done"}
          /\ report_is_confirmed_merge(v.last_report)
      BY ZenonT(60), <2>1, <2>5, <2>6 DEF permits_terminal_merge_recovery
    <3> QED
      BY ZenonT(60), <2>1, <2>4, <2>5, <3>1
         DEF NodeStep, node_may_become, run_may_become, is_quiet
  <2>7. CASE ~is_terminal(n.status)
    BY ZenonT(60), <2>1, <2>2, <2>4, <2>5, <2>7, Settles
  <2> QED
    BY ZenonT(60), <2>1, <2>6, <2>7
<1> HIDE DEF v, ops, n
<1>4. OpsOK(m, ns, ops)
  BY SMTT(30), <1>2, <1>3, NodePlan DEF n
<1> QED
  BY Zenon, <1>4 DEF ops

(* A question is opened on a live node, or extended while its generation   *)
(* stays the same.                                                         *)
LEMMA AwaitingInputOK ==
    ASSUME NEW m, NEW ns, NEW ev, Folding(m, ns, ev),
           ev.kind = "node.awaiting_input"
    PROVE  OpsOK(m, ns, reduce_node_awaiting_input(ns, ev).ops)
<1> DEFINE ops == reduce_node_awaiting_input(ns, ev).ops
           n == ns[ev.node]
           input == [event_seq |-> IF n.awaiting_input = NoInput THEN ev.seq
                                   ELSE n.awaiting_input.event_seq,
                     items |-> IF n.awaiting_input = NoInput
                               THEN ev.data.items
                               ELSE n.awaiting_input.items + ev.data.items]
           v == [n EXCEPT !.awaiting_input = input]
<1>1. ev.seq \in Nat /\ ev.data \in AwaitingData
  BY Zenon, EventParts DEF Folding, well_formed
<1>2. ops # <<>> => HasNode(ns, ev) /\ ~is_terminal(n.status)
  BY Zenon DEF reduce_node_awaiting_input, Plan, Rejected
<1>3. ASSUME HasNode(ns, ev)
      PROVE  /\ n \in Node
             /\ input \in AwaitingInput
             /\ v \in Node
             /\ v.status = n.status
  <2>1. n \in Node
    BY Zenon, <1>3, NodeOf DEF Folding
  <2>2. n.awaiting_input \in AwaitingInput
    BY Zenon, <2>1 DEF Node
  <2>3. input \in AwaitingInput
    BY SMTT(60), <1>1, <2>2 DEF AwaitingInput, AwaitingData
  <2> HIDE DEF input
  <2> QED
    BY Zenon, <2>1, <2>3 DEF Node
<1>4. ops \in {<<>>, <<NodeOp(ev.node, v)>>}
  <2>1. CASE n.awaiting_input = NoInput
    BY Zenon, <2>1 DEF reduce_node_awaiting_input, Plan, Rejected
  <2>2. CASE n.awaiting_input # NoInput /\ HasNode(ns, ev)
    <3>1. n.awaiting_input \in AwaitingInput /\ n \in Node
      BY ZenonT(60), <1>3, <2>2 DEF Node
    <3>2. [n.awaiting_input EXCEPT !.items = @ + ev.data.items] = input
      BY SMTT(30), <2>2, <3>1 DEF AwaitingInput
    <3>3. [n EXCEPT !.awaiting_input.items = @ + ev.data.items] = v
      BY Zenon, <3>1, <3>2 DEF Node
    <3> QED
      BY Zenon, <2>2, <3>3 DEF reduce_node_awaiting_input, Plan, Rejected
  <2> QED
    BY Zenon, <2>1, <2>2, <1>2
<1> HIDE DEF v
<1>5. ops # <<>> => HasNode(ns, ev) /\ NodeStep(m, n, v)
  BY ZenonT(60), <1>2, <1>3, StaysLive
<1> QED
  BY SMTT(30), <1>4, <1>5, NodePlan

(* A run is created once, with the watermark at 0 and no intent. *)
LEMMA RunCreatedOK ==
    ASSUME NEW m, NEW ns, NEW ev, Folding(m, ns, ev),
           ev.kind = "run.created"
    PROVE  OpsOK(m, ns, reduce_run_created(m, ev).ops)
<1> DEFINE x == [NoManifest EXCEPT
                   !.status = "pending",
                   !.source_branch = ev.data.source_branch,
                   !.agent_owner = ev.data.agent_owner,
                   !.resident = ev.data.resident]
<1>1. ev.data \in RunCreatedData
  BY Zenon, EventParts DEF Folding, well_formed
<1>2. CASE has_manifest(m)
  BY Zenon, <1>2, NoWrite DEF reduce_run_created
<1>3. CASE ~has_manifest(m)
  <2>1. m = NoManifest
    BY Zenon, <1>3 DEF Folding
  <2>2. /\ x \in Manifest
        /\ x.status = "pending"
        /\ x.applied_seq = 0
        /\ x.caller_settlement_intent = NoIntent
    BY Zenon, <1>1, EmptyValues DEF NoManifest, Manifest, RunCreatedData,
       Status, Live
  <2> HIDE DEF x
  <2>3. ManifestStep(m, x)
    BY Zenon, <2>1, <2>2
       DEF ManifestStep, NoManifest, run_may_become, is_terminal, Terminal
  <2>4. reduce_run_created(m, ev) = Plan(<<ManifestOp(x)>>)
    BY Zenon, <1>3 DEF reduce_run_created, x
  <2> QED
    BY ZenonT(60), <2>3, <2>4, OneManifestWrite
<1> QED
  BY Zenon, <1>2, <1>3

(* A run status never leaves a terminal one, except from failed to done. *)
LEMMA RunStatusOK ==
    ASSUME NEW m, NEW ns, NEW lg, NEW ev, Folding(m, ns, ev),
           ev.kind = "run.status"
    PROVE  OpsOK(m, ns, reduce_run_status(m, lg, ev).ops)
<1> DEFINE x == [m EXCEPT !.status = ev.data.status]
<1>1. ev.data \in RunStatusData
  BY Zenon, EventParts DEF Folding, well_formed
<1>2. \/ reduce_run_status(m, lg, ev) = Plan(<<>>)
      \/ /\ reduce_run_status(m, lg, ev) = Plan(<<ManifestOp(x)>>)
         /\ has_manifest(m)
         /\ is_terminal(m.status) =>
               m.status = "failed" /\ ev.data.status = "done"
  BY Zenon DEF reduce_run_status, recovery_allowed
<1>3. CASE reduce_run_status(m, lg, ev) = Plan(<<>>)
  BY Zenon, <1>3, NoWrite
<1>4. ASSUME is_terminal(m.status) =>
               m.status = "failed" /\ ev.data.status = "done"
      PROVE  ManifestStep(m, x)
  <2>1. m \in Manifest
    BY Zenon DEF Folding
  <2>2. x \in Manifest
    BY Zenon, <1>1, <2>1 DEF Manifest, RunStatusData
  <2>3. /\ x.status = ev.data.status
        /\ x.applied_seq = m.applied_seq
        /\ x.agent_owner = m.agent_owner
        /\ x.caller_settlement_intent = m.caller_settlement_intent
    BY Zenon, <2>1 DEF Manifest
  <2>4. ev.data.status # "absent"
    BY Zenon, <1>1 DEF RunStatusData, Status, Live, Terminal
  <2> HIDE DEF x
  <2> QED
    BY ZenonT(60), <1>4, <2>2, <2>3, <2>4 DEF ManifestStep, run_may_become
<1> HIDE DEF x
<1> QED
  BY ZenonT(60), <1>2, <1>3, <1>4, OneManifestWrite

(* A created node is live; the manifest write that follows it changes the  *)
(* source branch alone.                                                    *)
LEMMA NodeCreatedOK ==
    ASSUME NEW m, NEW ns, NEW ev, Folding(m, ns, ev),
           ev.kind = "node.created"
    PROVE  OpsOK(m, ns, reduce_node_created(m, ns, ev).ops)
<1> DEFINE source == IF ev.node = Root /\ m.source_branch = 0
                     THEN ev.data.source_branch ELSE m.source_branch
           v == FreshNode(ev.data)
           x == [m EXCEPT !.source_branch = source]
           a == NodeOp(ev.node, v)
           b == ManifestOp(x)
<1>1. /\ ev.node \in NodeIds
      /\ ev.data \in NodeCreatedData
      /\ m \in Manifest
  BY Zenon, EventParts DEF Folding, well_formed
<1>2. CASE HasNode(ns, ev)
  BY Zenon, <1>2, NoWrite DEF reduce_node_created
<1>3. CASE ~HasNode(ns, ev)
  <2>1. worker_evidence_from_spawn_data(ev.data, 0) \in WorkerEvidence
    BY Zenon, <1>1, SpawnEvidence DEF NodeCreatedData
  <2>2. v \in Node /\ v.status = "pending"
    BY ZenonT(60), <1>1, <2>1, EmptyValues
       DEF FreshNode, Node, NodeCreatedData, Status, Live, WorkerExit
  <2>3. OpOK(m, ns, a) /\ a.file = "node"
    <3> HIDE DEF v
    <3> QED
      BY ZenonT(60), <1>1, <1>3, <2>2 DEF OpOK, NodeOp, HasNode, Live,
         ProjectionOp
  <2>4. ASSUME has_manifest(m) PROVE OpOK(m, ns, b) /\ b.file = "manifest"
    <3>1. source \in Nat
      BY Zenon, <1>1 DEF Manifest, NodeCreatedData
    <3> HIDE DEF source
    <3>2. /\ x \in Manifest
          /\ x.status = m.status
          /\ x.applied_seq = m.applied_seq
          /\ x.agent_owner = m.agent_owner
          /\ x.caller_settlement_intent = m.caller_settlement_intent
      BY Zenon, <1>1, <3>1 DEF Manifest
    <3> HIDE DEF x
    <3> QED
      BY ZenonT(60), <2>4, <3>2, RootAssumption
         DEF OpOK, ManifestOp, ManifestStep, run_may_become, has_manifest,
             ProjectionOp
  <2>5. reduce_node_created(m, ns, ev).ops
           = IF has_manifest(m) THEN <<a, b>> ELSE <<a>>
    BY Zenon, <1>3 DEF reduce_node_created, Plan
  <2> HIDE DEF a, b
  <2> QED
    BY ZenonT(60), <2>3, <2>4, <2>5 DEF OpsOK
<1> QED
  BY Zenon, <1>2, <1>3

(* An intent is recorded only where there is none. *)
LEMMA SettlementIntentOK ==
    ASSUME NEW m, NEW ns, NEW ev, Folding(m, ns, ev),
           ev.kind = "caller.settlement_intent"
    PROVE  OpsOK(m, ns, reduce_caller_settlement_intent(m, ns, ev).ops)
<1> DEFINE intent == [ev.data EXCEPT !.seq = ev.seq]
           x == [m EXCEPT !.caller_settlement_intent = intent]
           plan == reduce_caller_settlement_intent(m, ns, ev)
<1>1. ev.seq \in Nat /\ ev.data \in Intent /\ m \in Manifest
  BY Zenon, EventParts DEF Folding, well_formed
<1>2. \/ plan \in {Plan(<<>>), Rejected}
      \/ /\ plan = Plan(<<ManifestOp(x)>>)
         /\ has_manifest(m)
         /\ m.caller_settlement_intent = NoIntent
  BY Zenon DEF reduce_caller_settlement_intent
<1>3. ASSUME has_manifest(m), m.caller_settlement_intent = NoIntent
      PROVE  ManifestStep(m, x)
  <2>1. intent \in Intent
    BY Zenon, <1>1 DEF Intent
  <2> HIDE DEF intent
  <2>2. /\ x \in Manifest
        /\ x.status = m.status
        /\ x.applied_seq = m.applied_seq
        /\ x.agent_owner = m.agent_owner
    BY Zenon, <1>1, <2>1 DEF Manifest
  <2> HIDE DEF x
  <2> QED
    BY Zenon, <1>3, <2>2 DEF ManifestStep, run_may_become, has_manifest
<1> HIDE DEF x, plan
<1>4. OpsOK(m, ns, plan.ops)
  BY ZenonT(60), <1>2, <1>3, NoWrite, OneManifestWrite
<1> QED
  BY Zenon, <1>4 DEF plan

(* Every event, whatever its kind, plans only writes that are values of    *)
(* the schema and keep what a projection must keep.                        *)
THEOREM ReducerOK ==
    ASSUME NEW m, NEW ns, NEW lg, NEW ev, Folding(m, ns, ev)
    PROVE  OpsOK(m, ns, reduce_event_to_ops(m, ns, lg, ev).ops)
<1> DEFINE ops == reduce_event_to_ops(m, ns, lg, ev).ops
<1>1. CASE ev.kind \in {"run.created", "run.status", "node.created",
                        "node.status", "node.report", "node.retry"}
  BY ZenonT(60), <1>1, RunCreatedOK, RunStatusOK, NodeCreatedOK, NodeStatusOK,
     NodeReportOK, NodeRetryOK
     DEF reduce_event_to_ops
<1>2. CASE ev.kind \in {"caller.pi.session_bound", "caller.pi.lifecycle",
                        "caller.settlement_intent"}
  BY ZenonT(60), <1>2, SessionBoundOK, LifecycleOK, SettlementIntentOK
     DEF reduce_event_to_ops
<1>3. CASE ev.kind \in {"worker.exited", "worker.evidence.archived",
                        "worker.evidence.failed"}
  BY ZenonT(60), <1>3, WorkerExitedOK, WorkerEvidenceOK
     DEF reduce_event_to_ops, EvidenceStatus
<1>4. CASE ev.kind \in {"worker.display.retained", "worker.display.expired",
                        "worker.display.unavailable", "node.death_observed"}
  BY ZenonT(60), <1>4, DisplayRetainedOK, DisplayExpiredOK, DisplayUnavailableOK,
     DeathObservedOK
     DEF reduce_event_to_ops
<1>5. CASE ev.kind \in {"node.awaiting_input", "node.input_resolved",
                        "node.round_reported", "node.resumed"}
  BY ZenonT(60), <1>5, AwaitingInputOK, InputResolvedOK, RoundReportedOK,
     ResumedOK
     DEF reduce_event_to_ops
<1>6. CASE ev.kind \in {"node.round_landed", "node.resident_dormant",
                        "node.resident_attention"}
  BY ZenonT(60), <1>6, RoundLandedOK, DormantOK, AttentionOK
     DEF reduce_event_to_ops
<1>7. CASE ev.kind \in {"merge.started", "merge.aborted", "child.spawned",
                        "supervisor.attached", "supervisor.cursor_advanced"}
  BY ZenonT(60), <1>7, MergeStartedOK, MergeAbortedOK, ChildSpawnedOK,
     AttachedOK,
     CursorOK
     DEF reduce_event_to_ops
<1>8. CASE ev.kind = "audit"
  BY Zenon, <1>8, NoWrite DEF reduce_event_to_ops
<1>9. ev.kind \in Kind
  BY Zenon, EventParts DEF Folding
<1> QED
  BY ZenonT(60), <1>1, <1>2, <1>3, <1>4, <1>5, <1>6, <1>7, <1>8, <1>9 DEF Kind

=============================================================================
