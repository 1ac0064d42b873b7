------------------------------- MODULE Schema -------------------------------
(***************************************************************************)
(* The durable data of one run: status values, terminal reports, events,   *)
(* and the two projections (manifest.json and nodes/<id>.json).            *)
(*                                                                         *)
(* A JSON field that the reducer only carries along (titles, summaries,    *)
(* paths, the updated_at stamps) is left out.  An Option is a value of its *)
(* own: 0 for an absent number, a NoX record for an absent record.  An     *)
(* event timestamp is represented by the event's seq: both identify the    *)
(* event that set the field.                                               *)
(***************************************************************************)
EXTENDS Naturals, Sequences, FiniteSets, SequencesExt

CONSTANTS NodeIds,   \* the node ids a run may use
          Root,      \* the default node, "n-0001"
          Children   \* ids of child runs

ASSUME RootAssumption == Root \in NodeIds /\ IsFiniteSet(NodeIds)

-----------------------------------------------------------------------------
Terminal == {"done", "failed", "cancelled"}
Live == {"pending", "running", "blocked"}
Status == Live \cup Terminal

is_terminal(s) == s \in Terminal

(* The run status a set of node statuses rolls up to; "none" while the run *)
(* is incomplete.                                                          *)
aggregate_terminal_status(S) ==
    IF S = {} \/ S \cap Live # {} THEN "none"
    ELSE IF "failed" \in S THEN "failed"
    ELSE IF "cancelled" \in S THEN "cancelled"
    ELSE "done"

-----------------------------------------------------------------------------
(* Terminal reports.  op_id is the transaction a run-merge origin carries. *)
Flag == {"true", "false", "absent"}
Origin == {"absent", "malformed", "agent", "supervisor", "run-merge"}
Report == [success : Flag, cancelled : BOOLEAN, origin : Origin,
           via : BOOLEAN, op_id : Nat]

NoReport == [success |-> "absent", cancelled |-> FALSE, origin |-> "absent",
             via |-> FALSE, op_id |-> 0]

report_is_confirmed_merge(r) ==
    /\ r.success = "true"
    /\ ~r.cancelled
    /\ \/ r.origin = "run-merge"
       \/ r.origin = "absent" /\ r.via

permits_terminal_merge_recovery(status, r) ==
    status \in {"failed", "done"} /\ report_is_confirmed_merge(r)

(* The terminal status a report asserts; "none" where the reducer rejects  *)
(* it (contradictory, or neither success nor cancelled).                   *)
report_terminal_status(r) ==
    IF r.cancelled
    THEN IF r.success = "true" THEN "none" ELSE "cancelled"
    ELSE CASE r.success = "true"   -> "done"
           [] r.success = "false"  -> "failed"
           [] r.success = "absent" -> "none"

-----------------------------------------------------------------------------
(* Idempotency keys: the family of the key string, with the node or the    *)
(* number it embeds.  "supplied" is a key given by the caller.             *)
Tag == {"none", "supplied", "explicit-merge", "run-cancel",
        "supervisor-rollup", "supervisor-recovery-rollup",
        "supervisor-notify", "child-spawned", "merge-aborted",
        "round-landed", "resident-expiry", "worker-evidence",
        "worker-display", "settlement"}
Key == [tag : Tag, node : NodeIds, num : Nat]
RunKey(tag) == [tag |-> tag, node |-> Root, num |-> 0]
NodeKey(tag, n) == [tag |-> tag, node |-> n, num |-> 0]
NumKey(tag, k) == [tag |-> tag, node |-> Root, num |-> k]
NoKey == RunKey("none")

-----------------------------------------------------------------------------
(* manifest.json *)
Owner == {"taskfleet", "caller"}
Operation == {"none", "merge", "discard", "cancel"}
Intent == [operation : Operation, node : NodeIds, key : Key,
           generation : Nat, writer : Nat, seq : Nat]
NoIntent == [operation |-> "none", node |-> Root, key |-> NoKey,
             generation |-> 0, writer |-> 0, seq |-> 0]

Manifest == [status : Status \cup {"absent"}, source_branch : Nat,
             agent_owner : Owner, resident : BOOLEAN,
             caller_settlement_intent : Intent,
             node_count : Nat, applied_seq : Nat]

(* No manifest.json on disk. *)
NoManifest == [status |-> "absent", source_branch |-> 0,
               agent_owner |-> "taskfleet", resident |-> FALSE,
               caller_settlement_intent |-> NoIntent,
               node_count |-> 0, applied_seq |-> 0]

has_manifest(m) == m.status # "absent"

-----------------------------------------------------------------------------
(* nodes/<id>.json.  agent_pid stands for all coordinates of the spawned   *)
(* agent that are rewired together (pid, start identity, tmux window,      *)
(* native session); branch for the branch and its worktree.                *)
Authority == [intent_seq : Nat, intent_key : Key, writer : Nat]
NoAuthority == [intent_seq |-> 0, intent_key |-> NoKey, writer |-> 0]

MergeTxn == [op_id : Nat, landing : BOOLEAN, worker_branch : Nat,
             source_branch : Nat, caller_authority : Authority]
NoTxn == [op_id |-> 0, landing |-> FALSE, worker_branch |-> 0,
          source_branch |-> 0, caller_authority |-> NoAuthority]

AwaitingInput == [event_seq : Nat, items : Nat]
NoInput == [event_seq |-> 0, items |-> 0]

EvidenceStatus == {"none", "pending", "complete", "failed"}
WorkerEvidence == [attempt : Nat, session : Nat, status : EvidenceStatus]
NoEvidence == [attempt |-> 0, session |-> 0, status |-> "none"]

RetainedDisplay == [marker : Nat, attempt : Nat, expired_at : Nat]
NoDisplay == [marker |-> 0, attempt |-> 0, expired_at |-> 0]

CallerPiSession == [original_cwd : Nat, session : Nat, path : Nat,
                    generation : Nat]
NoPiSession == [original_cwd |-> 0, session |-> 0, path |-> 0,
                generation |-> 0]
CallerPiState == {"none", "reserved", "started", "exited", "launch_failed",
                  "control_uncertain"}
CallerPiLifecycle == [generation : Nat, state : CallerPiState,
                      session : Nat, path : Nat, reason : BOOLEAN]
NoPiLifecycle == [generation |-> 0, state |-> "none", session |-> 0,
                  path |-> 0, reason |-> FALSE]

RoundReport == [round : Nat, attempt : Nat, event_seq : Nat, closed_at : Nat]
NoRound == [round |-> 0, attempt |-> 0, event_seq |-> 0, closed_at |-> 0]
RoundLanding == [at : Nat, integrated : Nat, round : Nat]
NoLanding == [at |-> 0, integrated |-> 0, round |-> 0]
ResidentState == [rounds_reported : Nat, last_round : RoundReport,
                  last_landing : RoundLanding, dormant_since : Nat,
                  expiry_attention_at : Nat]
NoResident == [rounds_reported |-> 0, last_round |-> NoRound,
               last_landing |-> NoLanding, dormant_since |-> 0,
               expiry_attention_at |-> 0]

open_round(r) == r.last_round # NoRound /\ r.last_round.closed_at = 0

WorkerExit == {"none", "clean", "failing"}

Node == [status : Status, branch : Nat, base_sha : Nat, agent_pid : Nat,
         retry_attempts : Nat, last_report : Report,
         pending_merge : MergeTxn, worker_exit : WorkerExit,
         first_death_at : Nat, awaiting_input : AwaitingInput,
         children : SUBSET Children, supervisor_pid : Nat,
         cursor : [Children -> Nat], evidence : WorkerEvidence,
         retained_display : RetainedDisplay,
         retention_unavailable : BOOLEAN,
         caller_pi_session : CallerPiSession,
         caller_pi_lifecycle : CallerPiLifecycle,
         resident : ResidentState]

(* The node files on disk: a function whose domain is the ids present. *)
are_node_files(ns) ==
    DOMAIN ns \subseteq NodeIds /\ ns \in [DOMAIN ns -> Node]

NoFiles == [n \in {} |-> NoReport]

=============================================================================
