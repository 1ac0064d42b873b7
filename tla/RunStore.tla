------------------------------ MODULE RunStore ------------------------------
(***************************************************************************)
(* A run directory as the commands above the store use it: a record        *)
(*   [log, view]                                                           *)
(* of the durable events and the projections on disk.  The view may lag    *)
(* the log by the one event whose writer died between the fsync of its     *)
(* line and the fold (EventStore shows that this is all a crash leaves     *)
(* behind, and that healing the tail gives the view of an atomic store).   *)
(* A command that reads the projections without replaying the tail first   *)
(* reads s.view; one that replays reads healed(s).view.                    *)
(***************************************************************************)
EXTENDS Reducer

Empty == [log |-> <<>>, view |-> NoProjections]

(* replay_unapplied_unlocked *)
healed(s) == [s EXCEPT !.view = replay(s.log, s.view)]

next_event(s, kind, node, key, data) ==
    [seq |-> Len(s.log) + 1, kind |-> kind, node |-> node, key |-> key,
     data |-> data]

(* Whether the append of ev passes the reducer, once the tail is healed. *)
accepted(s, ev) ==
    LET v == healed(s).view
    IN  reduce_event_to_ops(v.manifest, v.nodes, s.log, ev).ok

(* append_and_apply_unlocked, completed. *)
appended(s, ev) ==
    LET lg == Append(s.log, ev)
    IN  [log |-> lg, view |-> apply_event(lg, healed(s).view, ev)]

(* The same, cut off after the event is durable and before it is folded. *)
stranded(s, ev) ==
    [log |-> Append(s.log, ev), view |-> healed(s).view]

(* apply_event on an event that is already in the log: its projection      *)
(* writes alone, without a replay and without a move of the watermark.     *)
refolded(s, ev) ==
    LET q == reduce_event_to_ops(s.view.manifest, s.view.nodes, s.log, ev)
    IN  [s EXCEPT !.view = IF q.ok THEN FoldLeft(commit_op, @, q.ops) ELSE @]

(* The first event of the log under this kind and key, as a set. *)
prior_with_key(s, kind, key) ==
    LET hits == {i \in DOMAIN s.log :
                    s.log[i].kind = kind /\ s.log[i].key = key}
    IN  {s.log[i] : i \in {j \in hits : \A h \in hits : j <= h}}

(* Each node's status according to the log; "absent" before node.created.  *)
log_statuses(s) ==
    LET facts == read_node_status_facts(s.log, Len(s.log) + 1)
    IN  [n \in NodeIds |-> facts[n].status]

run_status(s) == s.view.manifest.status
node_status(s, n) ==
    IF n \in DOMAIN s.view.nodes THEN s.view.nodes[n].status ELSE "absent"

(* The supervisor's roll-up: what the healed projections and the log's     *)
(* node statuses call for, as a sequence of at most one run.status.        *)
rollup_decision(s) ==
    LET facts == read_node_status_facts(s.log, Len(s.log) + 1)
        agg == aggregate_terminal_status(known_statuses(facts))
        merge == Max({facts[n].merge : n \in NodeIds})
        status == run_status(healed(s))
    IN  IF status \in {"done", "cancelled"} \/ agg = "none" THEN <<>>
        ELSE IF status = "failed"
        THEN IF agg = "done" /\ merge # 0
             THEN <<[status |-> "done", recovery_merge_report_seq |-> merge,
                     children_successful |-> TRUE]>>
             ELSE <<>>
        ELSE <<[status |-> agg, recovery_merge_report_seq |-> 0,
                children_successful |-> FALSE]>>

rollup_event(s) ==
    LET d == rollup_decision(s)[1]
        k == d.recovery_merge_report_seq
    IN  next_event(s, "run.status", Root,
                   IF k = 0 THEN RunKey("supervisor-rollup")
                   ELSE NumKey("supervisor-recovery-rollup", k), d)

(* A published run: run.created and node.created for the default node are  *)
(* folded before any other process can see it.                             *)
published(created, root) ==
    LET s == appended(Empty, next_event(Empty, "run.created", Root, NoKey,
                                        created))
    IN  appended(s, next_event(s, "node.created", Root, NoKey, root))

=============================================================================
