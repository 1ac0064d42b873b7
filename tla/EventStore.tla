----------------------------- MODULE EventStore -----------------------------
(***************************************************************************)
(* The durable store of one run: events.jsonl, manifest.json, nodes/*.json *)
(* and the exclusive run lock under which every writer appends one event   *)
(* and folds it into the projections.                                      *)
(*                                                                         *)
(* Each durable write is a step of its own, so that a crash (or an I/O     *)
(* error, which leaves the same files behind) can fall between any two of  *)
(* them.  The lock is held exactly while w.pc # "idle"; the kernel drops   *)
(* it when its holder dies.                                                *)
(*                                                                         *)
(* A run is created in a staging directory: run.created and the            *)
(* node.created of the default node are appended there, and one rename     *)
(* publishes it.  A crash before that rename discards the directory.       *)
(***************************************************************************)
EXTENDS Reducer

CONSTANTS RunCreated,    \* the run.created requests of `run create`
          RootCreated,   \* its node.created requests for the default node
          Requests,      \* the appends that may be made once published
          MaxSeq,        \* bound on the seq of appended events
          MaxFaults      \* bound on the number of corrupted log lines

(* entry: the function called.  "event" is append_and_apply_event,         *)
(* "idempotent" append_and_apply_idempotent, "unlocked"                    *)
(* append_and_apply_unlocked and "replay" replay_unapplied_unlocked.       *)
Entry == {"event", "idempotent", "unlocked", "replay"}

Request == {r \in [entry : Entry, kind : Kind, node : NodeIds, key : Key,
                   data : Payload] : well_formed(r.kind, r.data)}

ASSUME BoundsAssumption == MaxSeq \in Nat /\ MaxFaults \in Nat

ASSUME RequestsAssumption ==
    /\ Requests \subseteq Request
    /\ RunCreated \subseteq Request
    /\ RootCreated \subseteq Request

VARIABLES log,        \* the complete lines of events.jsonl: [ok, ev]
          torn,       \* whether an unterminated line follows them
          manifest,   \* manifest.json
          nodes,      \* nodes/*.json
          published,  \* whether the run has left its staging directory
          faults,     \* number of lines corrupted so far
          w,          \* the lock holder's volatile state
          result      \* what the last completed call returned

vars == <<log, torn, manifest, nodes, published, faults, w, result>>

NoEvent == [seq |-> 0, kind |-> "audit", node |-> Root, key |-> NoKey,
            data |-> NoReport]
NoRequest == [entry |-> "replay", kind |-> "audit", node |-> Root,
              key |-> NoKey, data |-> NoReport]

Idle == [pc |-> "idle", req |-> NoRequest, ev |-> NoEvent, ops |-> <<>>,
         pos |-> 1, applied |-> 0, kept |-> [log |-> <<>>, torn |-> FALSE]]
Result(kind, seq) == [kind |-> kind, seq |-> seq]

Init ==
    /\ log = <<>>
    /\ torn = FALSE
    /\ manifest = NoManifest
    /\ nodes = NoFiles
    /\ published = FALSE
    /\ faults = 0
    /\ w = Idle
    /\ result = Result("none", 0)

-----------------------------------------------------------------------------
(* Reading the log *)
Events(lg) == [i \in DOMAIN lg |-> lg[i].ev]

(* recover_last_seq fails when the last complete line does not parse. *)
last_line_corrupt == log # <<>> /\ ~Last(log).ok
recover_last_seq == IF log = <<>> THEN 0 ELSE Last(log).ev.seq

(* find_prior_with_key fails on any complete line that does not parse. *)
any_line_corrupt == \E i \in DOMAIN log : ~log[i].ok
find_prior_with_key(req) ==
    {log[i].ev : i \in {j \in DOMAIN log :
        log[j].ev.kind = req.kind /\ log[j].ev.key = req.key}}

(* The events the reducer may read: for_each_event_probe fails on a        *)
(* corrupt line, and recovery_allowed then denies the recovery.            *)
readable_log == IF any_line_corrupt THEN <<>> ELSE Events(log)

plan(ev) == reduce_event_to_ops(manifest, nodes, readable_log, ev)

-----------------------------------------------------------------------------
(* Faulty variant: the torn tail stays. *)
Begin_keeps_torn_tail(req) ==
    /\ w.pc = "idle"
    /\ recover_last_seq < MaxSeq \/ req.entry = "replay"
    /\ w' = [Idle EXCEPT !.pc = "replay", !.req = req,
                         !.applied = manifest.applied_seq]
    /\ UNCHANGED <<log, torn, manifest, nodes, published, faults, result>>

(* A writer takes the lock, truncates a torn tail and starts the replay of *)
(* unapplied events.  Before publication only the creator writes.          *)
Begin(req) ==
    /\ w.pc = "idle"
    /\ recover_last_seq < MaxSeq \/ req.entry = "replay"
    /\ torn' = FALSE
    /\ w' = [Idle EXCEPT !.pc = "replay", !.req = req,
                         !.applied = manifest.applied_seq]
    /\ UNCHANGED <<log, manifest, nodes, published, faults, result>>

Create ==
    /\ ~published
    /\ \/ log = <<>> /\ \E req \in RunCreated : Begin(req)
       \/ Len(log) = 1 /\ \E req \in RootCreated : Begin(req)

Write == published /\ \E req \in Requests : Begin(req)

Publish ==
    /\ ~published
    /\ w.pc = "idle"
    /\ Len(log) = 2
    /\ published' = TRUE
    /\ UNCHANGED <<log, torn, manifest, nodes, faults, w, result>>

-----------------------------------------------------------------------------
(* replay_unapplied: fold every event past the watermark that was read     *)
(* when the replay started, in file order.                                 *)
replay_needed == has_manifest(manifest) /\ w.applied < recover_last_seq

Unapplied ==
    {i \in w.pos..Len(log) : log[i].ok /\ log[i].ev.seq > w.applied}

Fail(kind) ==
    /\ w' = Idle
    /\ result' = Result(kind, 0)
    /\ UNCHANGED <<log, torn, manifest, nodes, published, faults>>

ReplayFails ==
    /\ w.pc = "replay"
    /\ has_manifest(manifest)
    /\ last_line_corrupt
    /\ Fail("corrupt")

ReplayDone ==
    /\ w.pc = "replay"
    /\ ~(has_manifest(manifest) /\ last_line_corrupt)
    /\ ~replay_needed \/ Unapplied = {}
    /\ w' = [w EXCEPT !.pc = "append"]
    /\ UNCHANGED <<log, torn, manifest, nodes, published, faults, result>>

ReplayNext ==
    /\ w.pc = "replay"
    /\ ~last_line_corrupt
    /\ replay_needed
    /\ \E i \in Unapplied :
          /\ \A j \in Unapplied : i <= j
          /\ LET p == plan(log[i].ev)
             IN  w' = IF p.ok
                      THEN [w EXCEPT !.pos = i + 1, !.pc = "refold",
                                     !.ev = log[i].ev, !.ops = p.ops]
                      ELSE [w EXCEPT !.pos = i + 1]
    /\ UNCHANGED <<log, torn, manifest, nodes, published, faults, result>>

-----------------------------------------------------------------------------
(* commit_ops: one atomic file write per step, then advance_applied_seq.   *)
CommitOp ==
    /\ w.pc \in {"refold", "commit"}
    /\ w.ops # <<>>
    /\ manifest' = write_manifest(manifest, Head(w.ops))
    /\ nodes' = write_node(nodes, Head(w.ops))
    /\ w' = [w EXCEPT !.ops = Tail(@)]
    /\ UNCHANGED <<log, torn, published, faults, result>>

AdvanceWatermark ==
    /\ w.pc \in {"refold", "commit"}
    /\ w.ops = <<>>
    /\ manifest' = advance_applied_seq(manifest, nodes, w.ev.seq)
    /\ IF w.pc = "refold"
       THEN w' = [w EXCEPT !.pc = "replay"] /\ UNCHANGED result
       ELSE w' = Idle /\ result' = Result("appended", w.ev.seq)
    /\ UNCHANGED <<log, torn, nodes, published, faults>>

-----------------------------------------------------------------------------
(* The append proper, once the replay is done. *)
keyed == w.req.entry \in {"event", "idempotent"} /\ w.req.key # NoKey

next_event == [seq |-> recover_last_seq + 1, kind |-> w.req.kind,
               node |-> w.req.node, key |-> w.req.key, data |-> w.req.data]

Return(res) ==
    /\ w' = Idle
    /\ result' = res
    /\ UNCHANGED <<log, torn, manifest, nodes, published, faults>>

ReplayOnly ==
    /\ w.pc = "append"
    /\ w.req.entry = "replay"
    /\ Return(Result("none", 0))

(* A prior event under the same kind and key is returned instead of        *)
(* appending.  append_and_apply_idempotent refuses a key reused with       *)
(* another node or payload.                                                *)
same_payload(prior) == prior.node = w.req.node /\ prior.data = w.req.data

ReturnPrior ==
    /\ w.pc = "append"
    /\ keyed
    /\ ~any_line_corrupt
    /\ \E prior \in find_prior_with_key(w.req) :
          IF w.req.entry = "event" \/ same_payload(prior)
          THEN Return(Result("replayed", prior.seq))
          ELSE Return(Result("conflict", prior.seq))

AppendFails ==
    /\ w.pc = "append"
    /\ w.req.entry # "replay"
    /\ last_line_corrupt \/ (keyed /\ any_line_corrupt)
    /\ Fail("corrupt")

(* Faulty variant: the key is not looked up. *)
may_append_blind ==
    w.pc = "append" /\ w.req.entry # "replay" /\ ~last_line_corrupt

may_append ==
    /\ w.pc = "append"
    /\ w.req.entry # "replay"
    /\ ~last_line_corrupt
    /\ keyed => ~any_line_corrupt /\ find_prior_with_key(w.req) = {}

Reject ==
    /\ may_append
    /\ ~plan(next_event).ok
    /\ Return(Result("rejected", 0))

(* The line is written and fsynced before any projection is touched.  It   *)
(* would not parse if it continued a fragment.                             *)
AppendEvent ==
    /\ may_append
    /\ LET p == plan(next_event)
       IN  /\ p.ok
           /\ w' = [w EXCEPT !.pc = "commit", !.ev = next_event, !.ops = p.ops]
    /\ log' = Append(log, [ok |-> ~torn, ev |-> next_event])
    /\ UNCHANGED <<torn, manifest, nodes, published, faults, result>>

-----------------------------------------------------------------------------
(* Faults *)

(* A published run keeps its files; an unpublished one is discarded, and   *)
(* the next attempt starts from an empty staging directory.                *)
Die(t) ==
    /\ w.pc # "idle"
    /\ w' = Idle
    /\ result' = Result("none", 0)
    /\ IF published
       THEN torn' = t /\ UNCHANGED <<log, manifest, nodes, published, faults>>
       ELSE /\ log' = <<>>
            /\ torn' = FALSE
            /\ manifest' = NoManifest
            /\ nodes' = NoFiles
            /\ UNCHANGED <<published, faults>>

Crash == Die(torn)

(* The writer dies inside the write of the line, leaving a fragment. *)
CrashMidAppend ==
    /\ may_append
    /\ plan(next_event).ok
    /\ Die(TRUE)

(* A complete line of a published log is damaged on disk. *)
CorruptLine ==
    /\ published
    /\ w.pc = "idle"
    /\ faults < MaxFaults
    /\ \E i \in DOMAIN log :
          /\ log[i].ok
          /\ log' = [log EXCEPT ![i].ok = FALSE]
    /\ faults' = faults + 1
    /\ UNCHANGED <<torn, manifest, nodes, published, w, result>>

(* The one enumeration of a set of line numbers that keeps their order. *)
in_order(S) ==
    {f \in [1..Cardinality(S) -> S] :
        \A j, k \in DOMAIN f : j < k => f[j] < f[k]}
kept_lines(pick) == [k \in DOMAIN pick |-> log[pick[k]]]

(* quarantine_corrupt_lines: the log is renamed to its backup, and then    *)
(* the lines that parse, and a torn tail, are written as the new log.      *)
QuarantineRename ==
    /\ published
    /\ w.pc = "idle"
    /\ any_line_corrupt
    /\ \E pick \in in_order({i \in DOMAIN log : log[i].ok}) :
          w' = [Idle EXCEPT !.pc = "quarantine",
                            !.kept = [log |-> kept_lines(pick), torn |-> torn]]
    /\ log' = <<>>
    /\ torn' = FALSE
    /\ UNCHANGED <<manifest, nodes, published, faults, result>>

QuarantineRewrite ==
    /\ w.pc = "quarantine"
    /\ log' = w.kept.log
    /\ torn' = w.kept.torn
    /\ w' = Idle
    /\ result' = Result("none", 0)
    /\ UNCHANGED <<manifest, nodes, published, faults>>

Next ==
    \/ Create \/ Publish \/ Write
    \/ ReplayFails \/ ReplayNext \/ ReplayDone
    \/ CommitOp \/ AdvanceWatermark
    \/ ReplayOnly \/ ReturnPrior \/ AppendFails \/ Reject \/ AppendEvent
    \/ Crash \/ CrashMidAppend \/ CorruptLine
    \/ QuarantineRename \/ QuarantineRewrite

Spec == Init /\ [][Next]_vars

-----------------------------------------------------------------------------
OnDisk == [manifest |-> manifest, nodes |-> nodes]

(* The view a reader gets once the unapplied tail is replayed, and the one *)
(* a writer that never crashed would have left behind.                     *)
Healed == replay(Events(log), OnDisk)
Rebuilt == replay(Events(log), NoProjections)

Line == [ok : BOOLEAN, ev : Event]
Phase == {"idle", "replay", "refold", "append", "commit", "quarantine"}
ResultKind == {"none", "appended", "replayed", "conflict", "rejected",
               "corrupt"}

Writer == [pc : Phase, req : Request, ev : Event, ops : Seq(ProjectionOp),
           pos : Nat \ {0}, applied : Nat,
           kept : [log : Seq(Line), torn : BOOLEAN]]

(* The variables hold what the code's types allow: every log line and      *)
(* every projection is a value of the schema, also after any crash.        *)
TypeOK ==
    /\ log \in Seq(Line)
    /\ torn \in BOOLEAN
    /\ manifest \in Manifest
    /\ are_node_files(nodes)
    /\ published \in BOOLEAN
    /\ faults \in Nat
    /\ w \in Writer
    /\ result \in [kind : ResultKind, seq : Nat]

(* Whatever the crash history, replaying the unapplied tail over the files *)
(* on disk gives exactly the projections of a clean fold of the whole log: *)
(* a crash between the fsync of an event, any of its projection writes and *)
(* the watermark loses nothing and applies nothing twice.  The tail is one *)
(* event at most: an append always replays before it writes.               *)
ReplayConverges ==
    published /\ faults = 0 =>
        Healed = Rebuilt /\ recover_last_seq <= manifest.applied_seq + 1

(* While no line is damaged from outside, the watermark never claims an    *)
(* event that the log does not hold, nor one that is durable and not yet   *)
(* folded: a crash between any two writes leaves the event to the replay.  *)
WatermarkLags ==
    faults = 0 =>
        /\ manifest.applied_seq <= Len(log)
        /\ w.pc = "commit" => manifest.applied_seq < w.ev.seq

(* Event i is line i, and every line parses.  No crash, torn tail or retry *)
(* reuses or skips a number, or welds two records into one line, while no  *)
(* line is damaged from outside.                                           *)
LogIntact ==
    faults = 0 => \A i \in DOMAIN log : log[i].ok /\ log[i].ev.seq = i

(* A looked-up key is spent at most once per kind.  Two callers (or one    *)
(* retrying after a crash it cannot tell from a failure) never append the  *)
(* same keyed event twice.  (append_and_apply_unlocked looks no key up:    *)
(* its callers do that themselves.)                                        *)
KeysUnique ==
    \A i, j \in DOMAIN log :
        i < j /\ log[i].ev.kind = log[j].ev.kind
              /\ log[i].ev.key = log[j].ev.key /\ log[i].ev.key # NoKey =>
            \A req \in Requests :
                req.entry = "unlocked" \/ req.kind # log[i].ev.kind
                                       \/ req.key # log[i].ev.key

(* A call that returns an event, appended or found under its key, returns  *)
(* only once the projections contain it.                                   *)
AckedIsApplied ==
    /\ w.pc = "idle"
    /\ result.kind \in {"appended", "replayed", "conflict"}
    => result.seq <= manifest.applied_seq

(* node_count agrees with the node files for every folded event.           *)
NodeCountCurrent ==
    published /\ w.pc = "idle" /\ manifest.applied_seq = recover_last_seq
        => manifest.node_count = Cardinality(DOMAIN nodes)

(* The log-derived node statuses that cancel and roll-up decide on agree   *)
(* with the projections the reducer would build from the same log.  (Every *)
(* log is also reached with the lock free: its writer may die.)            *)
LogStatusAgrees ==
    w.pc = "idle" =>
    LET facts == read_node_status_facts(Events(log), MaxSeq + 1)
        built == Rebuilt.nodes
    IN  \A n \in NodeIds :
          /\ (facts[n].status = "absent") = (n \notin DOMAIN built)
          /\ n \in DOMAIN built =>
                /\ is_terminal(facts[n].status) = is_terminal(built[n].status)
                /\ is_terminal(built[n].status) =>
                      facts[n].status = built[n].status

(* A settled node holds no open merge transaction and no open question, so *)
(* recovery and the notifier have nothing left to act on.  (The failed     *)
(* node of a caller-owned run may still be merged.)                        *)
SettledIsQuiet ==
    \A n \in DOMAIN nodes : is_quiet(manifest.agent_owner, nodes[n])

(* A terminal node keeps its status; only a confirmed merge turns failed   *)
(* into done, and cancelled never changes.  A run, too, leaves a terminal  *)
(* status only from failed to done.                                        *)
TerminalIsSticky ==
    [][ published =>
        /\ \A n \in DOMAIN nodes :
              n \in DOMAIN nodes' /\ node_may_become(nodes[n], nodes'[n])
        /\ run_may_become(manifest.status, manifest'.status)
      ]_vars

(* A failed run turns done only on proof in the log: at some point every   *)
(* node had settled as done, one of them by a confirmed merge.             *)
RecoveryJustified ==
    published /\ manifest.status = "failed" /\ manifest'.status = "done" =>
    \E k \in 1..MaxSeq :
      LET facts == read_node_status_facts(Events(log), k)
      IN  /\ \A n \in DOMAIN nodes : facts[n].status = "done"
          /\ \E n \in DOMAIN nodes : facts[n].merge # 0

(* The events that gave node n a new worker: a respawn or a resume. *)
rewirings(n) ==
    {log[i].ev.seq : i \in {j \in DOMAIN log :
        /\ log[j].ev.node = n
        /\ log[j].ev.kind \in {"node.retry", "node.resumed"}
        /\ log[j].ev.seq <= manifest.applied_seq}}

(* What a live node records about its worker is about the current attempt: *)
(* a death or a question dates from after the last respawn, an exit was    *)
(* told by this attempt, and evidence is this attempt's.  (Damage may take *)
(* the events away that the node was folded from.)                         *)
FactsAreCurrent ==
    faults = 0 => \A n \in DOMAIN nodes :
        LET v == nodes[n]
        IN  /\ v.status \in Live => \A s \in rewirings(n) :
                  /\ v.first_death_at # 0 => v.first_death_at > s
                  /\ v.awaiting_input # NoInput => v.awaiting_input.event_seq > s
            /\ v.worker_exit # "none" =>
                  \E i \in DOMAIN log :
                     /\ log[i].ev.kind = "worker.exited"
                     /\ log[i].ev.data.attempt = v.retry_attempts
            /\ v.evidence # NoEvidence => v.evidence.attempt = v.retry_attempts

(* An open question is unanswered: no folded node.input_resolved names its *)
(* generation.                                                             *)
OpenInputUnanswered ==
    faults = 0 => \A n \in DOMAIN nodes :
        nodes[n].awaiting_input # NoInput =>
            ~\E i \in DOMAIN log :
                /\ log[i].ev.kind = "node.input_resolved"
                /\ log[i].ev.node = n
                /\ log[i].ev.data.event_seq = nodes[n].awaiting_input.event_seq
                /\ log[i].ev.seq > nodes[n].awaiting_input.event_seq
                /\ log[i].ev.seq <= manifest.applied_seq

(* A supervisor's cursor into a child's log, a node's attempt counter and  *)
(* the watermark never move back, whatever order the events arrive in.     *)
CountersMonotone ==
    published =>
    /\ manifest'.applied_seq >= manifest.applied_seq
    /\ \A n \in DOMAIN nodes :
         /\ nodes'[n].retry_attempts >= nodes[n].retry_attempts
         /\ \A c \in Children : nodes'[n].cursor[c] >= nodes[n].cursor[c]

(* A resident node is dormant only while a reported round awaits its       *)
(* settlement, rounds are numbered without gaps, and a landing credits a   *)
(* round that has been reported.                                           *)
ResidentRounds ==
    \A n \in DOMAIN nodes :
        LET r == nodes[n].resident
        IN  /\ r.dormant_since # 0 => open_round(r)
            /\ r.expiry_attention_at # 0 => open_round(r)
            /\ r.last_round.round = r.rounds_reported
            /\ r.last_landing.round <= r.rounds_reported

(* A caller-owned node holds a merge transaction only under the authority  *)
(* of the one recorded settlement intent, and that intent is a merge.      *)
CallerMergeAuthorized ==
    manifest.agent_owner = "caller" =>
        \A n \in DOMAIN nodes :
            LET txn == nodes[n].pending_merge
                intent == manifest.caller_settlement_intent
            IN  txn # NoTxn =>
                  /\ intent.operation = "merge"
                  /\ intent.node = n
                  /\ txn.caller_authority =
                        [intent_seq |-> intent.seq, intent_key |-> intent.key,
                         writer |-> intent.writer]

(* The settlement intent is sticky: once persisted it is never replaced.   *)
IntentIsSticky ==
    [][ published /\ manifest.caller_settlement_intent # NoIntent =>
          manifest'.caller_settlement_intent
            = manifest.caller_settlement_intent ]_vars

\* The log, the projections and the answers of the store agree: keys are spent
\* once, an answer is folded, and what the projections say of workers,
\* questions, rounds and merges is backed by the events they were folded from.
StoreCoheres ==
    /\ KeysUnique /\ AckedIsApplied /\ NodeCountCurrent
    /\ FactsAreCurrent /\ OpenInputUnanswered
    /\ ResidentRounds /\ CallerMergeAuthorized

\* A failed run recovers only on proof, and no counter moves back.
MovesAreJustified == [][RecoveryJustified /\ CountersMonotone]_vars

=============================================================================
