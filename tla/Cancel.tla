------------------------------- MODULE Cancel -------------------------------
(***************************************************************************)
(* Cancellation: cancel_run and cancel_node, each one critical section     *)
(* under the run lock that makes several durable appends, with the other   *)
(* writers of a run around it and a crash possible at every append.        *)
(*                                                                         *)
(* tx is the transaction that holds the lock:                              *)
(*   pc       "idle" or "nodes" (the loop, and the run.status after it);   *)
(*   op       "run" or "node";                                             *)
(*   entry    the run status read on entry, from the projection;           *)
(*   todo     the nodes still to visit;                                    *)
(*   ledger   each node's log-derived status, read on entry;               *)
(*   out      the outcome under construction.                              *)
(***************************************************************************)
EXTENDS RunStore

CONSTANTS Created, RootData,   \* payloads of the run's first two events
          Reports,             \* what agents, merges and backstops report
          MaxLog,              \* bound on the log for the other writers
          MaxCrashes           \* bound on the number of crashes

ASSUME CancelBounds == MaxLog \in Nat /\ MaxCrashes \in Nat

VARIABLES store, tx, crashes, result

vars == <<store, tx, crashes, result>>

NoOutcome == [op |-> "none", ok |-> FALSE, already |-> FALSE,
              cancelled |-> {}, terminal |-> {}, rolled_up |-> "none"]
NoTx == [pc |-> "idle", op |-> "none", entry |-> "absent", todo |-> {},
         ledger |-> [n \in NodeIds |-> "absent"], out |-> NoOutcome]

Init ==
    /\ store = published(Created, RootData)
    /\ tx = NoTx
    /\ crashes = 0
    /\ result = NoOutcome

-----------------------------------------------------------------------------
CancelReport == [NoReport EXCEPT !.success = "false", !.cancelled = TRUE]

node_cancel(n) ==
    next_event(store, "node.report", n, NodeKey("run-cancel", n),
               CancelReport)
run_cancel(s) ==
    next_event(store, "run.status", Root, RunKey("run-cancel"),
               [status |-> s, recovery_merge_report_seq |-> 0,
                children_successful |-> FALSE])

prior_node_cancel(n) ==
    prior_with_key(store, "node.report", NodeKey("run-cancel", n))
prior_run_cancel == prior_with_key(store, "run.status", RunKey("run-cancel"))

-----------------------------------------------------------------------------
(* An append by the transaction: it succeeds and the transaction goes on   *)
(* as next, or its process dies with the event durable and unfolded.       *)
AppendThen(ev, next) ==
    /\ accepted(store, ev)
    /\ \/ /\ store' = appended(store, ev)
          /\ next
          /\ UNCHANGED crashes
       \/ /\ crashes < MaxCrashes
          /\ crashes' = crashes + 1
          /\ store' = stranded(store, ev)
          /\ tx' = NoTx
          /\ UNCHANGED result

(* A re-fold of an event that an interrupted cancel left in the log. *)
RefoldThen(ev, next) ==
    /\ store' = refolded(store, ev)
    /\ next
    /\ UNCHANGED crashes

(* The transaction ends with outcome out. *)
Finish(out) == tx' = NoTx /\ result' = out
Go(t) == tx' = t /\ UNCHANGED result

-----------------------------------------------------------------------------
(* Entry.  A run that is done or failed is refused on what its manifest    *)
(* says; the nodes to visit and their statuses come from the log.          *)
refused == is_terminal(run_status(store)) /\ run_status(store) # "cancelled"

read_cancel_ledger == log_statuses(store)

Begin(op, targets) ==
    /\ tx.pc = "idle"
    /\ UNCHANGED <<store, crashes>>
    /\ IF refused
       THEN Finish([NoOutcome EXCEPT !.op = op])
       ELSE Go([pc |-> "nodes", op |-> op, entry |-> run_status(store),
                todo |-> targets, ledger |-> read_cancel_ledger,
                out |-> [NoOutcome EXCEPT
                           !.op = op, !.ok = TRUE,
                           !.already = run_status(store) = "cancelled"]])

cancel_run ==
    Begin("run", {n \in NodeIds : read_cancel_ledger[n] # "absent"})

cancel_node ==
    \E n \in NodeIds : read_cancel_ledger[n] # "absent" /\ Begin("node", {n})

(* One node of the loop (for cancel_node, the target). *)
Visited(n, field) ==
    LET out == IF field = "cancelled"
               THEN [tx.out EXCEPT !.cancelled = @ \cup {n}]
               ELSE [tx.out EXCEPT !.terminal = @ \cup {n}]
    IN  Go([tx EXCEPT !.todo = @ \ {n}, !.out = out])

(* Faulty variant: an interrupted cancel is not looked up. *)
CancelNode_blind ==
    /\ tx.pc = "nodes"
    /\ \E n \in tx.todo :
         IF is_terminal(tx.ledger[n]) /\ node_status(store, n) \in Terminal
         THEN Visited(n, "terminal") /\ UNCHANGED <<store, crashes>>
         ELSE AppendThen(node_cancel(n), Visited(n, "cancelled"))

CancelNode ==
    /\ tx.pc = "nodes"
    /\ \E n \in tx.todo :
         IF prior_node_cancel(n) # {}
         THEN IF is_terminal(node_status(store, n))
              THEN Visited(n, "terminal") /\ UNCHANGED <<store, crashes>>
              ELSE \E prior \in prior_node_cancel(n) :
                      RefoldThen(prior, Visited(n, "cancelled"))
         ELSE IF is_terminal(tx.ledger[n])
         THEN Visited(n, "terminal") /\ UNCHANGED <<store, crashes>>
         ELSE AppendThen(node_cancel(n), Visited(n, "cancelled"))

-----------------------------------------------------------------------------
(* The run.status that closes the transaction.  Both commands share its    *)
(* key, and re-fold the event of an interrupted predecessor.               *)
CloseWith(status, out) ==
    IF prior_run_cancel # {}
    THEN \E prior \in prior_run_cancel : RefoldThen(prior, Finish(out))
    ELSE AppendThen(run_cancel(status), Finish(out))

(* Faulty variant: a prior run.status is a key conflict. *)
FinishRun_refuses ==
    /\ tx.pc = "nodes" /\ tx.op = "run" /\ tx.todo = {}
    /\ IF tx.out.already \/ prior_run_cancel # {}
       THEN /\ Finish([tx.out EXCEPT !.ok = FALSE])
            /\ UNCHANGED <<store, crashes>>
       ELSE AppendThen(run_cancel("cancelled"), Finish(tx.out))

FinishRun ==
    /\ tx.pc = "nodes" /\ tx.op = "run" /\ tx.todo = {}
    /\ IF tx.out.already
       THEN Finish(tx.out) /\ UNCHANGED <<store, crashes>>
       ELSE CloseWith("cancelled", tx.out)

(* Faulty variant: the target keeps the status it had on entry. *)
effective_statuses_on_entry == {tx.ledger[n] : n \in NodeIds} \ {"absent"}

(* The statuses maybe_roll_up_run aggregates: the ledger of the entry,     *)
(* with the target's status after the cancel.                              *)
effective_statuses ==
    {IF n \in tx.out.cancelled THEN "cancelled" ELSE tx.ledger[n] :
        n \in NodeIds} \ {"absent"}

(* maybe_roll_up_run *)
FinishNode ==
    LET agg == aggregate_terminal_status(effective_statuses)
    IN  /\ tx.pc = "nodes" /\ tx.op = "node" /\ tx.todo = {}
        /\ IF is_terminal(tx.entry) \/ agg = "none"
           THEN Finish(tx.out) /\ UNCHANGED <<store, crashes>>
           ELSE CloseWith(agg, [tx.out EXCEPT !.rolled_up = agg])

-----------------------------------------------------------------------------
(* The other writers, each in a critical section of its own. *)
Other(ev) ==
    /\ tx.pc = "idle"
    /\ Len(store.log) < MaxLog
    /\ AppendThen(ev, UNCHANGED <<tx, result>>)

(* node.report: an agent, a confirmed merge, a supervisor's backstop. *)
ReportNode ==
    \E n \in NodeIds, r \in Reports :
        Other(next_event(store, "node.report", n, NoKey, r))

(* `event create` adds a node. *)
AddNode ==
    \E n \in NodeIds :
        /\ log_statuses(store)[n] = "absent"
        /\ Other(next_event(store, "node.created", n, NoKey, RootData))

(* The supervisor's roll-up. *)
RollUp ==
    \/ /\ rollup_decision(store) # <<>>
       /\ Other(rollup_event(store))
    \/ /\ rollup_decision(store) = <<>>
       /\ tx.pc = "idle"
       /\ store' = healed(store)
       /\ UNCHANGED <<tx, crashes, result>>

(* The lock holder dies between two steps. *)
Crash ==
    /\ tx.pc # "idle"
    /\ crashes < MaxCrashes
    /\ crashes' = crashes + 1
    /\ tx' = NoTx
    /\ UNCHANGED <<store, result>>

Next ==
    \/ cancel_run \/ cancel_node
    \/ CancelNode \/ FinishRun \/ FinishNode
    \/ ReportNode \/ AddNode \/ RollUp
    \/ Crash

Spec == Init /\ [][Next]_vars

(* A process that holds the lock and lives goes on, and an operator who    *)
(* keeps asking for the cancel of the run gets the lock again and again.   *)
FairSpec ==
    /\ Spec
    /\ WF_vars(CancelNode \/ FinishRun \/ FinishNode)
    /\ SF_vars(cancel_run)

-----------------------------------------------------------------------------
\* The run, its nodes and the phase of `run cancel` (run/cancel.rs) hold
\* values of their types.
TypeOK ==
    /\ \A i \in DOMAIN store.log : store.log[i] \in Event
    /\ store.view.manifest \in Manifest
    /\ are_node_files(store.view.nodes)
    /\ tx.pc \in {"idle", "nodes"}
    /\ tx.op \in {"none", "run", "node"}
    /\ tx.entry \in Status \cup {"absent"}
    /\ tx.todo \subseteq NodeIds
    /\ tx.ledger \in [NodeIds -> Status \cup {"absent"}]
    /\ crashes \in 0..MaxCrashes

(* The step completes a transaction that reports success with outcome out. *)
Completes(op) ==
    /\ tx.pc # "idle" /\ tx'.pc = "idle"
    /\ crashes' = crashes
    /\ result'.ok
    /\ tx.op = op

LogSettled(s) ==
    \A n \in NodeIds : log_statuses(s)[n] \in Terminal \cup {"absent"}

(* However often a cancel is interrupted and retried, the log holds one    *)
(* cancel report per node and one run.status under the cancel keys.        *)
OneCancelPerKey ==
    \A i, j \in DOMAIN store.log :
        /\ store.log[i].key.tag = "run-cancel"
        /\ store.log[i].kind = store.log[j].kind
        /\ store.log[i].key = store.log[j].key
        => i = j

(* Re-folding an event without moving the watermark is harmless: replaying *)
(* the tail gives the projections that the log alone gives.                *)
RefoldConverges ==
    healed(store).view = replay(store.log, NoProjections)

(* `run cancel` reports success only when the manifest on disk is terminal *)
(* and no node that the log knows is left live.                            *)
CancelSettles ==
    Completes("run") =>
      is_terminal(run_status(store')) /\ LogSettled(store')

(* The nodes a cancel claims to have cancelled are cancelled on disk, and  *)
(* a whole-run cancel accounts for every node of the log exactly once.     *)
HonestAccounting ==
    \A op \in {"run", "node"} : Completes(op) =>
      /\ \A n \in result'.cancelled : node_status(store', n) = "cancelled"
      /\ result'.cancelled \cap result'.terminal = {}
      /\ op = "run" =>
            result'.cancelled \cup result'.terminal
              = {n \in NodeIds : log_statuses(store')[n] # "absent"}

(* A cancel of the last live node settles the run with it, so that a run   *)
(* without a supervisor is not left behind.                                *)
LastNodeRollsUp ==
    Completes("node") /\ LogSettled(store') =>
      is_terminal(run_status(store'))

(* A run becomes terminal only when no node that the log knows is live,    *)
(* and becomes done only when all of them are done.                        *)
RunFollowsNodes ==
    LET before == run_status(healed(store))
        after == run_status(healed(store'))
    IN  before # after /\ is_terminal(after) =>
          /\ LogSettled(store')
          /\ after = "done" => \A n \in NodeIds :
                log_statuses(store')[n] \in {"done", "absent"}

(* Crashes do not strand a cancel: the manifest on disk ends up terminal.  *)
CancelConverges == <>[]is_terminal(run_status(store))

(* A cancel that reports a fresh cancellation has cancelled the run. *)
CancelTellsTheTruth ==
    [][ Completes("run") /\ ~result'.already =>
          run_status(store') = "cancelled" ]_vars

\* What a cancel reports is so (cancel.rs, CancelRunOutcome and
\* CancelNodeOutcome): success means a settled run, the nodes it names are
\* cancelled, and the last live node takes the run with it, which no
\* roll-up does earlier.
CancelIsHonest ==
    [][CancelSettles /\ HonestAccounting /\ LastNodeRollsUp /\ RunFollowsNodes]_vars

\* The log of a cancelled run stays sound through crashes and retries: the
\* invariant behind the keyed, re-foldable appends of cancel_run.
CancelReplays == TypeOK /\ OneCancelPerKey /\ RefoldConverges

=============================================================================
