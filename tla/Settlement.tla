----------------------------- MODULE Settlement -----------------------------
(***************************************************************************)
(* Settling a caller-owned run.  The caller's host launches Pi itself; the *)
(* run only records it.  Two locks keep the host and settlement apart: the *)
(* launch gate, held by the host from before the reservation until Pi has  *)
(* started and by a settlement while it records its intent, and the writer *)
(* lease, held shared by the host and by Pi and exclusively by a           *)
(* settlement.  `run merge`, `run salvage`, `run cancel` and `run discard` *)
(* record one sticky intent and then act under the exclusive lease; the    *)
(* supervisor resumes a merge whose driver died and removes what is left.  *)
(*                                                                         *)
(* An OID is a count: `tip` counts the commits of the worker branch (-1 is *)
(* no branch), `landed` how many of them the source has, `src` the commits *)
(* others put on the source and `base` those the worker branch stands on.  *)
(***************************************************************************)
EXTENDS Integers, FiniteSets

CONSTANTS
  Operators,  \* CLI processes that settle the run
  Keys,       \* settlement keys they use
  Ops,        \* operations they are used for
  MaxTip,     \* bound on the commits of the worker branch
  MaxGen,     \* bound on the Pi generations the host starts
  Trials      \* scenarios: calls and faults

ASSUME SettlementAssumption ==
  /\ Operators \cap {"none", "host", "sup"} = {}
  /\ MaxTip \in Nat /\ MaxGen \in Nat
  /\ Ops \subseteq {"merge", "salvage", "cancel", "discard"}
  /\ Trials \subseteq [calls : Nat, launch : Nat, kill : Nat, crash : Nat,
                       move : Nat, stray : Nat, bad : Nat]

VARIABLES
  host,    \* the caller's host: where it is and which generation it starts
  pi,      \* a Pi process of the run is alive
  led,     \* manifest and node, as folded from the log
  git,     \* worker branch, checkout, source branch, Pi's native history
  locks,   \* holders of the launch gate and of the exclusive lease
  act,     \* the operators
  sup,     \* the supervisor
  trial    \* what is left of the scenario

set_vars == <<host, pi, led, git, locks, act, sup, trial>>

NoIntent == [op |-> "none", key |-> "none", gen |-> 0]
NoTxn == [tip |-> -1, landed |-> 0, src |-> 0, base |-> 0]

Absent == [verb |-> "none", at |-> "idle", key |-> "none", txn |-> NoTxn]

SetInit ==
  /\ host = [at |-> "off", gen |-> 0]
  /\ pi = FALSE
  /\ led = [status |-> "live", node |-> "live", intent |-> NoIntent,
            life |-> [gen |-> 0, st |-> "none"], bound |-> 0,
            txn |-> NoTxn, proof |-> -1, report |-> NoTxn,
            receipt |-> -1, verified |-> FALSE, kept |-> FALSE]
  /\ git = [tip |-> 0, base |-> 0, there |-> TRUE, broken |-> FALSE,
            dirty |-> FALSE, rebasing |-> FALSE, src |-> 0, landed |-> 0,
            hist |-> TRUE]
  /\ locks = [gate |-> "none", ex |-> "none"]
  /\ act = [c \in Operators |-> Absent]
  /\ sup = [at |-> "idle", txn |-> NoTxn]
  /\ trial \in Trials

-----------------------------------------------------------------------------
Over(s) == s # "live"

Use(what) == trial[what] > 0 /\ trial' = [trial EXCEPT ![what] = @ - 1]

HostHolds == host.at \in {"open", "admitted", "started", "run"}

\* Nobody shares the lease and nobody else has it exclusively.
LeaseFree == ~HostHolds /\ ~pi /\ locks.ex = "none"

\* The bound native file is still the one that was bound.
session_verify == git.hist

\* The native history of the current generation is bound and intact, or
\* there never was a generation.
caller_history_retained ==
  IF led.life.gen = 0 THEN led.bound = 0
  ELSE led.bound = led.life.gen /\ session_verify

\* What CallerMergeAuthority::verify finds under the lease: the recorded
\* checkout on the recorded branch, the generation of the intent, its history.
verify ==
  /\ git.there /\ ~git.broken /\ ~git.rebasing
  /\ led.intent.gen = led.life.gen
  /\ caller_history_retained

-----------------------------------------------------------------------------
(* The host and Pi: outside this repository, except for the three verbs of *)
(* `run session` they call.                                                *)

HostOpens ==
  /\ host.at = "off" /\ locks.gate = "none" /\ locks.ex = "none"
  /\ ~pi /\ led.life.gen < MaxGen /\ Use("launch")
  /\ host' = [at |-> "open", gen |-> led.life.gen + 1]
  /\ locks' = [locks EXCEPT !.gate = "host"]
  /\ UNCHANGED <<pi, led, git, act, sup>>

HostCloses ==
  /\ host' = [at |-> "off", gen |-> 0]
  /\ locks' = [locks EXCEPT !.gate = IF @ = "host" THEN "none" ELSE @]

\* The first generation is reserved, a later one is recorded as started.
reserve ==
  IF led.intent = NoIntent /\ led.life.gen = 0 /\ led.bound = 0
  THEN {[gen |-> 1, st |-> "reserved"]} ELSE {}

update_started ==
  IF /\ led.intent = NoIntent /\ led.bound # 0
     /\ led.life.st \in {"exited", "failed"}
  THEN {[gen |-> led.life.gen + 1, st |-> "started"]} ELSE {}

HostAdmitted ==
  /\ host.at = "open"
  /\ ~Over(led.status) /\ git.there
  /\ \E fact \in (IF host.gen = 1 THEN reserve ELSE update_started) :
       /\ led' = [led EXCEPT !.life = fact]
       /\ host' = [host EXCEPT !.at = "admitted"]
  /\ UNCHANGED <<pi, git, locks, act, sup, trial>>

HostRefused ==
  /\ host.at = "open"
  /\ Over(led.status) \/ ~git.there \/ (IF host.gen = 1 THEN reserve ELSE update_started) = {}
  /\ HostCloses
  /\ UNCHANGED <<pi, led, git, act, sup, trial>>

\* Pi starts with the lease; only then does the host let go of the gate.
PiStarts ==
  /\ host.at = "admitted"
  /\ pi' = TRUE
  /\ host' = [host EXCEPT !.at = "started"]
  /\ UNCHANGED <<led, git, locks, act, sup, trial>>

HostLeavesGate ==
  /\ host.at = "started"
  /\ host' = [host EXCEPT !.at = "run"]
  /\ locks' = [locks EXCEPT !.gate = "none"]
  /\ UNCHANGED <<pi, led, git, act, sup, trial>>

\* `run session bind`: the native file exists once Pi runs.
bind ==
  /\ pi /\ led.bound = 0
  /\ ~Over(led.status) /\ git.there /\ led.intent = NoIntent
  /\ led.life.st \in {"reserved", "started"}
  /\ led' = [led EXCEPT !.bound = led.life.gen]
  /\ UNCHANGED <<host, pi, git, locks, act, sup, trial>>

\* `run session update`: what the host has seen of the current generation.
\* Under an intent only its end may still be recorded.
update ==
  /\ ~Over(led.status)
  /\ \/ /\ led.life.st = "reserved" /\ led.bound # 0 /\ pi /\ led.intent = NoIntent
        /\ led' = [led EXCEPT !.life.st = "started"]
     \/ /\ led.life.st = "started" /\ ~pi /\ host.at \in {"off", "run"}
        /\ led' = [led EXCEPT !.life.st = "exited"]
     \/ /\ led.life.st = "reserved" /\ ~pi /\ host.at = "off"
        /\ led' = [led EXCEPT !.life.st = "failed"]
  /\ UNCHANGED <<host, pi, git, locks, act, sup, trial>>

PiWorks ==
  /\ pi /\ git.there
  /\ \/ git' = [git EXCEPT !.dirty = TRUE]
     \/ /\ git.tip >= 0 /\ git.tip < MaxTip /\ ~git.rebasing
        /\ git' = [git EXCEPT !.tip = @ + 1, !.dirty = FALSE]
  /\ UNCHANGED <<host, pi, led, locks, act, sup, trial>>

PiEnds ==
  /\ pi /\ pi' = FALSE
  /\ UNCHANGED <<host, led, git, locks, act, sup, trial>>

\* The host has reaped its child and closes its own descriptor.
HostReaps ==
  /\ host.at = "run" /\ ~pi
  /\ HostCloses
  /\ UNCHANGED <<pi, led, git, act, sup, trial>>

\* The host dies; its Pi may outlive it, lease and all.
HostCrash ==
  /\ host.at # "off" /\ Use("crash")
  /\ HostCloses
  /\ pi' \in {pi, FALSE}
  /\ UNCHANGED <<led, git, act, sup>>

-----------------------------------------------------------------------------
(* The outside world.                                                      *)

SourceCommit ==
  /\ Use("move")
  /\ git' = [git EXCEPT !.src = @ + 1]
  /\ UNCHANGED <<host, pi, led, locks, act, sup>>

\* A writer that does not take the lease (flock is advisory).
StrayWriter ==
  /\ git.there /\ ~git.broken /\ Use("stray")
  /\ \/ git' = [git EXCEPT !.dirty = TRUE]
     \/ git.tip >= 0 /\ ~git.rebasing /\ git' = [git EXCEPT !.tip = @ + 1]
  /\ UNCHANGED <<host, pi, led, locks, act, sup>>

\* The native file is moved, replaced or removed.
HistoryLost ==
  /\ led.bound # 0 /\ git.hist /\ ~git.broken /\ Use("stray")
  /\ git' = [git EXCEPT !.hist = FALSE]
  /\ UNCHANGED <<host, pi, led, locks, act, sup>>

\* Somebody finishes or aborts a rebase left in the checkout, commits what
\* lies there.
HumanTidies ==
  /\ git.there /\ ~git.broken /\ locks.ex = "none" /\ ~pi
  /\ git.rebasing \/ git.dirty
  /\ git' = [git EXCEPT !.rebasing = FALSE, !.dirty = FALSE]
  /\ UNCHANGED <<host, pi, led, locks, act, sup, trial>>

\* A failing node.report settles a live node; the roll-up is the supervisor's.
FailingReport ==
  /\ ~Over(led.node) /\ Use("bad")
  /\ led' = [led EXCEPT !.node = "failed", !.txn = NoTxn]
  /\ UNCHANGED <<host, pi, git, locks, act, sup>>

-----------------------------------------------------------------------------
(* One settlement.                                                         *)

Go(c, at) == act' = [act EXCEPT ![c].at = at]

\* The process ends; its locks go with it.
Leave(c) ==
  /\ act' = [act EXCEPT ![c] = Absent]
  /\ locks' = [gate |-> IF locks.gate = c THEN "none" ELSE locks.gate,
               ex |-> IF locks.ex = c THEN "none" ELSE locks.ex]

\* One failed or cancelled node and no merge in progress.
discardable ==
  /\ led.status \in {"failed", "cancelled"} /\ led.node = led.status
  /\ led.txn = NoTxn

source_checked == ~git.broken

\* The checks each verb makes before it records anything.
eligible(verb) ==
  CASE verb = "merge" ->
         /\ Over(led.status) => led.intent # NoIntent
         /\ caller_history_retained
    [] verb = "salvage" ->
         /\ led.status \in {"cancelled", "done"} => led.intent # NoIntent
         /\ caller_history_retained
    [] verb = "discard" -> discardable /\ source_checked
    [] OTHER -> TRUE

Settle(c) ==
  /\ act[c].at = "idle" /\ Use("calls")
  /\ \E verb \in Ops, k \in Keys :
       /\ eligible(verb)
       /\ act' = [act EXCEPT ![c] = [verb |-> verb, at |-> "gate", key |-> k, txn |-> NoTxn]]
  /\ UNCHANGED <<host, pi, led, git, locks, sup>>

\* The gate within 300 ms, or "gate_busy" and nothing recorded.
take_gate(c) ==
  /\ act[c].at = "gate"
  /\ \/ /\ locks.gate = "none"
        /\ locks' = [locks EXCEPT !.gate = c]
        /\ Go(c, "intent")
     \/ locks.gate # "none" /\ Leave(c)
  /\ UNCHANGED <<host, pi, led, git, sup, trial>>

operation(verb) == IF verb = "salvage" THEN "merge" ELSE verb

\* An intent that may be recorded now, when there is none.
may_record(verb) ==
  CASE verb = "merge" -> ~Over(led.status)
    [] verb = "salvage" ->
         Over(led.status) => led.status = "failed" /\ led.node = "failed"
    [] verb = "cancel" -> ~Over(led.node) /\ ~Over(led.status)
    [] verb = "discard" -> discardable /\ led.status = "failed"

\* The intent a settlement continues: its own, or for a discard the
\* cancellation under the same key.
continues(verb, k) ==
  /\ led.intent.key = k /\ led.intent.gen = led.life.gen
  /\ \/ led.intent.op = operation(verb)
     \/ verb = "discard" /\ led.intent.op = "cancel" /\ discardable

record_intent(c) ==
  LET verb == act[c].verb
      k == act[c].key
      fresh == [op |-> operation(verb), key |-> k, gen |-> led.life.gen]
      granted == IF led.intent = NoIntent THEN may_record(verb) ELSE continues(verb, k)
  IN  /\ act[c].at = "intent"
      /\ led' = IF granted /\ led.intent = NoIntent
                THEN [led EXCEPT !.intent = fresh] ELSE led
      /\ IF granted
         THEN /\ Go(c, "lease")
              /\ locks' = [locks EXCEPT !.gate = IF @ = c THEN "none" ELSE @]
         ELSE Leave(c)
      /\ UNCHANGED <<host, pi, git, sup, trial>>

\* A merge already reported needs no lease; a pending or otherwise settled
\* one is recovered instead of executed.
route(verb) ==
  IF operation(verb) # "merge" THEN verb
  ELSE IF led.report # NoTxn THEN "reported"
  ELSE IF led.txn # NoTxn \/ led.node \in {"cancelled", "done"}
                          \/ led.status \in {"cancelled", "done"}
  THEN "judge" ELSE "merge"

\* The exclusive lease within 300 ms, or "writer_active".
acquire_exclusive(c) ==
  /\ act[c].at = "lease"
  /\ \/ /\ route(act[c].verb) # "reported" /\ LeaseFree
        /\ locks' = [locks EXCEPT !.ex = c]
        /\ Go(c, route(act[c].verb))
     \/ (route(act[c].verb) = "reported" \/ ~LeaseFree) /\ Leave(c)
  /\ UNCHANGED <<host, pi, led, git, sup, trial>>

-----------------------------------------------------------------------------
(* `run merge` and `run salvage`.                                          *)

\* The OIDs of both branches now.
Snapshot == [tip |-> git.tip, landed |-> git.landed, src |-> git.src, base |-> git.base]

\* merge.started under the lease.
execute_caller_merge(c) ==
  /\ act[c].at = "merge"
  /\ IF /\ led.status \in {"live", "failed"} /\ led.node \in {"live", "failed"}
        /\ (led.status = "failed") = (led.node = "failed")
        /\ led.txn = NoTxn /\ verify /\ git.tip >= 0
     THEN /\ led' = [led EXCEPT !.proof = -1, !.txn = Snapshot]
          /\ act' = [act EXCEPT ![c].at = "rebase", ![c].txn = Snapshot]
          /\ UNCHANGED locks
     ELSE Leave(c) /\ UNCHANGED led
  /\ UNCHANGED <<host, pi, git, sup, trial>>

\* The source branch is where the transaction saw it.
check_source(txn) == git.src = txn.src /\ git.landed = txn.landed

\* The worker branch is the source branch: nothing to rebase.
Integrated == git.tip = git.landed /\ git.base = git.src

\* merge.aborted, and the error is returned.
abort_merge_start(c) ==
  /\ led' = [led EXCEPT !.txn = NoTxn]
  /\ Leave(c)

rebase_starts(c) ==
  /\ act[c].at = "rebase"
  /\ LET ready == /\ ~git.dirty /\ ~git.rebasing /\ check_source(act[c].txn)
                  /\ Integrated \/ verify
     IN  \/ /\ ready /\ Go(c, IF Integrated THEN "proof" ELSE "rebasing")
            /\ git' = [git EXCEPT !.rebasing = ~Integrated]
            /\ UNCHANGED <<led, locks>>
         \/ ~ready /\ abort_merge_start(c) /\ UNCHANGED git
  /\ UNCHANGED <<host, pi, sup, trial>>

\* The rebase ends, or stops at a conflict and is left for a human.
rebase_ends(c) ==
  /\ act[c].at = "rebasing"
  /\ \/ /\ git' = [git EXCEPT !.rebasing = FALSE, !.base = act[c].txn.src]
        /\ Go(c, "proof") /\ UNCHANGED <<led, locks, trial>>
     \/ Use("bad") /\ abort_merge_start(c) /\ UNCHANGED git
  /\ UNCHANGED <<host, pi, sup>>

\* merge.rebased pins the tip that is about to be landed.
before_ref_move(c) ==
  /\ act[c].at = "proof"
  /\ \/ /\ check_source(act[c].txn) /\ verify
        /\ led' = [led EXCEPT !.proof = git.tip]
        /\ Go(c, "ff") /\ UNCHANGED locks
     \/ ~(check_source(act[c].txn) /\ verify) /\ abort_merge_start(c)
  /\ UNCHANGED <<host, pi, git, sup, trial>>

\* git merge --ff-only refuses a source the branch does not contain.
fast_forward(c) ==
  /\ act[c].at = "ff"
  /\ \/ /\ verify /\ git.src = git.base
        /\ git' = [git EXCEPT !.landed = git.tip]
        /\ Go(c, "report") /\ UNCHANGED <<led, locks>>
     \/ ~(verify /\ git.src = git.base) /\ abort_merge_start(c) /\ UNCHANGED git
  /\ UNCHANGED <<host, pi, sup, trial>>

\* The explicit-merge report settles a live node, is adopted over a failed one.
reduce_merge_report(l, txn) ==
  IF l.node \in {"live", "failed"}
  THEN [l EXCEPT !.node = "done", !.txn = NoTxn, !.report = txn]
  ELSE l

report_merge(c) ==
  /\ act[c].at = "report"
  /\ led' = IF verify THEN reduce_merge_report(led, act[c].txn) ELSE led
  /\ Leave(c)
  /\ UNCHANGED <<host, pi, git, sup, trial>>

-----------------------------------------------------------------------------
(* Recovery of a merge whose driver is gone, by a retry of the verb or by  *)
(* the supervisor, under the lease.                                        *)

\* Completion is tied to the recorded rebased tip being in the source.
caller_verdict(txn) ==
  IF led.proof = -1
  THEN IF check_source(txn) THEN "reject" ELSE "unknown"
  ELSE IF check_source(txn)
  THEN IF /\ led.proof = txn.landed /\ txn.tip = txn.landed /\ txn.base = txn.src
       THEN "complete" ELSE "reject"
  ELSE IF led.proof > git.landed THEN "reject"
  ELSE IF led.proof = txn.landed THEN "unknown" ELSE "complete"

\* The pending transaction is still the one judged and the node may adopt it.
resolve(l, txn, verdict) ==
  IF l.txn # txn \/ l.node \in {"cancelled", "done"} THEN l
  ELSE CASE verdict = "complete" -> reduce_merge_report(l, txn)
         [] verdict = "reject" -> [l EXCEPT !.txn = NoTxn]
         [] OTHER -> l

recover_judges(c) ==
  /\ act[c].at = "judge"
  /\ \/ /\ led.txn # NoTxn /\ verify /\ caller_verdict(led.txn) # "unknown"
        /\ act' = [act EXCEPT ![c].txn = led.txn, ![c].at = caller_verdict(led.txn)]
        /\ UNCHANGED locks
     \/ ~(led.txn # NoTxn /\ verify /\ caller_verdict(led.txn) # "unknown") /\ Leave(c)
  /\ UNCHANGED <<host, pi, led, git, sup, trial>>

\* A rejected transaction of a live node is merged afresh, lease taken anew.
recover_resolves(c) ==
  /\ act[c].at \in {"complete", "reject"}
  /\ led' = IF verify THEN resolve(led, act[c].txn, act[c].at) ELSE led
  /\ IF act[c].at = "reject" /\ ~Over(led.node) /\ verify
     THEN /\ act' = [act EXCEPT ![c].at = "lease", ![c].txn = NoTxn]
          /\ locks' = [locks EXCEPT !.ex = "none"]
     ELSE Leave(c)
  /\ UNCHANGED <<host, pi, git, sup, trial>>

-----------------------------------------------------------------------------
(* `run cancel` and `run discard`.                                         *)

\* Both terminal events under the lease and one run lock.
cancel_caller(c) ==
  /\ act[c].at = "cancel"
  /\ led' = IF ~Over(led.status) /\ led.node \in {"live", "cancelled"} /\ verify
            THEN [led EXCEPT !.status = "cancelled", !.node = "cancelled", !.txn = NoTxn]
            ELSE led
  /\ Leave(c)
  /\ UNCHANGED <<host, pi, git, sup, trial>>

\* The receipt names the tip that may be lost; a retry keeps the first one.
authorize_discard(c) ==
  LET target == IF git.tip >= 0 THEN git.tip ELSE led.receipt
      ok == /\ discardable /\ source_checked /\ caller_history_retained
            /\ target # -1
            /\ led.receipt \in {-1, target}
            /\ led.receipt = -1 => git.there \/ git.tip >= 0
            /\ led.receipt = -1 \/ git.there => verify
  IN  /\ act[c].at = "discard"
      /\ led' = IF ok THEN [led EXCEPT !.receipt = target] ELSE led
      /\ IF ok THEN Go(c, IF git.there THEN "drop" ELSE "prune") /\ UNCHANGED locks
         ELSE Leave(c)
      /\ UNCHANGED <<host, pi, git, sup, trial>>

\* Faulty variant: what was read before is relied on.
recheck_lax ==
  discardable /\ source_checked /\ caller_history_retained

\* Everything read again right before each removal.
recheck ==
  /\ discardable /\ source_checked /\ caller_history_retained
  /\ git.tip \in {-1, led.receipt}
  /\ git.tip = -1 => ~git.there

\* git worktree remove --force.  A kill in the middle leaves a checkout that
\* is registered and has lost its .git file.
drop_checkout(c) ==
  /\ act[c].at = "drop"
  /\ \/ /\ recheck /\ verify
        /\ git' = [git EXCEPT !.broken = TRUE]
        /\ Go(c, "dropping") /\ UNCHANGED locks
     \/ ~(recheck /\ verify) /\ Leave(c) /\ UNCHANGED git
  /\ UNCHANGED <<host, pi, led, sup, trial>>

drop_ends(c) ==
  /\ act[c].at = "dropping"
  /\ git' = [git EXCEPT !.there = FALSE, !.broken = FALSE, !.dirty = FALSE, !.rebasing = FALSE]
  /\ Go(c, "prune")
  /\ UNCHANGED <<host, pi, led, locks, sup, trial>>

\* The ref is deleted only at the recorded OID.
prune_branch(c) ==
  /\ act[c].at = "prune"
  /\ git' = IF recheck /\ ~git.there THEN [git EXCEPT !.tip = -1] ELSE git
  /\ Leave(c)
  /\ UNCHANGED <<host, pi, led, sup, trial>>

\* A settlement is killed between any two of its steps.
OperatorKilled(c) ==
  /\ act[c].at # "idle" /\ Use("kill")
  /\ Leave(c)
  /\ UNCHANGED <<host, pi, led, git, sup>>

-----------------------------------------------------------------------------
(* The supervisor: recovery, roll-up, and cleanup of a settled run.        *)

Put(at) == sup' = [sup EXCEPT !.at = at]

LeaseFor(who) == LeaseFree /\ locks' = [locks EXCEPT !.ex = who]

Unlease == locks' = [locks EXCEPT !.ex = IF @ = "sup" THEN "none" ELSE @]

\* Faulty variant: a settled run is not recovered.
recover_run_unsettled ==
  /\ sup.at = "idle" /\ led.txn # NoTxn /\ ~Over(led.status)
  /\ LeaseFor("sup")
  /\ IF verify /\ caller_verdict(led.txn) # "unknown"
     THEN sup' = [sup EXCEPT !.at = caller_verdict(led.txn), !.txn = led.txn]
     ELSE Put("release")
  /\ UNCHANGED <<host, pi, led, git, act, trial>>

recover_run ==
  /\ sup.at = "idle" /\ led.txn # NoTxn
  /\ LeaseFor("sup")
  /\ IF verify /\ caller_verdict(led.txn) # "unknown"
     THEN sup' = [sup EXCEPT !.at = caller_verdict(led.txn), !.txn = led.txn]
     ELSE Put("release")
  /\ UNCHANGED <<host, pi, led, git, act, trial>>

recover_caller_node ==
  /\ sup.at \in {"complete", "reject"}
  /\ led' = IF verify THEN resolve(led, sup.txn, sup.at) ELSE led
  /\ Put("release")
  /\ UNCHANGED <<host, pi, git, locks, act, trial>>

\* The end of a tick that held the lease.
TickOver ==
  /\ sup.at = "release"
  /\ sup' = [at |-> "idle", txn |-> NoTxn]
  /\ Unlease
  /\ UNCHANGED <<host, pi, led, git, act, trial>>

\* run.status follows the node; a failed run still becomes done.
roll_up ==
  /\ sup.at = "idle"
  /\ \/ led.node = "done" /\ led.status \in {"live", "failed"}
     \/ led.node = "failed" /\ led.status = "live"
  /\ led' = [led EXCEPT !.status = led.node]
  /\ UNCHANGED <<host, pi, git, locks, act, sup, trial>>

\* cleanup.branch_preserved, and the supervisor has nothing left to do.
Preserve == led' = [led EXCEPT !.kept = TRUE]

\* The recovery that comes first in every tick had nothing it could do.
RecoveryTried ==
  led.txn # NoTxn => ~LeaseFree \/ ~verify \/ caller_verdict(led.txn) = "unknown"

\* A failed run is handed to the operator; the supervisor leaves.
cleanup_failed ==
  /\ sup.at = "idle" /\ led.status = "failed" /\ led.receipt = -1
  /\ RecoveryTried
  /\ led.node # "done"
  /\ Preserve /\ Put("done")
  /\ UNCHANGED <<host, pi, git, locks, act, trial>>

\* A cancelled run is preserved too, once nobody writes any more.
cleanup_cancelled ==
  /\ sup.at = "idle" /\ led.status = "cancelled" /\ led.receipt = -1
  /\ LeaseFree /\ Preserve
  /\ verify /\ Put("done")
  /\ UNCHANGED <<host, pi, git, locks, act, trial>>

\* Of a discard the supervisor only confirms that it is complete.
cleanup_discarded ==
  /\ sup.at = "idle" /\ discardable /\ led.receipt # -1
  /\ LeaseFree /\ source_checked /\ caller_history_retained
  /\ ~git.there /\ git.tip = -1
  /\ Put("done")
  /\ UNCHANGED <<host, pi, led, git, locks, act, trial>>

\* Under the lease: an explicit merge, its landing and a clean checkout.
merged_safely ==
  /\ led.status = "done" /\ led.report # NoTxn
  /\ git.there \/ led.verified
  /\ git.there => verify /\ ~git.dirty
  /\ ~git.there => caller_history_retained
  /\ caller_verdict(led.report) = "complete"
  /\ git.tip <= git.landed

cleanup_merged ==
  /\ sup.at = "idle" /\ led.status = "done" /\ led.report # NoTxn
  /\ LeaseFor("sup")
  /\ IF merged_safely
     THEN /\ led' = [led EXCEPT !.verified = TRUE]
          /\ Put(IF git.there THEN "remove" ELSE "unbranch")
     ELSE led.kept = FALSE /\ Preserve /\ Put("release")
  /\ UNCHANGED <<host, pi, git, act, trial>>

\* git worktree remove, without force: a dirty checkout stays.
remove_worktree ==
  /\ sup.at = "remove"
  /\ \/ /\ verify /\ ~git.dirty
        /\ git' = [git EXCEPT !.there = FALSE] /\ Put("unbranch")
        /\ UNCHANGED led
     \/ ~(verify /\ ~git.dirty) /\ Preserve /\ Put("release") /\ UNCHANGED git
  /\ UNCHANGED <<host, pi, locks, act, trial>>

\* git branch -d refuses a branch the source does not contain.
delete_branch ==
  /\ sup.at = "unbranch"
  /\ LET safe == /\ caller_verdict(led.report) = "complete"
                 /\ caller_history_retained /\ git.tip <= git.landed
     IN  \/ safe /\ git' = [git EXCEPT !.tip = -1] /\ Put("finished") /\ UNCHANGED led
         \/ ~safe /\ Preserve /\ Put("release") /\ UNCHANGED git
  /\ UNCHANGED <<host, pi, locks, act, trial>>

cleanup_done ==
  /\ sup.at = "finished"
  /\ sup' = [at |-> "done", txn |-> NoTxn] /\ Unlease
  /\ UNCHANGED <<host, pi, led, git, act, trial>>

SupervisorKilled ==
  /\ sup.at \notin {"down", "done"} /\ Use("kill")
  /\ sup' = [at |-> "down", txn |-> NoTxn] /\ Unlease
  /\ UNCHANGED <<host, pi, led, git, act>>

\* `run reattach`, or the consumer `run merge` ensures for its report.
Reattach ==
  /\ \/ sup.at = "down"
     \/ sup.at = "done" /\ led.status = "failed" /\ (led.txn # NoTxn \/ led.node = "done")
  /\ sup' = [at |-> "idle", txn |-> NoTxn]
  /\ UNCHANGED <<host, pi, led, git, locks, act, trial>>

\* Nothing of the run moves any more.
Still ==
  /\ \A c \in Operators : act[c].at = "idle"
  /\ host.at = "off" /\ ~pi
  /\ UNCHANGED set_vars

-----------------------------------------------------------------------------
HostStep ==
  \/ HostOpens \/ HostAdmitted \/ HostRefused \/ PiStarts \/ HostLeavesGate
  \/ bind \/ update \/ PiWorks \/ PiEnds \/ HostReaps \/ HostCrash

World == SourceCommit \/ StrayWriter \/ HistoryLost \/ HumanTidies \/ FailingReport

OperatorSteps(c) ==
  \/ take_gate(c) \/ record_intent(c) \/ acquire_exclusive(c)
  \/ execute_caller_merge(c) \/ rebase_starts(c) \/ rebase_ends(c)
  \/ before_ref_move(c) \/ fast_forward(c) \/ report_merge(c)
  \/ recover_judges(c) \/ recover_resolves(c)
  \/ cancel_caller(c) \/ authorize_discard(c) \/ drop_checkout(c)
  \/ drop_ends(c) \/ prune_branch(c)

SupervisorSteps ==
  \/ recover_run \/ recover_caller_node \/ TickOver \/ roll_up
  \/ cleanup_failed \/ cleanup_cancelled \/ cleanup_discarded
  \/ cleanup_merged \/ remove_worktree \/ delete_branch \/ cleanup_done

SetNext ==
  \/ HostStep \/ World
  \/ \E c \in Operators : Settle(c) \/ OperatorSteps(c) \/ OperatorKilled(c)
  \/ SupervisorSteps \/ SupervisorKilled \/ Reattach \/ Still

SetFairness ==
  /\ WF_set_vars(PiEnds) /\ WF_set_vars(HostReaps)
  /\ WF_set_vars(HostAdmitted \/ HostRefused \/ PiStarts \/ HostLeavesGate)
  /\ \A c \in Operators : WF_set_vars(OperatorSteps(c))
  /\ WF_set_vars(SupervisorSteps) /\ WF_set_vars(Reattach)

SetSpec == SetInit /\ [][SetNext]_set_vars /\ SetFairness

-----------------------------------------------------------------------------
(* Properties.                                                             *)

\* The fence, the intent, the generations and the drivers of a settlement
\* hold values of their types.
SetTypeOK ==
  /\ host.at \in {"off", "open", "admitted", "started", "run"} /\ host.gen \in 0..MaxGen
  /\ pi \in BOOLEAN
  /\ led.status \in {"live", "failed", "cancelled", "done"}
  /\ led.node \in {"live", "failed", "cancelled", "done"}
  /\ led.intent.op \in {"none", "merge", "cancel", "discard"}
  /\ led.bound \in 0..MaxGen /\ led.receipt \in Int /\ led.proof \in Int
  /\ git.tip \in Int /\ git.landed \in Nat /\ git.hist \in BOOLEAN
  /\ locks.gate \in Operators \cup {"host", "none"}
  /\ locks.ex \in Operators \cup {"sup", "none"}

\* No Pi starts once an intent is recorded, whatever order the host's
\* admission and the settlement take (launch gate, writer_fence.rs).
NoPiAfterIntent ==
  ~pi /\ pi' => led.intent = NoIntent

\* While a Pi of the run is alive its checkout and its branch stay, nothing
\* of it is landed, and the run is not cancelled (exclusive writer lease).
WriterKeepsItsCheckout ==
  pi => /\ git'.there = git.there
        /\ git'.landed = git.landed
        /\ git.tip >= 0 => git'.tip >= 0
        /\ led.status # "cancelled" => led'.status # "cancelled"

\* No commit and no edit is removed unless the source has it or a discard
\* receipt names it.
NothingLostUnasked ==
  /\ git.tip >= 0 /\ git'.tip < 0 => git.tip <= git.landed \/ led.receipt = git.tip
  /\ git.dirty /\ git.there /\ ~git'.there => led.receipt # -1

\* A run whose merge moved the source is never cancelled and never discarded.
OneOutcome ==
  git.landed > 0 => led.status # "cancelled" /\ led.receipt = -1

\* A merge is reported only if the source has what it was started for.
ReportedIsLanded ==
  led.report # NoTxn => led.report.tip <= git.landed

\* Nothing is landed, no checkout and no branch removed, while the history of
\* the latest Pi generation is unbound, damaged or gone (verify and
\* caller_history_retained, asked again before each removal).
UnretainedIsPreserved ==
  ~caller_history_retained =>
    /\ git'.landed = git.landed
    /\ git.there => git'.there
    /\ git.tip >= 0 => git'.tip >= 0

\* A merge left behind by its driver is reported or aborted, unless what
\* happened cannot be told from the checkout and the source.
PendingResolves ==
  led.txn # NoTxn ~> \/ led.txn = NoTxn
                     \/ ~verify \/ caller_verdict(led.txn) = "unknown"

\* A merged run ends with checkout and branch gone, unless something is
\* left there that is not in the source or cannot be shown to be.
MergedIsCleaned ==
  led.report # NoTxn ~>
    \/ ~git.there /\ git.tip = -1
    \/ git.dirty \/ git.tip > git.landed \/ git.rebasing
    \/ ~caller_history_retained
    \/ caller_verdict(led.report) # "complete"

\* A caller-owned run is settled once and without a writer: no Pi starts or is
\* cut off under a settlement, nothing goes that was not landed or named by a
\* discard, and the outcome on record is the one in Git.
SettlesSafely ==
  [][ /\ SetTypeOK' /\ OneOutcome' /\ ReportedIsLanded'
      /\ NoPiAfterIntent /\ WriterKeepsItsCheckout
      /\ NothingLostUnasked /\ UnretainedIsPreserved ]_set_vars

=============================================================================
