------------------------------ MODULE Disposal ------------------------------
(***************************************************************************)
(* What becomes of the checkout and the branch a failed or cancelled run   *)
(* left behind.  `run discard` deletes them: it holds the run lock from    *)
(* its first read to its answer, records a receipt that pins the directory *)
(* (inode), the source repository and the branch tip before it deletes     *)
(* anything, and a later call finishes what an earlier one left.           *)
(* `run salvage` finishes the run instead: it fences the old worker and    *)
(* drives a merge without holding the run lock in between.                 *)
(*                                                                         *)
(* Nothing keeps the user out of the checkout: files are edited, commits   *)
(* made, directories and repositories replaced between any two steps.      *)
(* Calls are killed anywhere, also inside `git worktree remove`, which may *)
(* also deregister the checkout and then fail to delete its files.         *)
(* Caller-owned runs (Settlement) and the merge itself (Merge) are         *)
(* elsewhere; here a merge starts and lands or fails.                      *)
(***************************************************************************)
EXTENDS Integers, FiniteSets

CONSTANTS
    DNodes,     \* the worker nodes of the run
    Reasons,    \* values of --reason
    Hands,      \* the callers of discard and salvage
    Chores,     \* what they ask: [verb, node, reason, force, sound]
    Odds        \* budgets: [calls, touches, kills, faults] and a start: [nodes, status, live]

VARIABLES
    yard,       \* node -> its directory, registration and branch
    repo,       \* the repository at the source path: the "own" one or an "other"
    worker,     \* the process behind the recorded pid, and whether its exit was told
    watcher,    \* the supervisor: "alive", "gone" or "unreadable" pid file
    book,       \* the log: status of the run, receipts, force upgrades
    keeper,     \* the holder of the run lock
    hand,       \* caller -> its call
    traces,     \* history: what happened outside the guarantees
    odds

disposal_vars == <<yard, repo, worker, watcher, book, keeper, hand, traces, odds>>

Nobody == "nobody"
AnyNode == "any"
Bare == [ino |-> 0, mark |-> "bound", reg |-> FALSE, tip |-> 0, dirty |-> FALSE, subs |-> FALSE]
NoReceipt == [seq |-> 0, reason |-> "none", force |-> FALSE, ino |-> 0, oid |-> 0]
AtHome == [pc |-> "home", ask |-> [verb |-> "none", node |-> AnyNode, reason |-> "none",
                                   force |-> FALSE, sound |-> TRUE],
           node |-> AnyNode, dir |-> FALSE, branch |-> FALSE, orphan |-> FALSE,
           fence |-> FALSE, said |-> "none"]

ASSUME DisposalAssumption ==
    /\ Nobody \notin Hands /\ AnyNode \notin DNodes
    /\ Chores \subseteq [verb : {"discard", "salvage"}, node : DNodes \cup {AnyNode},
                         reason : Reasons \cup {"none"}, force : BOOLEAN, sound : BOOLEAN]
    /\ Odds \subseteq [calls : Nat, touches : Nat, kills : Nat, faults : Nat,
                       nodes : SUBSET DNodes, status : {"running", "failed", "cancelled"},
                       live : BOOLEAN]

DisposalInit ==
    /\ odds \in Odds
    /\ yard \in [DNodes -> {Bare} \cup [ino : {1}, mark : {"bound"}, reg : {TRUE}, tip : {1},
                                       dirty : BOOLEAN, subs : BOOLEAN]]
    /\ {n \in DNodes : yard[n].ino # 0} = odds.nodes
    /\ Cardinality(odds.nodes) > 1 => \A n \in odds.nodes : ~yard[n].dirty /\ ~yard[n].subs
    /\ repo = "own"
    /\ worker \in IF odds.live THEN {[who |-> "own", clear |-> c, told |-> FALSE] : c \in BOOLEAN}
                  ELSE {[who |-> "none", clear |-> TRUE, told |-> TRUE]}
    /\ watcher \in IF odds.live THEN {"alive", "gone", "unreadable"} ELSE {"gone"}
    /\ book = [status |-> odds.status, seq |-> 0,
               receipt |-> [n \in DNodes |-> NoReceipt], upgrade |-> [n \in DNodes |-> FALSE]]
    /\ keeper = Nobody
    /\ hand = [h \in Hands |-> AtHome]
    /\ traces = [touched |-> FALSE, late |-> FALSE, torn |-> FALSE, misfired |-> FALSE,
                 unsound |-> FALSE]

Stake(kind) == odds[kind] > 0 /\ odds' = [odds EXCEPT ![kind] = @ - 1]
Turn(h, pc) == hand' = [hand EXCEPT ![h].pc = pc]
Replies(h, said) == hand' = [hand EXCEPT ![h] = [AtHome EXCEPT !.said = said]]
Discards(h) == hand[h].ask.verb = "discard"

-----------------------------------------------------------------------------
(* What a call can see.                                                    *)

Receipt(n) == book.receipt[n]
Receipted(n) == Receipt(n).seq # 0
Vanished(n) == yard[n].ino = 0 /\ yard[n].tip = 0

\* A repository that took the place of the source knows no checkout of ours.
Registered(n) == yard[n].reg /\ repo = "own"

\* retained::observe: a checkout that is there must be registered and bound to
\* the source repository.
verified_for_discard(n) == yard[n].ino # 0 => Registered(n) /\ yard[n].mark = "bound"

classify_worker ==
    CASE worker.who = "own" /\ worker.clear -> "live"
      [] worker.who # "none" /\ ~worker.clear /\ ~worker.told -> "unverifiable"
      [] OTHER -> IF worker.told THEN "exited" ELSE "gone"

\* The checkout is still the directory, in the repository and at the commit of
\* the receipt.
verify_registered(n) ==
    /\ Receipt(n).ino # 0 /\ yard[n].ino = Receipt(n).ino
    /\ repo = "own" /\ yard[n].reg
    /\ yard[n].tip = Receipt(n).oid

\* The same for what git left after it deregistered the checkout.
verify_orphan(n) ==
    /\ Receipt(n).ino # 0 /\ yard[n].ino = Receipt(n).ino
    /\ repo = "own" /\ ~yard[n].reg /\ yard[n].mark = "stale"
    /\ yard[n].tip = Receipt(n).oid

verify_source_identity(n) == Receipt(n).ino # 0 => repo = "own"
is_orphan(n) == Receipted(n) /\ yard[n].ino # 0 /\ ~verified_for_discard(n)

\* Faulty variant: a clean checkout with submodules is the only reason to add
\* --force later.
force_retry_allowed_subs(n, force) ==
    /\ force /\ ~Receipt(n).force /\ Receipt(n).ino # 0
    /\ yard[n].ino # 0 /\ yard[n].subs /\ ~yard[n].dirty

\* --force may be added to a recorded discard for what git left half removed,
\* and for submodules.
force_retry_allowed(n, force) ==
    /\ force /\ ~Receipt(n).force /\ Receipt(n).ino # 0
    /\ yard[n].ino # 0
    /\ ~verified_for_discard(n) \/ (yard[n].subs /\ ~yard[n].dirty)

conflicts(n, reason, force) ==
    /\ Receipted(n)
    /\ \/ Receipt(n).reason # reason
       \/ /\ Receipt(n).force # force
          /\ ~(force /\ ~Receipt(n).force /\ book.upgrade[n])
          /\ ~force_retry_allowed(n, force)

force_required(n) ==
    \/ yard[n].ino # 0 /\ verified_for_discard(n) /\ (yard[n].subs \/ yard[n].dirty)
    \/ is_orphan(n) /\ ~Receipt(n).force

\* The decision of a discard of node n, up to the first write.
verdict(n, reason, force) ==
    CASE conflicts(n, reason, force) -> "conflict"
      [] is_orphan(n) /\ ~verify_orphan(n) -> "unverifiable"
      [] Vanished(n) -> IF Receipted(n) THEN "already" ELSE "nothing"
      [] ~is_orphan(n) /\ ~verified_for_discard(n) -> "unverifiable"
      [] watcher # "gone" -> "supervisor"
      [] classify_worker \in {"live", "unverifiable"} -> "worker"
      [] /\ ~is_orphan(n) /\ Receipt(n).ino # 0
         /\ IF yard[n].ino # 0 THEN ~verify_registered(n) ELSE ~verify_source_identity(n)
         -> "unverifiable"
      [] force_required(n) /\ ~force -> "force"
      [] OTHER -> "go"

\* The node meant: the one asked for, the only one with resources left, or,
\* when all are gone, the one discarded last.
selected(wanted) ==
    LET candidates == {n \in DNodes : Receipted(n) \/ ~Vanished(n)}
        current    == {n \in candidates : ~Vanished(n)}
    IN  CASE wanted # AnyNode -> candidates \cap {wanted}
          [] wanted = AnyNode /\ current # {} ->
               IF Cardinality(current) = 1 THEN current ELSE {}
          [] OTHER -> {n \in candidates : \A k \in candidates : Receipt(k).seq <= Receipt(n).seq}

-----------------------------------------------------------------------------
(* run discard.                                                            *)

Call(h, ask) ==
    /\ hand[h].pc = "home" /\ Stake("calls")
    /\ hand' = [hand EXCEPT ![h] = [AtHome EXCEPT !.pc = IF ask.verb = "discard" THEN "lock"
                                                         ELSE "snapshot", !.ask = ask]]
    /\ UNCHANGED <<yard, repo, worker, watcher, book, keeper, traces>>

TakeLock(h) ==
    /\ hand[h].pc = "lock" /\ keeper = Nobody
    /\ keeper' = h
    /\ Turn(h, "inspect")
    /\ UNCHANGED <<yard, repo, worker, watcher, book, traces, odds>>

\* The call answers and lets go of the lock.
Finish(h, said) == Replies(h, said) /\ keeper' = IF keeper = h THEN Nobody ELSE keeper

\* Everything is looked at, and refused, before anything is written.
Inspect(h) ==
    /\ hand[h].pc = "inspect"
    /\ IF book.status \notin {"failed", "cancelled"} \/ selected(hand[h].ask.node) = {}
         THEN Finish(h, "refused")
         ELSE LET n == CHOOSE k \in selected(hand[h].ask.node) : TRUE
                  v == verdict(n, hand[h].ask.reason, hand[h].ask.force)
              IN  IF v = "go"
                    THEN /\ hand' = [hand EXCEPT ![h].pc = IF Receipted(n) THEN "upgrade"
                                                           ELSE "receipt",
                                                 ![h].node = n,
                                                 ![h].dir = yard[n].ino # 0,
                                                 ![h].branch = yard[n].tip # 0,
                                                 ![h].orphan = is_orphan(n)]
                         /\ UNCHANGED keeper
                    ELSE Finish(h, IF v = "already" THEN "already" ELSE "refused")
    /\ UNCHANGED <<yard, repo, worker, watcher, book, traces, odds>>

\* The receipt pins what is there now.
WriteReceipt(h) ==
    /\ hand[h].pc = "receipt"
    /\ LET n == hand[h].node
           r == [seq |-> book.seq + 1, reason |-> hand[h].ask.reason,
                 force |-> hand[h].ask.force,
                 ino |-> IF hand[h].dir THEN yard[n].ino ELSE 0,
                 oid |-> IF hand[h].branch THEN yard[n].tip ELSE 0]
       IN  IF /\ hand[h].branch => yard[n].tip # 0
              /\ hand[h].dir => yard[n].ino # 0 /\ Registered(n) /\ yard[n].tip = r.oid
             THEN /\ book' = [book EXCEPT !.receipt[n] = r, !.seq = @ + 1]
                  /\ Turn(h, "upgrade")
                  /\ UNCHANGED keeper
             ELSE Finish(h, "refused") /\ UNCHANGED book
    /\ UNCHANGED <<yard, repo, worker, watcher, traces, odds>>

\* A --force that the receipt does not have is recorded beside it.
WriteUpgrade(h) ==
    /\ hand[h].pc = "upgrade"
    /\ LET n == hand[h].node
       IN  book' = IF hand[h].ask.force /\ ~Receipt(n).force
                     THEN [book EXCEPT !.upgrade[n] = TRUE] ELSE book
    /\ Turn(h, IF hand[h].dir THEN "verify" ELSE "check")
    /\ UNCHANGED <<yard, repo, worker, watcher, keeper, traces, odds>>

\* The last look at the directory before it is removed.
VerifyTarget(h) ==
    /\ hand[h].pc = "verify"
    /\ IF IF hand[h].orphan THEN verify_orphan(hand[h].node)
          ELSE Receipt(hand[h].node).ino # 0 => verify_registered(hand[h].node)
         THEN Turn(h, "remove") /\ traces' = [traces EXCEPT !.late = FALSE] /\ UNCHANGED keeper
         ELSE Finish(h, IF hand[h].orphan THEN "partial" ELSE "refused") /\ UNCHANGED traces
    /\ UNCHANGED <<yard, repo, worker, watcher, book, odds>>

\* What `git worktree remove` agrees to: a checkout of this repository, and
\* only with --force one with changes or submodules.
git_removes(n, force) ==
    Registered(n) /\ yard[n].ino # 0 /\ yard[n].mark = "bound"
        /\ (force \/ ~(yard[n].dirty \/ yard[n].subs))

Emptied(n) == [yard[n] EXCEPT !.ino = 0, !.reg = FALSE, !.dirty = FALSE, !.subs = FALSE]

RemoveDirectory(h) ==
    /\ hand[h].pc = "remove"
    /\ LET n == hand[h].node
           able == IF hand[h].orphan THEN yard[n].ino # 0 ELSE git_removes(n, hand[h].ask.force)
       IN  \/ /\ able
              /\ yard' = [yard EXCEPT ![n] = Emptied(n)]
              /\ Turn(h, "check")
              /\ UNCHANGED <<keeper, odds>>
           \/ /\ ~able
              /\ Finish(h, "partial")
              /\ UNCHANGED <<yard, odds>>
           \/ /\ able /\ Stake("faults")
              /\ yard' = IF hand[h].orphan THEN yard
                         ELSE [yard EXCEPT ![n].reg = FALSE, ![n].mark = "stale"]
              /\ Finish(h, "partial")
    /\ UNCHANGED <<repo, worker, watcher, book, traces>>

\* The branch goes only when its directory and its registration are gone.
branch_is_free(n) == yard[n].ino = 0 /\ ~Registered(n) /\ Receipt(n).oid # 0

CheckBranch(h) ==
    /\ hand[h].pc = "check"
    /\ LET n == hand[h].node
       IN  IF ~hand[h].branch THEN Finish(h, "discarded") /\ UNCHANGED traces
           ELSE IF verify_source_identity(n) /\ branch_is_free(n)
                  THEN Turn(h, "delete") /\ traces' = [traces EXCEPT !.late = FALSE]
                       /\ UNCHANGED keeper
                  ELSE Finish(h, "partial") /\ UNCHANGED traces
    /\ UNCHANGED <<yard, repo, worker, watcher, book, odds>>

\* Faulty variant: `git branch -D`, whatever the tip is.
branch_delete_oid_any(n) == yard[n].tip # 0

\* git deletes the ref only at the commit of the receipt.
branch_delete_oid(n) == yard[n].tip # 0 /\ yard[n].tip = Receipt(n).oid

DeleteBranch(h) ==
    /\ hand[h].pc = "delete"
    /\ LET n == hand[h].node
       IN  IF branch_delete_oid(n)
             THEN yard' = [yard EXCEPT ![n].tip = 0] /\ Finish(h, "discarded")
             ELSE UNCHANGED yard /\ Finish(h, "partial")
    /\ UNCHANGED <<repo, worker, watcher, book, traces, odds>>

-----------------------------------------------------------------------------
(* run salvage.                                                            *)

\* Manifest and node are read under a shared lock, which a discard keeps out.
Snapshot(h) ==
    /\ hand[h].pc = "snapshot" /\ keeper = Nobody
    /\ LET w == classify_worker
       IN  IF \/ book.status \notin {"running", "failed"}
              \/ Cardinality(odds.nodes) # 1
              \/ \A k \in DNodes : yard[k].ino = 0
              \/ w = "unverifiable" \/ (w = "live" /\ ~hand[h].ask.force)
             THEN Replies(h, "refused")
             ELSE hand' = [hand EXCEPT ![h].pc = "preview", ![h].fence = (w = "live")]
    /\ UNCHANGED <<yard, repo, worker, watcher, book, keeper, traces, odds>>

\* The merge is tried dry before anything is killed.
Preview(h) ==
    /\ hand[h].pc = "preview"
    /\ IF hand[h].ask.sound
         THEN Turn(h, IF hand[h].fence THEN "fence" ELSE "merge")
         ELSE Replies(h, "refused")
    /\ UNCHANGED <<yard, repo, worker, watcher, book, keeper, traces, odds>>

\* The identity is read again right before the signal.
same_process ==
    IF worker.who = "none" THEN "no"
    ELSE IF ~worker.clear THEN "unknown"
    ELSE IF worker.who = "own" THEN "yes" ELSE "no"

fence_worker(h) ==
    /\ hand[h].pc = "fence"
    /\ CASE same_process = "no" -> Turn(h, "merge") /\ UNCHANGED traces
         [] same_process = "unknown" -> Replies(h, "unfenced") /\ UNCHANGED traces
         [] same_process = "yes" ->
              /\ traces' = [traces EXCEPT !.misfired = @ \/ worker.who = "other",
                                          !.unsound = @ \/ ~hand[h].ask.sound]
              /\ Turn(h, "grace")
    /\ UNCHANGED <<yard, repo, worker, watcher, book, keeper, odds>>

\* The pid is polled until nobody has it; a survivor stops the salvage.
AwaitExit(h) ==
    /\ hand[h].pc = "grace"
    /\ \/ worker.who = "none" /\ Turn(h, "merge")
       \/ worker.who # "none" /\ Replies(h, "unfenced")
    /\ UNCHANGED <<yard, repo, worker, watcher, book, keeper, traces, odds>>

\* The merge machinery of `run merge`: it starts, and lands with a report
\* under the run lock, or fails and leaves the checkout.
MergeStarts(h) ==
    /\ hand[h].pc = "merge" /\ keeper = Nobody
    /\ IF /\ hand[h].ask.sound /\ book.status \in {"running", "failed"}
          /\ \E n \in DNodes : yard[n].ino # 0 /\ Registered(n) /\ yard[n].mark = "bound"
         THEN Turn(h, "land") ELSE Replies(h, "unmerged")
    /\ UNCHANGED <<yard, repo, worker, watcher, book, keeper, traces, odds>>

MergeEnds(h) ==
    /\ hand[h].pc = "land" /\ keeper = Nobody
    /\ \/ /\ \E n \in DNodes : yard[n].ino # 0 /\ yard[n].tip # 0 /\ Registered(n)
          /\ book.status \in {"running", "failed"}
          /\ book' = [book EXCEPT !.status = "done"]
          /\ Replies(h, "merged")
       \/ UNCHANGED book /\ Replies(h, "unmerged")
    /\ UNCHANGED <<yard, repo, worker, watcher, keeper, traces, odds>>

-----------------------------------------------------------------------------
(* Everybody else.                                                         *)

\* The user works in the checkout, removes it, makes another at its path, or
\* moves the branch; or another repository takes the place of the source.
Touch(n) ==
    LET y == yard[n]
        Put(new) == yard' = [yard EXCEPT ![n] = new] /\ UNCHANGED repo
    IN  \/ y.ino # 0 /\ ~y.dirty /\ Put([y EXCEPT !.dirty = TRUE])
        \/ y.ino # 0 /\ y.mark = "bound" /\ y.reg /\ y.tip \in 1..2 /\ Put([y EXCEPT !.tip = @ + 1])
        \/ y.ino # 0 /\ \E r \in {y.reg, FALSE} : Put([Emptied(n) EXCEPT !.reg = r])
        \/ y.tip # 0 /\ y.ino # 2 /\ Put([y EXCEPT !.ino = 2, !.mark = "bound", !.reg = TRUE,
                                                   !.dirty = FALSE, !.subs = FALSE])
        \/ y.ino # 2 /\ Put([y EXCEPT !.ino = 2, !.mark = "foreign", !.dirty = TRUE])
        \/ y.ino = 0 /\ y.tip \in 1..2 /\ Put([y EXCEPT !.tip = @ + 1])
        \/ repo = "own" /\ repo' = "other" /\ UNCHANGED yard

UserTouches ==
    /\ Stake("touches")
    /\ \E n \in odds.nodes : Touch(n)
    /\ traces' = [traces EXCEPT !.touched = TRUE, !.late = TRUE]
    /\ UNCHANGED <<worker, watcher, book, keeper, hand>>

\* A killed call releases the lock; git, killed with it, leaves a registered
\* directory without its .git file.
CallKilled(h) ==
    /\ hand[h].pc # "home" /\ Stake("kills")
    /\ Finish(h, "killed")
    /\ \/ UNCHANGED <<yard, traces>>
       \/ /\ hand[h].pc = "remove" /\ ~hand[h].orphan /\ yard[hand[h].node].ino # 0
          /\ yard' = [yard EXCEPT ![hand[h].node].mark = "stale"]
          /\ traces' = [traces EXCEPT !.torn = TRUE]
    /\ UNCHANGED <<repo, worker, watcher, book>>

WorkerExits ==
    /\ worker.who = "own"
    /\ \E t \in BOOLEAN : worker' = [who |-> "none", clear |-> worker.clear, told |-> t]
    /\ UNCHANGED <<yard, repo, watcher, book, keeper, hand, traces, odds>>

PidReused ==
    /\ worker.who = "none" /\ odds.live
    /\ worker' = [worker EXCEPT !.who = "other"]
    /\ UNCHANGED <<yard, repo, watcher, book, keeper, hand, traces, odds>>

SupervisorLeaves ==
    /\ watcher = "alive" /\ watcher' = "gone"
    /\ UNCHANGED <<yard, repo, worker, book, keeper, hand, traces, odds>>

\* The supervisor or `run cancel` settles a run that was still going.
RunSettled ==
    /\ book.status = "running" /\ keeper = Nobody
    /\ \E st \in {"failed", "cancelled"} : book' = [book EXCEPT !.status = st]
    /\ UNCHANGED <<yard, repo, worker, watcher, keeper, hand, traces, odds>>

AllHome == (\A h \in Hands : hand[h].pc = "home") /\ UNCHANGED disposal_vars

HandSteps(h) ==
    \/ TakeLock(h) \/ Inspect(h) \/ WriteReceipt(h) \/ WriteUpgrade(h) \/ VerifyTarget(h)
    \/ RemoveDirectory(h) \/ CheckBranch(h) \/ DeleteBranch(h)
    \/ Snapshot(h) \/ Preview(h) \/ fence_worker(h) \/ AwaitExit(h) \/ MergeStarts(h)
    \/ MergeEnds(h)

DisposalNext ==
    \/ \E h \in Hands : \/ \E ask \in Chores : Call(h, ask)
                        \/ HandSteps(h)
                        \/ CallKilled(h)
    \/ UserTouches \/ WorkerExits \/ PidReused \/ SupervisorLeaves \/ RunSettled \/ AllHome

(* A call that was not killed runs to its end. *)
DisposalFairness == \A h \in Hands : WF_disposal_vars(HandSteps(h))

DisposalSpec == DisposalInit /\ [][DisposalNext]_disposal_vars /\ DisposalFairness

-----------------------------------------------------------------------------
(* Properties.                                                             *)

\* Types, and the lock is held by a discard that has taken it.
DisposalTypeOK ==
    /\ yard \in [DNodes -> [ino : 0..2, mark : {"bound", "stale", "foreign"}, reg : BOOLEAN,
                            tip : 0..3, dirty : BOOLEAN, subs : BOOLEAN]]
    /\ worker \in [who : {"own", "none", "other"}, clear : BOOLEAN, told : BOOLEAN]
    /\ book.status \in {"running", "failed", "cancelled", "done"}
    /\ book.receipt \in [DNodes -> [seq : 0..book.seq, reason : Reasons \cup {"none"},
                                    force : BOOLEAN, ino : 0..2, oid : 0..3]]
    /\ \A h \in Hands : (keeper = h) <=> Discards(h) /\ hand[h].pc \notin {"home", "lock"}

\* A step in which a discard deletes something of node n.
Deletes(n) == ~(traces'.touched /\ odds'.touches < odds.touches)
                  /\ (yard'[n].ino < yard[n].ino \/ yard'[n].tip < yard[n].tip)

\* A directory is removed only under a receipt, and if the receipt pins a
\* directory only that one, unless the user exchanged it after the last look.
RemovesOnlyPinned ==
    \A n \in DNodes : Deletes(n) /\ yard'[n].ino = 0 /\ yard[n].ino # 0 =>
      /\ Receipted(n)
      /\ traces.late \/ Receipt(n).ino \in {0, yard[n].ino}

\* A branch is deleted only at the commit a receipt pinned: a commit made
\* after the receipt is never lost.
BranchDeletedAtPin ==
    \A n \in DNodes : Deletes(n) /\ yard[n].tip # 0 /\ yard'[n].tip = 0 =>
      Receipted(n) /\ Receipt(n).oid = yard[n].tip

\* A branch goes last: its checkout is neither there nor registered, unless
\* the user made one after the look.
BranchGoesLast ==
    \A n \in DNodes : Deletes(n) /\ yard[n].tip # 0 /\ yard'[n].tip = 0 =>
      traces.late \/ (yard[n].ino = 0 /\ ~Registered(n))

\* Uncommitted changes are deleted only when the log says --force was given.
ChangesNeedForce ==
    \A n \in DNodes : Deletes(n) /\ yard[n].dirty /\ yard'[n].ino = 0 =>
      Receipt(n).force \/ book.upgrade[n]

\* Whatever salvage does meanwhile, nothing is deleted once the run is done.
DoneIsNotDiscarded ==
    \A n \in DNodes : Deletes(n) => book.status \in {"failed", "cancelled"}

\* A discard that was cut short, or that git left half done, can be finished
\* by repeating it with its reason, if nobody touched what it pinned.
CutShortCanBeFinished ==
    \A n \in DNodes :
      (/\ Receipted(n) /\ ~Vanished(n) /\ keeper = Nobody
       /\ ~traces.touched /\ ~traces.torn)
      => \E f \in BOOLEAN : verdict(n, Receipt(n).reason, f) \in {"go", "supervisor", "worker"}

\* The signal of a fence reaches the recorded worker and nobody who took over
\* its pid.
SignalsOnlyWorker == ~traces.misfired

\* A worker is not killed for a merge whose input is refused afterwards.
ValidatedBeforeFence == ~traces.unsound

\* When a salvage merges, the worker it found is no longer running.
MergesAlone ==
    \A h \in Hands : hand[h].pc \in {"merge", "land"} => worker.who # "own"

\* Every call is answered, also when the lock is taken: again and again nobody
\* is in one.
HandsReturn == []<>(\A h \in Hands : hand[h].pc = "home")

\* `run discard` deletes what its durable receipt pinned, in the order that
\* can be repeated, and only of a run that did not succeed, whoever else is in
\* the checkout or salvages the run.
DeletesOnlyPinned ==
    [][ /\ RemovesOnlyPinned /\ BranchDeletedAtPin /\ BranchGoesLast
        /\ ChangesNeedForce /\ DoneIsNotDiscarded ]_disposal_vars

\* What discards and salvages leave for the next call is sound: an interrupted
\* discard can be finished, and a salvage signals and merges as it claims
\* (discard.rs, salvage.rs).
DisposalSound ==
    /\ DisposalTypeOK /\ CutShortCanBeFinished
    /\ SignalsOnlyWorker /\ ValidatedBeforeFence /\ MergesAlone

=============================================================================
