------------------------------ MODULE Teardown ------------------------------
(* Terminal cleanup of one native worker node (supervise/cleanup.rs,        *)
(* supervise/evidence.rs): archive the evidence, close the window, then     *)
(* remove the worktree and the branch if the outcome and the state of the   *)
(* repository allow it, then the run's own tmux session. Between any two of *)
(* these calls whoever still uses the checkout may commit, edit or switch   *)
(* branches, git may fail, and the supervisor may die and start over.       *)
EXTENDS Integers, FiniteSets

CONSTANTS Commit,      \* commits that may be made in the checkout
          MaxLate,     \* bound: steps of people and leftover processes
          MaxFaults,   \* bound: failing git, tmux, signal or append calls
          MaxCrashes,  \* bound: supervisor crashes
          Evidence     \* the kinds of evidence considered: pi, claude, none

ASSUME TeardownAssumption == Evidence \subseteq {"pi", "claude", "none"}

VARIABLES fate,     \* how the node ended: TerminalOutcome
          refs,     \* the branches that exist, each a set of commits
          tree,     \* the linked worktree of the node
          relic,    \* transcript, pane and their archive
          sess,     \* the managed tmux session of the run
          clean,    \* the supervisor: its place in the cleanup
          room,     \* what is left of the bounds
          told      \* history: what was made, and what was destroyed

teardown_vars == <<fate, refs, tree, relic, sess, clean, room, told>>

Outcomes == {"merged", "blocked", "failed", "cancelled", "plain"}

(* TerminalOutcome::teardown *)
teardown_policy(o) ==
    CASE o = "merged" -> "Full"
      [] o \in {"blocked", "failed"} -> "PreserveWork"
      [] OTHER -> "SourceRelative"

NoTree == [there |-> FALSE, listed |-> FALSE, head |-> "branch",
           at |-> {}, dirty |-> FALSE, ours |-> TRUE]

TeardownInit ==
    /\ fate \in Outcomes
    /\ \E made \in SUBSET Commit :
         /\ refs = [r \in {"source", "branch"} |->
                      IF r = "source" /\ fate # "merged" THEN {} ELSE made]
         /\ told = [made |-> made, exposed |-> {}, lost |-> {}]
    /\ tree = [NoTree EXCEPT !.there = TRUE, !.listed = TRUE]
    /\ \E kind \in Evidence, alive \in BOOLEAN :
         relic = [kind |-> kind, status |-> "live", live |-> kind = "pi",
                  size |-> 0, seen |-> -1, copy |-> -1, pane |-> TRUE,
                  marker |-> FALSE, writer |-> alive /\ kind = "pi"]
    /\ sess = [alive |-> TRUE, attached |-> FALSE, sibling |-> FALSE,
               raced |-> FALSE]
    /\ clean = [pc |-> "idle", cleaned |-> FALSE]
    /\ room = [late |-> MaxLate, faults |-> MaxFaults, crashes |-> MaxCrashes]

Goto(pc) == clean' = [clean EXCEPT !.pc = pc]
(* A step gives up: the next tick starts over. *)
Later == clean' = [clean EXCEPT !.pc = "idle"]
Flawed == room.faults > 0 /\ room' = [room EXCEPT !.faults = @ - 1]
Sound == UNCHANGED room

-----------------------------------------------------------------------------
(* Evidence (archive_before_cleanup) *)

(* A native worker still running appends to its transcript. *)
WriterAppends ==
    /\ relic.writer /\ relic.live /\ room.late > 0
    /\ relic' = [relic EXCEPT !.size = @ + 1]
    /\ room' = [room EXCEPT !.late = @ - 1]
    /\ UNCHANGED <<fate, refs, tree, sess, clean, told>>

WriterEnds ==
    /\ relic.writer
    /\ relic' = [relic EXCEPT !.writer = FALSE]
    /\ UNCHANGED <<fate, refs, tree, sess, clean, room, told>>

(* Faulty variant: evidence that failed once is not tried again. *)
archive_gives_up ==
    /\ clean.pc = "idle" /\ ~clean.cleaned
    /\ Goto(CASE relic.status = "failed" -> "settled"
              [] relic.kind = "none" \/ relic.marker -> "close"
              [] relic.kind = "claude" -> "pane"
              [] relic.status = "complete" -> "unlink"
              [] OTHER -> "quiesce")
    /\ UNCHANGED <<fate, refs, tree, relic, sess, room, told>>

(* Where a pass of the cleanup starts, by kind and status of the evidence.  *)
archive_before_cleanup ==
    /\ clean.pc = "idle" /\ ~clean.cleaned
    /\ Goto(CASE relic.kind = "none" -> "close"
              [] relic.kind = "claude" ->
                   IF relic.marker THEN "close" ELSE "pane"
              [] relic.kind = "pi" ->
                   IF relic.status = "complete" THEN "unlink" ELSE "quiesce")
    /\ UNCHANGED <<fate, refs, tree, relic, sess, room, told>>

(* quiesce_worker: stop the exact writer; a writer that does not stop in    *)
(* time is recorded as a failure, and the cleanup waits.                    *)
quiesce_worker ==
    /\ clean.pc = "quiesce"
    /\ \/ /\ relic' = [relic EXCEPT !.writer = FALSE]
          /\ Goto("read") /\ Sound
       \/ /\ relic.writer /\ Flawed
          /\ relic' = [relic EXCEPT !.status = "failed"]
          /\ Later
    /\ UNCHANGED <<fate, refs, tree, sess, told>>

(* capture: the transcript is read once ... *)
read_nofollow ==
    /\ clean.pc = "read"
    /\ relic' = [relic EXCEPT !.seen = relic.size]
    /\ Goto("pane")
    /\ UNCHANGED <<fate, refs, tree, sess, room, told>>

(* ... the pane history is taken, and the transcript must not have moved    *)
(* meanwhile. A failure is recorded and vetoes the cleanup.                 *)
capture_pane ==
    /\ clean.pc = "pane"
    /\ \/ /\ relic.pane
          /\ relic.kind = "pi" => relic.seen = relic.size
          /\ Goto("archive") /\ Sound /\ UNCHANGED relic
       \/ /\ ~relic.pane \/ (relic.kind = "pi" /\ relic.seen # relic.size)
          /\ relic' = [relic EXCEPT
               !.status = IF relic.kind = "pi" THEN "failed" ELSE @]
          /\ Later /\ Sound
       \/ /\ Flawed
          /\ relic' = [relic EXCEPT
               !.status = IF relic.kind = "pi" THEN "failed" ELSE @]
          /\ Later
    /\ UNCHANGED <<fate, refs, tree, sess, told>>

(* The artifacts are written, each atomically; for Claude the completion    *)
(* marker is the last of them.                                              *)
write_artifacts ==
    /\ clean.pc = "archive"
    /\ relic' = [relic EXCEPT !.copy = relic.seen,
                              !.marker = relic.kind = "claude"]
    /\ Goto(IF relic.kind = "claude" THEN "close" ELSE "stamp")
    /\ UNCHANGED <<fate, refs, tree, sess, room, told>>

(* worker.evidence.archived *)
record_archived ==
    /\ clean.pc = "stamp"
    /\ \/ relic' = [relic EXCEPT !.status = "complete"] /\ Goto("unlink") /\ Sound
       \/ Flawed /\ Later /\ UNCHANGED relic
    /\ UNCHANGED <<fate, refs, tree, sess, told>>

remove_live_session ==
    /\ clean.pc = "unlink"
    /\ \/ relic' = [relic EXCEPT !.live = FALSE] /\ Goto("close") /\ Sound
       \/ Flawed /\ Later /\ UNCHANGED relic
    /\ UNCHANGED <<fate, refs, tree, sess, told>>

(* The window is closed by id or, if that is gone, found by its path.       *)
close_tmux_window ==
    /\ clean.pc = "close"
    /\ relic' = [relic EXCEPT !.pane = FALSE, !.writer = FALSE]
    /\ Goto("unmerged")
    /\ UNCHANGED <<fate, refs, tree, sess, room, told>>

-----------------------------------------------------------------------------
(* The guards of the worktree (cleanup_node_after_evidence) *)
head_commits == IF tree.head = "detached" THEN tree.at ELSE refs[tree.head]

(* record_branch_preserved: nothing is removed; the pass is over.           *)
Preserve == Goto("settled")

(* A check of git that passes, preserves, or cannot be computed and then    *)
(* preserves as well.                                                       *)
Guard(ok, next) ==
    \/ ok /\ Goto(next) /\ Sound
    \/ ~ok /\ Preserve /\ Sound
    \/ Flawed /\ Preserve

(* The policy, then: no commit on the branch that is not in source.         *)
branch_unmerged_vs_source ==
    /\ clean.pc = "unmerged"
    /\ CASE teardown_policy(fate) = "PreserveWork" -> Preserve /\ Sound
         [] teardown_policy(fate) = "Full" -> Goto("remove") /\ Sound
         [] OTHER -> Guard(/\ "branch" \in DOMAIN refs
                           /\ refs["branch"] \subseteq refs["source"], "dirty")
    /\ UNCHANGED <<fate, refs, tree, relic, sess, told>>

(* A worktree that is gone counts as clean. *)
worktree_cleanliness ==
    /\ clean.pc = "dirty"
    /\ Guard(~(tree.there /\ tree.dirty), "head")
    /\ UNCHANGED <<fate, refs, tree, relic, sess, told>>

(* Faulty variant: any branch under HEAD is taken to protect its commits,   *)
(* and a detached HEAD has nothing to lose.                                 *)
head_teardown_trusting ==
    /\ clean.pc = "head"
    /\ Goto("remove")
    /\ UNCHANGED <<fate, refs, tree, relic, sess, room, told>>

(* HEAD on the recorded branch defers to the branch; any other HEAD must be *)
(* reachable from source.                                                   *)
head_teardown_safety ==
    /\ clean.pc = "head"
    /\ IF ~tree.there THEN Goto("remove") /\ Sound
       ELSE Guard(tree.head = "branch" \/ head_commits \subseteq refs["source"],
                  "remove")
    /\ UNCHANGED <<fate, refs, tree, relic, sess, told>>

Gone == [NoTree EXCEPT !.ours = tree.ours]
(* What goes with a worktree: its edits, unless a merge made them scratch.  *)
Removed(t) ==
    told' = [told EXCEPT !.lost =
      IF t.dirty /\ fate # "merged" THEN @ \cup {"edits"} ELSE @]

(* remove_worktree: --force only after a confirmed merge, otherwise git     *)
(* checks once more that the tree is clean. A forced removal may unregister *)
(* the checkout and then fail on its files; a later pass can authenticate   *)
(* such a leftover only by its .git pointer.                                *)
remove_worktree ==
    /\ clean.pc = "remove"
    /\ \/ /\ ~tree.there
          /\ Goto("delete") /\ Sound /\ UNCHANGED <<tree, told>>
       \/ /\ tree.there /\ tree.listed /\ (fate = "merged" \/ ~tree.dirty)
          /\ tree' = Gone /\ Removed(tree)
          /\ Goto("delete") /\ Sound
       \/ /\ tree.there /\ fate # "merged" /\ (tree.dirty \/ ~tree.listed)
          /\ Preserve /\ Sound /\ UNCHANGED <<tree, told>>
       \/ /\ tree.there /\ fate # "merged" /\ Flawed
          /\ Preserve /\ UNCHANGED <<tree, told>>
       \/ /\ tree.there /\ fate = "merged" /\ Flawed
          /\ \E listed \in BOOLEAN : tree' = [tree EXCEPT !.listed = listed]
          /\ Goto("orphan") /\ UNCHANGED told
       \/ /\ tree.there /\ fate = "merged" /\ ~tree.listed
          /\ (Goto("orphan") \/ Preserve)  \* its .git pointer may be gone
          /\ Sound /\ UNCHANGED <<tree, told>>
    /\ UNCHANGED <<fate, refs, relic, sess>>

(* Faulty variant: a leftover checkout does not keep the branch. *)
remove_unregistered_checkout_ignored ==
    /\ clean.pc = "orphan"
    /\ Goto("delete")
    /\ UNCHANGED <<fate, refs, tree, relic, sess, room, told>>

(* remove_unregistered_checkout: only the very directory that was           *)
(* authenticated before, and only once git has let go of it. Otherwise the  *)
(* leftover is recorded and the branch stays.                               *)
remove_unregistered_checkout ==
    /\ clean.pc = "orphan"
    /\ \/ /\ tree.there /\ tree.ours /\ ~tree.listed
          /\ tree' = NoTree /\ Goto("delete") /\ Sound
       \/ /\ ~tree.there \/ ~tree.ours \/ tree.listed
          /\ Preserve /\ Sound /\ UNCHANGED tree
       \/ Flawed /\ Preserve /\ UNCHANGED tree
    /\ UNCHANGED <<fate, refs, relic, sess, told>>

drop(r) == [x \in DOMAIN refs \ {r} |-> refs[x]]

(* delete_branch: -D after a merge; otherwise -d, which wants the commits   *)
(* in the branch the main worktree happens to be on. Git refuses a branch   *)
(* that a registered worktree has checked out.                              *)
delete_branch ==
    /\ clean.pc = "delete"
    /\ \/ /\ "branch" \in DOMAIN refs
          /\ ~(tree.there /\ tree.listed /\ tree.head = "branch")
          /\ \/ fate = "merged"
             \/ \E r \in DOMAIN refs \ {"branch"} : refs["branch"] \subseteq refs[r]
          /\ refs' = drop("branch")
       \/ UNCHANGED refs
    /\ Goto("settled")
    /\ UNCHANGED <<fate, tree, relic, sess, room, told>>

-----------------------------------------------------------------------------
(* cleanup_terminal_nodes: every node's evidence is complete *)
evidence_complete == relic.kind = "pi" => relic.status = "complete"

cleanup_terminal_nodes ==
    /\ clean.pc = "settled"
    /\ clean' = [pc |-> IF evidence_complete THEN "session" ELSE "idle",
                 cleaned |-> evidence_complete]
    /\ UNCHANGED <<fate, refs, tree, relic, sess, room, told>>

(* cleanup_managed_session: the session is inspected ... *)
list_session_windows ==
    /\ clean.pc = "session"
    /\ IF sess.alive /\ ~sess.attached /\ ~sess.sibling
       THEN Goto("kill") ELSE Goto("end")
    /\ UNCHANGED <<fate, refs, tree, relic, sess, room, told>>

(* ... and killed in a call of its own. *)
kill_session ==
    /\ clean.pc = "kill"
    /\ sess' = [sess EXCEPT !.alive = FALSE]
    /\ Goto("end")
    /\ UNCHANGED <<fate, refs, tree, relic, room, told>>

CleanupCrash ==
    /\ room.crashes > 0 /\ clean.pc \notin {"idle", "end"}
    /\ clean' = [pc |-> "idle", cleaned |-> FALSE]
    /\ room' = [room EXCEPT !.crashes = @ - 1]
    /\ relic' = [relic EXCEPT !.seen = -1]
    /\ UNCHANGED <<fate, refs, tree, sess, told>>

-----------------------------------------------------------------------------
(* Everyone else in the checkout *)
Late == /\ room.late > 0 /\ clean.pc # "end"
        /\ room' = [room EXCEPT !.late = @ - 1]
        /\ UNCHANGED <<fate, relic, clean>>

(* Past the check of HEAD a detached HEAD may move unseen: the known        *)
(* residual (detached-head-teardown-toctou).                                *)
past_head_check == clean.pc \in {"remove", "delete"}

CommitLate(c) ==
    /\ tree.there /\ tree.listed /\ c \notin told.made
    /\ tree.head \in DOMAIN refs \cup {"detached"}
    /\ Late
    /\ told' = [told EXCEPT !.made = @ \cup {c},
         !.exposed = IF past_head_check /\ tree.head = "detached"
                     THEN @ \cup {c} ELSE @]
    /\ IF tree.head = "detached"
       THEN tree' = [tree EXCEPT !.at = @ \cup {c}] /\ UNCHANGED refs
       ELSE refs' = [refs EXCEPT ![tree.head] = @ \cup {c}] /\ UNCHANGED tree
    /\ UNCHANGED sess

EditLate ==
    /\ tree.there /\ ~tree.dirty /\ Late
    /\ tree' = [tree EXCEPT !.dirty = TRUE]
    /\ UNCHANGED <<refs, sess, told>>

(* git switch: to a detached HEAD, or to a branch made for the occasion.    *)
SwitchLate ==
    /\ tree.there /\ tree.listed /\ tree.head = "branch" /\ Late
    /\ \/ /\ tree' = [tree EXCEPT !.head = "detached", !.at = head_commits]
          /\ UNCHANGED refs
       \/ /\ "other" \notin DOMAIN refs
          /\ refs' = [r \in DOMAIN refs \cup {"other"} |->
                        IF r = "other" THEN head_commits ELSE refs[r]]
          /\ tree' = [tree EXCEPT !.head = "other"]
    /\ UNCHANGED <<sess, told>>

(* The directory is swapped for another one after git forgot it. *)
SwapDirectory ==
    /\ tree.there /\ ~tree.listed /\ tree.ours /\ Late
    /\ tree' = [tree EXCEPT !.ours = FALSE]
    /\ UNCHANGED <<refs, sess, told>>

(* A person attaches; another run opens or closes a window of the session.  *)
SessionUse ==
    /\ sess.alive /\ Late
    /\ LET raced == clean.pc = "kill" IN
       \/ sess' = [sess EXCEPT !.attached = ~@, !.raced = raced]
       \/ sess' = [sess EXCEPT !.sibling = ~@, !.raced = raced]
    /\ UNCHANGED <<refs, tree, told>>

Cleanup ==
    \/ archive_before_cleanup \/ quiesce_worker \/ read_nofollow
    \/ capture_pane \/ write_artifacts \/ record_archived
    \/ remove_live_session \/ close_tmux_window
    \/ branch_unmerged_vs_source \/ worktree_cleanliness
    \/ head_teardown_safety \/ remove_worktree
    \/ remove_unregistered_checkout \/ delete_branch
    \/ cleanup_terminal_nodes \/ list_session_windows \/ kill_session

TornDown == clean.pc = "end" /\ UNCHANGED teardown_vars

TeardownNext ==
    \/ Cleanup \/ CleanupCrash \/ WriterAppends \/ WriterEnds
    \/ \E c \in Commit : CommitLate(c)
    \/ EditLate \/ SwitchLate \/ SwapDirectory \/ SessionUse \/ TornDown

(* The supervisor keeps ticking until it is done. *)
TeardownFairness == WF_teardown_vars(Cleanup)

TeardownSpec == TeardownInit /\ [][TeardownNext]_teardown_vars /\ TeardownFairness

-----------------------------------------------------------------------------
\* What the cleanup of a settled node touches (its refs, checkout, pane and
\* record) holds values of its types.
TeardownTypeOK ==
    /\ fate \in Outcomes
    /\ DOMAIN refs \subseteq {"source", "branch", "other"}
    /\ \A r \in DOMAIN refs : refs[r] \subseteq Commit
    /\ tree.at \subseteq Commit /\ told.made \subseteq Commit
    /\ relic.status \in {"live", "failed", "complete"}
    /\ relic.copy <= relic.size

(* Unless the node was merged, no commit ever made in its checkout becomes  *)
(* unreachable: it is in some branch or under the HEAD of a worktree. What  *)
(* is committed to a detached HEAD after HEAD was checked is the exception  *)
(* the code documents.                                                      *)
CommitsReachable ==
    fate # "merged" =>
      \A c \in told.made \ told.exposed :
        \/ \E r \in DOMAIN refs : c \in refs[r]
        \/ tree.there /\ tree.head = "detached" /\ c \in tree.at

(* Uncommitted edits are destroyed only after a confirmed merge, also those *)
(* made between the cleanliness check and the removal; and no directory but *)
(* the authenticated checkout is ever removed.                              *)
NothingElseLost == told.lost = {}

(* A branch with unmerged work goes together with no checkout: while the    *)
(* directory of the node is on disk, its branch is not deleted.             *)
BranchOutlivesCheckout ==
    "branch" \in DOMAIN refs /\ "branch" \notin DOMAIN refs'
      => ~tree.there

(* Work preserved for a person keeps both halves: after a blocked or failed *)
(* outcome the cleanup removes neither the worktree nor the branch.         *)
FailedKeepsBoth ==
    fate \in {"blocked", "failed"}
      => "branch" \in DOMAIN refs /\ tree.there

(* The transcript exists live or in the archive at every moment, and an     *)
(* archive that is complete holds everything the worker ever wrote.         *)
TranscriptKept ==
    relic.kind = "pi" =>
      /\ ~relic.live => relic.copy = relic.size
      /\ relic.status = "complete" => relic.copy = relic.size

(* The display is closed only when its evidence has been taken. *)
PaneOutlivesArchive ==
    relic.pane /\ ~relic'.pane =>
      CASE relic.kind = "pi" -> relic.status = "complete" /\ ~relic.live
        [] relic.kind = "claude" -> relic.marker
        [] OTHER -> TRUE

(* A session that a person is attached to, or in which another run has a    *)
(* window, is not killed, unless that began after the windows were listed.  *)
SessionInUseIsKept ==
    sess.alive /\ ~sess'.alive /\ (sess.attached \/ sess.sibling)
      => sess.raced

(* With the pane still there, the cleanup comes to its end: a failure of a  *)
(* call or a crash only repeats it. (The pane of a crashed pass may already *)
(* be closed, but then its archive is complete.)                            *)
CleanupEnds == <>(clean.pc = "end")

\* Whatever is edited, committed, switched or swapped between two calls of the
\* cleanup, and wherever it fails or dies, no work and no evidence is lost
\* (ARCHITECTURE.md: "preserves all work outside an explicit merge").
TeardownPreserves ==
    TeardownTypeOK /\ CommitsReachable /\ NothingElseLost /\ FailedKeepsBoth /\ TranscriptKept

\* The cleanup removes things in an order that leaves the way back open:
\* evidence before the pane, the checkout before its branch, and a session in
\* use not at all.
TeardownOrder ==
    [][BranchOutlivesCheckout /\ PaneOutlivesArchive /\ SessionInUseIsKept]_teardown_vars

=============================================================================
