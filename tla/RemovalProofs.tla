---------------------------- MODULE RemovalProofs -----------------------------
(***************************************************************************)
(* The terminal cleanup of a node loses no work and no evidence, for every *)
(* set of commits and every number of late edits, failures and crashes.    *)
(*                                                                         *)
(* TeardownPreserves says nothing of the place the cleanup has reached; it *)
(* holds because each removal was preceded by its check and nothing since  *)
(* undid what the check saw.  The invariant Careful records, for each      *)
(* place, what the checks before it established.                           *)
(*                                                                         *)
(* `run discard` deletes only what its receipt pinned and can always be    *)
(* finished, and `run salvage` merges alone, for every set of nodes,       *)
(* callers and requests and every number of touches, kills and faults.     *)
(*                                                                         *)
(* The run lock keeps discards apart, but nothing keeps the user out.  The *)
(* invariant Pinned says what the holder of the lock may rely on at each   *)
(* place as long as nobody touched the checkout since the last look, and,  *)
(* if nobody ever did, how far a discard of each node has come.            *)
(***************************************************************************)
EXTENDS Teardown, Disposal, TLAPS

Places == {"idle", "quiesce", "read", "pane", "archive", "stamp", "unlink", "close",
           "unmerged", "dirty", "head", "remove", "orphan", "delete", "settled",
           "session", "kill", "end"}
TreeSet == [there : BOOLEAN, listed : BOOLEAN, head : {"branch", "detached", "other"},
            at : SUBSET Commit, dirty : BOOLEAN, ours : BOOLEAN]
RelicSet == [kind : {"pi", "claude", "none"}, status : {"live", "failed", "complete"},
             live : BOOLEAN, size : Nat, seen : Int, copy : Int, pane : BOOLEAN,
             marker : BOOLEAN, writer : BOOLEAN]
ToldSet == [made : SUBSET Commit, exposed : SUBSET Commit, lost : SUBSET {"edits"}]
CleanTyped == clean \in [pc : Places, cleaned : BOOLEAN]
SessTyped == sess = [x \in {"alive", "attached", "sibling", "raced"} |-> sess[x]]
RefsTyped ==
  /\ refs \in [DOMAIN refs -> SUBSET Commit]
  /\ "source" \in DOMAIN refs /\ DOMAIN refs \subseteq {"source", "branch", "other"}

\* The variables have their types; what was read or copied of a transcript
\* was written before.
CleanupTyped ==
  /\ fate \in Outcomes /\ RefsTyped /\ tree \in TreeSet /\ relic \in RelicSet
  /\ SessTyped /\ CleanTyped /\ told \in ToldSet
  /\ relic.seen <= relic.size /\ relic.copy <= relic.size

\* A checkout has its branch; the branch is deleted after the checkout, a
\* leftover is removed only after a merge, and work that is kept for a person
\* is not looked at any further.
Placed ==
  /\ tree.there => "branch" \in DOMAIN refs
  /\ clean.pc = "delete" => ~tree.there
  /\ clean.pc = "orphan" => fate = "merged"
  /\ fate \in {"blocked", "failed"} =>
       tree.there /\ clean.pc \notin {"dirty", "head", "remove", "orphan", "delete"}
  /\ told.lost = {}

Held(c) == \E r \in DOMAIN refs : c \in refs[r]

\* Commits are reachable; once HEAD was checked, also without HEAD.
Reachable ==
  fate # "merged" =>
    /\ \A c \in told.made \ told.exposed :
         Held(c) \/ (tree.there /\ tree.head = "detached" /\ c \in tree.at)
    /\ past_head_check /\ tree.there /\ tree.head = "detached" =>
         \A c \in tree.at \ told.exposed : Held(c)

\* The transcript is read after its writer ended, copied as it was read, and
\* removed after the copy was recorded; the pane is closed last.
Archived ==
  /\ relic.kind = "pi" =>
       /\ clean.pc \in {"read", "pane", "archive", "stamp"} => ~relic.writer
       /\ clean.pc = "archive" => relic.seen = relic.size
       /\ clean.pc = "stamp" => relic.copy = relic.size
       /\ clean.pc \in {"unlink", "close"} => relic.status = "complete"
       /\ clean.pc = "close" => ~relic.live
       /\ ~relic.live \/ relic.status = "complete" => ~relic.writer /\ relic.copy = relic.size
  /\ relic.kind = "claude" =>
       clean.pc \notin {"quiesce", "read", "stamp", "unlink"} /\ (clean.pc = "close" => relic.marker)
  /\ relic.kind = "none" =>
       clean.pc \notin {"quiesce", "read", "pane", "archive", "stamp", "unlink"}

\* Between the listing and the kill, use of the session is noted.
Listed == clean.pc = "kill" => (~sess.attached /\ ~sess.sibling) \/ sess.raced = TRUE

Careful == CleanupTyped /\ Placed /\ Reachable /\ Archived /\ Listed

(* A step that goes to a place is at that place afterwards. *)
LEMMA GotoEffect ==
  ASSUME CleanTyped, NEW p \in Places, Goto(p)
  PROVE  CleanTyped' /\ clean'.pc = p
<1>1. clean' \in [pc : Places, cleaned : BOOLEAN]
  BY Zenon DEF CleanTyped, Goto
<1>2. clean'.pc = p
  BY Zenon DEF CleanTyped, Goto
<1> QED
  BY Zenon, <1>1, <1>2 DEF CleanTyped

(* What the steps make of the record of the worktree is such a record. *)
LEMMA TreeEdits ==
  ASSUME NEW t \in TreeSet
  PROVE  /\ NoTree \in TreeSet /\ [NoTree EXCEPT !.ours = t.ours] \in TreeSet
         /\ [NoTree EXCEPT !.there = TRUE, !.listed = TRUE] \in TreeSet
         /\ \A b \in BOOLEAN : [t EXCEPT !.listed = b] \in TreeSet
         /\ \A s \in SUBSET Commit : [t EXCEPT !.at = s] \in TreeSet
         /\ \A s \in SUBSET Commit : [t EXCEPT !.head = "detached", !.at = s] \in TreeSet
         /\ [t EXCEPT !.dirty = TRUE] \in TreeSet
         /\ [t EXCEPT !.head = "other"] \in TreeSet
         /\ [t EXCEPT !.ours = FALSE] \in TreeSet
BY Zenon DEF TreeSet, NoTree

(* What the steps make of the record of the evidence is such a record. *)
LEMMA RelicEdits ==
  ASSUME NEW t \in RelicSet
  PROVE  /\ \A n \in Nat : [t EXCEPT !.size = n] \in RelicSet
         /\ \A n \in Int : [t EXCEPT !.seen = n] \in RelicSet
         /\ \A n \in Int, b \in BOOLEAN : [t EXCEPT !.copy = n, !.marker = b] \in RelicSet
         /\ \A s \in {"live", "failed", "complete"} : [t EXCEPT !.status = s] \in RelicSet
         /\ [t EXCEPT !.writer = FALSE] \in RelicSet
         /\ [t EXCEPT !.live = FALSE] \in RelicSet
         /\ [t EXCEPT !.pane = FALSE, !.writer = FALSE] \in RelicSet
BY Zenon DEF RelicSet

(* Before the cleanup begins nothing is lost. *)
LEMMA CarefulInit == TeardownInit => Careful
<1> SUFFICES ASSUME TeardownInit PROVE Careful
  BY Zenon
<1>1. PICK made \in SUBSET Commit :
        /\ refs = [r \in {"source", "branch"} |->
                     IF r = "source" /\ fate # "merged" THEN {} ELSE made]
        /\ told = [made |-> made, exposed |-> {}, lost |-> {}]
  BY Zenon DEF TeardownInit
<1>2. PICK kind \in Evidence, alive \in BOOLEAN :
        relic = [kind |-> kind, status |-> "live", live |-> kind = "pi",
                 size |-> 0, seen |-> -1, copy |-> -1, pane |-> TRUE,
                 marker |-> FALSE, writer |-> alive /\ kind = "pi"]
  BY Zenon DEF TeardownInit
<1>3. RefsTyped /\ told \in ToldSet /\ "branch" \in DOMAIN refs /\ told.lost = {}
  BY Zenon, <1>1 DEF RefsTyped, ToldSet
<1>4. tree \in TreeSet
  <2>1. PICK t : t = [there |-> TRUE, listed |-> TRUE, head |-> "branch", at |-> {},
                      dirty |-> FALSE, ours |-> TRUE]
    BY Zenon
  <2>2. t \in TreeSet
    BY Zenon, <2>1 DEF TreeSet
  <2> QED
    BY Zenon, <2>2, TreeEdits DEF TeardownInit
<1>5. relic \in RelicSet
  <2>1. /\ kind \in {"pi", "claude", "none"} /\ (kind = "pi") \in BOOLEAN
        /\ (alive /\ kind = "pi") \in BOOLEAN /\ 0 \in Nat /\ -1 \in Int
    BY SMTT(60), TeardownAssumption
  <2> QED
    BY Zenon, <1>2, <2>1 DEF RelicSet
<1>6. relic.seen = -1 /\ relic.copy = -1 /\ relic.size = 0 /\ relic.status = "live"
      /\ (relic.kind = "pi" => relic.live)
  BY Zenon, <1>2
<1>7. CleanTyped /\ clean.pc = "idle"
  BY Zenon DEF TeardownInit, CleanTyped, Places
<1>8. SessTyped
  BY Zenon DEF TeardownInit, SessTyped
<1>9. CleanupTyped
  BY SMTT(60), <1>3, <1>4, <1>5, <1>6, <1>7, <1>8 DEF TeardownInit, CleanupTyped
<1>10. Placed
  BY Zenon, <1>3, <1>7 DEF TeardownInit, Placed, NoTree
<1>11. Reachable
  BY Zenon, <1>1, <1>7 DEF Reachable, Held, past_head_check
<1>12. Archived /\ Listed
  BY Zenon, <1>6, <1>7 DEF Archived, Listed
<1> QED
  BY Zenon, <1>9, <1>10, <1>11, <1>12 DEF Careful

(* A step that gives up starts over. *)
LEMMA LaterEffect ==
  ASSUME CleanTyped, Later
  PROVE  CleanTyped' /\ clean'.pc = "idle"
BY Zenon, GotoEffect DEF Later, Goto, Places

(* A check of Git passes or preserves. *)
LEMMA GuardEffect ==
  ASSUME CleanTyped, NEW ok, NEW next \in Places, Guard(ok, next)
  PROVE  CleanTyped' /\ (clean'.pc = "settled" \/ (ok /\ clean'.pc = next))
BY Zenon, GotoEffect DEF Guard, Preserve, Places

(* Every call of the cleanup, every crash, and everyone else in the        *)
(* checkout or the session keeps the state careful.                        *)
LEMMA CarefulStep == Careful /\ [TeardownNext]_teardown_vars => Careful'
<1> SUFFICES ASSUME Careful, [TeardownNext]_teardown_vars PROVE Careful'
  BY Zenon
<1> USE DEF Careful
<1>1. CASE archive_before_cleanup
  <2>1. CleanTyped' /\ clean.pc = "idle" /\ clean'.pc \in {"close", "pane", "unlink", "quiesce"}
    BY Zenon, <1>1, GotoEffect, LaterEffect DEF archive_before_cleanup, CleanupTyped, Places,
       Archived, RelicSet
  <2>2. relic' \in RelicSet /\ relic'.seen <= relic'.size /\ relic'.copy <= relic'.size
    BY Zenon, <1>1 DEF archive_before_cleanup, CleanupTyped
  <2>4. UNCHANGED <<fate, refs, tree, sess, told>>
    BY Zenon, <1>1 DEF archive_before_cleanup
  <2>5. CleanupTyped'
    BY Zenon, <2>1, <2>2, <2>4 DEF CleanupTyped, RefsTyped, SessTyped
  <2>6. Placed' /\ Reachable' /\ Listed'
    BY Zenon, <2>1, <2>4 DEF Placed, Reachable, Held, past_head_check, Listed
  <2>7. Archived'
    <3>1. /\ relic' = relic
          /\ relic.kind \in {"pi", "claude", "none"}
          /\ relic.kind = "pi" => (clean'.pc = "unlink" /\ relic.status = "complete") \/ clean'.pc = "quiesce"
          /\ relic.kind = "claude" => (clean'.pc = "close" /\ relic.marker) \/ clean'.pc = "pane"
          /\ relic.kind = "none" => clean'.pc = "close"
      BY Zenon, <1>1, GotoEffect, <2>1 DEF archive_before_cleanup, CleanupTyped, RelicSet, Places
    <3> QED
      BY Zenon, <2>1, <3>1 DEF Archived
  <2> QED
    BY Zenon, <2>5, <2>6, <2>7
<1>2. CASE quiesce_worker
  <2>1. CleanTyped' /\ clean.pc = "quiesce" /\ clean'.pc \in {"read", "idle"}
    BY Zenon, <1>2, GotoEffect, LaterEffect DEF quiesce_worker, CleanupTyped, Places
  <2>2. relic' \in RelicSet
    BY Zenon, <1>2, RelicEdits DEF quiesce_worker, CleanupTyped
  <2>3. relic'.seen <= relic'.size /\ relic'.copy <= relic'.size
    BY Zenon, <1>2 DEF quiesce_worker, CleanupTyped, RelicSet
  <2>4. UNCHANGED <<fate, refs, tree, sess, told>>
    BY Zenon, <1>2 DEF quiesce_worker
  <2>5. CleanupTyped'
    BY Zenon, <2>1, <2>2, <2>3, <2>4 DEF CleanupTyped, RefsTyped, SessTyped
  <2>6. Placed' /\ Reachable' /\ Listed'
    BY Zenon, <2>1, <2>4 DEF Placed, Reachable, Held, past_head_check, Listed
  <2>7. Archived'
    <3>1. /\ relic'.kind = relic.kind /\ relic'.marker = relic.marker
          /\ relic'.live = relic.live /\ relic'.copy = relic.copy /\ relic'.size = relic.size
          /\ \/ relic'.writer = FALSE /\ relic'.status = relic.status
             \/ /\ relic'.writer = relic.writer /\ relic'.status = "failed"
                /\ clean'.pc = "idle" /\ relic.writer
      BY Zenon, <1>2, LaterEffect, <2>1 DEF quiesce_worker, CleanupTyped, RelicSet, Places
    <3> QED
      BY Zenon, <2>1, <3>1 DEF Archived
  <2> QED
    BY Zenon, <2>5, <2>6, <2>7
<1>3. CASE read_nofollow
  <2>1. CleanTyped' /\ clean.pc = "read" /\ clean'.pc = "pane"
    BY Zenon, <1>3, GotoEffect, LaterEffect DEF read_nofollow, CleanupTyped, Places
  <2>2. relic' \in RelicSet
    <3>1. relic \in RelicSet
      BY Zenon DEF CleanupTyped
    <3>2. relic.size \in Int /\ relic.size + 1 \in Nat
      BY SMTT(60), <3>1 DEF RelicSet
    <3> QED
      BY Zenon, <1>3, <3>1, <3>2, RelicEdits DEF read_nofollow
  <2>3. relic'.seen <= relic'.size /\ relic'.copy <= relic'.size
    BY SMTT(60), <1>3 DEF read_nofollow, CleanupTyped, RelicSet
  <2>4. UNCHANGED <<fate, refs, tree, sess, told>>
    BY Zenon, <1>3 DEF read_nofollow
  <2>5. CleanupTyped'
    BY Zenon, <2>1, <2>2, <2>3, <2>4 DEF CleanupTyped, RefsTyped, SessTyped
  <2>6. Placed' /\ Reachable' /\ Listed'
    BY Zenon, <2>1, <2>4 DEF Placed, Reachable, Held, past_head_check, Listed
  <2>7. Archived'
    BY Zenon, <1>3, <2>1 DEF Archived, read_nofollow, CleanupTyped, RelicSet
  <2> QED
    BY Zenon, <2>5, <2>6, <2>7
<1>4. CASE capture_pane
  <2>1. CleanTyped' /\ clean.pc = "pane" /\ clean'.pc \in {"archive", "idle"}
    BY Zenon, <1>4, GotoEffect, LaterEffect DEF capture_pane, CleanupTyped, Places
  <2>2. relic' \in RelicSet
    <3>1. relic \in RelicSet
      BY Zenon DEF CleanupTyped
    <3>2. relic.status \in {"live", "failed", "complete"}
      BY Zenon, <3>1 DEF RelicSet
    <3> QED
      BY Zenon, <1>4, <3>1, <3>2, RelicEdits DEF capture_pane
  <2>3. relic'.seen <= relic'.size /\ relic'.copy <= relic'.size
    BY Zenon, <1>4 DEF capture_pane, CleanupTyped, RelicSet
  <2>4. UNCHANGED <<fate, refs, tree, sess, told>>
    BY Zenon, <1>4 DEF capture_pane
  <2>5. CleanupTyped'
    BY Zenon, <2>1, <2>2, <2>3, <2>4 DEF CleanupTyped, RefsTyped, SessTyped
  <2>6. Placed' /\ Reachable' /\ Listed'
    BY Zenon, <2>1, <2>4 DEF Placed, Reachable, Held, past_head_check, Listed
  <2>7. Archived'
    <3>1. /\ relic'.kind = relic.kind /\ relic'.marker = relic.marker /\ relic'.seen = relic.seen
          /\ relic'.live = relic.live /\ relic'.copy = relic.copy /\ relic'.size = relic.size
          /\ relic'.writer = relic.writer
          /\ \/ relic'.status = relic.status /\ (relic.kind = "pi" => relic.seen = relic.size)
             \/ relic'.status \in {relic.status, "failed"} /\ clean'.pc = "idle"
      BY Zenon, <1>4, LaterEffect, <2>1 DEF capture_pane, CleanupTyped, RelicSet, Places
    <3> QED
      BY Zenon, <2>1, <3>1 DEF Archived
  <2> QED
    BY Zenon, <2>5, <2>6, <2>7
<1>5. CASE write_artifacts
  <2>1. CleanTyped' /\ clean.pc = "archive" /\ clean'.pc \in {"close", "stamp"}
    BY Zenon, <1>5, GotoEffect, LaterEffect DEF write_artifacts, CleanupTyped, Places
  <2>2. relic' \in RelicSet
    <3>1. relic \in RelicSet
      BY Zenon DEF CleanupTyped
    <3>2. relic.seen \in Int /\ (relic.kind = "claude") \in BOOLEAN
      BY Zenon, <3>1 DEF RelicSet
    <3> QED
      BY Zenon, <1>5, <3>1, <3>2, RelicEdits DEF write_artifacts
  <2>3. relic'.seen <= relic'.size /\ relic'.copy <= relic'.size
    BY Zenon, <1>5 DEF write_artifacts, CleanupTyped, RelicSet
  <2>4. UNCHANGED <<fate, refs, tree, sess, told>>
    BY Zenon, <1>5 DEF write_artifacts
  <2>5. CleanupTyped'
    BY Zenon, <2>1, <2>2, <2>3, <2>4 DEF CleanupTyped, RefsTyped, SessTyped
  <2>6. Placed' /\ Reachable' /\ Listed'
    BY Zenon, <2>1, <2>4 DEF Placed, Reachable, Held, past_head_check, Listed
  <2>7. Archived'
    <3>1. /\ relic'.kind = relic.kind /\ relic'.marker = (relic.kind = "claude")
          /\ relic'.live = relic.live /\ relic'.copy = relic.seen /\ relic'.size = relic.size
          /\ relic'.writer = relic.writer /\ relic'.status = relic.status
          /\ clean'.pc = IF relic.kind = "claude" THEN "close" ELSE "stamp"
      BY Zenon, <1>5, GotoEffect, <2>1 DEF write_artifacts, CleanupTyped, RelicSet, Places
    <3> QED
      BY Zenon, <2>1, <3>1 DEF Archived
  <2> QED
    BY Zenon, <2>5, <2>6, <2>7
<1>6. CASE record_archived
  <2>1. CleanTyped' /\ clean.pc = "stamp" /\ clean'.pc \in {"unlink", "idle"}
    BY Zenon, <1>6, GotoEffect, LaterEffect DEF record_archived, CleanupTyped, Places
  <2>2. relic' \in RelicSet
    BY Zenon, <1>6, RelicEdits DEF record_archived, CleanupTyped
  <2>3. relic'.seen <= relic'.size /\ relic'.copy <= relic'.size
    BY Zenon, <1>6 DEF record_archived, CleanupTyped, RelicSet
  <2>4. UNCHANGED <<fate, refs, tree, sess, told>>
    BY Zenon, <1>6 DEF record_archived
  <2>5. CleanupTyped'
    BY Zenon, <2>1, <2>2, <2>3, <2>4 DEF CleanupTyped, RefsTyped, SessTyped
  <2>6. Placed' /\ Reachable' /\ Listed'
    BY Zenon, <2>1, <2>4 DEF Placed, Reachable, Held, past_head_check, Listed
  <2>7. Archived'
    <3>1. /\ relic'.kind = relic.kind /\ relic'.marker = relic.marker
          /\ relic'.live = relic.live /\ relic'.copy = relic.copy /\ relic'.size = relic.size
          /\ relic'.writer = relic.writer
          /\ \/ relic'.status = "complete"
             \/ relic'.status = relic.status /\ clean'.pc = "idle"
      BY Zenon, <1>6, LaterEffect, <2>1 DEF record_archived, CleanupTyped, RelicSet, Places
    <3> QED
      BY Zenon, <2>1, <3>1 DEF Archived
  <2> QED
    BY Zenon, <2>5, <2>6, <2>7
<1>7. CASE remove_live_session
  <2>1. CleanTyped' /\ clean.pc = "unlink" /\ clean'.pc \in {"close", "idle"}
    BY Zenon, <1>7, GotoEffect, LaterEffect DEF remove_live_session, CleanupTyped, Places
  <2>2. relic' \in RelicSet
    BY Zenon, <1>7, RelicEdits DEF remove_live_session, CleanupTyped
  <2>3. relic'.seen <= relic'.size /\ relic'.copy <= relic'.size
    BY Zenon, <1>7 DEF remove_live_session, CleanupTyped, RelicSet
  <2>4. UNCHANGED <<fate, refs, tree, sess, told>>
    BY Zenon, <1>7 DEF remove_live_session
  <2>5. CleanupTyped'
    BY Zenon, <2>1, <2>2, <2>3, <2>4 DEF CleanupTyped, RefsTyped, SessTyped
  <2>6. Placed' /\ Reachable' /\ Listed'
    BY Zenon, <2>1, <2>4 DEF Placed, Reachable, Held, past_head_check, Listed
  <2>7. Archived'
    <3>1. /\ relic'.kind = relic.kind /\ relic'.marker = relic.marker
          /\ relic'.copy = relic.copy /\ relic'.size = relic.size
          /\ relic'.writer = relic.writer /\ relic'.status = relic.status
          /\ \/ relic'.live = FALSE
             \/ relic'.live = relic.live /\ clean'.pc = "idle"
      BY Zenon, <1>7, LaterEffect, <2>1 DEF remove_live_session, CleanupTyped, RelicSet, Places
    <3> QED
      BY Zenon, <2>1, <3>1 DEF Archived
  <2> QED
    BY Zenon, <2>5, <2>6, <2>7
<1>8. CASE close_tmux_window
  <2>1. CleanTyped' /\ clean.pc = "close" /\ clean'.pc = "unmerged"
    BY Zenon, <1>8, GotoEffect, LaterEffect DEF close_tmux_window, CleanupTyped, Places
  <2>2. relic' \in RelicSet
    BY Zenon, <1>8, RelicEdits DEF close_tmux_window, CleanupTyped
  <2>3. relic'.seen <= relic'.size /\ relic'.copy <= relic'.size
    BY Zenon, <1>8 DEF close_tmux_window, CleanupTyped, RelicSet
  <2>4. UNCHANGED <<fate, refs, tree, sess, told>>
    BY Zenon, <1>8 DEF close_tmux_window
  <2>5. CleanupTyped'
    BY Zenon, <2>1, <2>2, <2>3, <2>4 DEF CleanupTyped, RefsTyped, SessTyped
  <2>6. Placed' /\ Reachable' /\ Listed'
    BY Zenon, <2>1, <2>4 DEF Placed, Reachable, Held, past_head_check, Listed
  <2>7. Archived'
    BY Zenon, <1>8, <2>1 DEF Archived, close_tmux_window, CleanupTyped, RelicSet
  <2> QED
    BY Zenon, <2>5, <2>6, <2>7
<1>9. CASE branch_unmerged_vs_source
  <2>1. /\ CleanTyped'
        /\ clean.pc = "unmerged"
        /\ \/ clean'.pc = "settled"
           \/ clean'.pc = "remove" /\ fate = "merged"
           \/ clean'.pc = "dirty" /\ fate \notin {"blocked", "failed"}
    BY Zenon, <1>9, GotoEffect, GuardEffect DEF branch_unmerged_vs_source, CleanupTyped, Places,
       teardown_policy, Preserve, Outcomes
  <2>2. UNCHANGED <<fate, refs, tree, relic, sess, told>>
    BY Zenon, <1>9 DEF branch_unmerged_vs_source
  <2>3. CleanupTyped'
    BY Zenon, <2>1, <2>2 DEF CleanupTyped, RefsTyped, SessTyped
  <2>4. Placed' /\ Archived' /\ Listed'
    BY Zenon, <2>1, <2>2 DEF Placed, Archived, Listed
  <2>5. Reachable'
    BY Zenon, <2>1, <2>2 DEF Reachable, Held, past_head_check
  <2> QED
    BY Zenon, <2>3, <2>4, <2>5
<1>10. CASE worktree_cleanliness
  <2>1. CleanTyped' /\ clean.pc = "dirty" /\ clean'.pc \in {"settled", "head"}
    BY Zenon, <1>10, GotoEffect, GuardEffect DEF worktree_cleanliness, CleanupTyped, Places
  <2>2. UNCHANGED <<fate, refs, tree, relic, sess, told>>
    BY Zenon, <1>10 DEF worktree_cleanliness
  <2>3. CleanupTyped'
    BY Zenon, <2>1, <2>2 DEF CleanupTyped, RefsTyped, SessTyped
  <2>4. Placed' /\ Archived' /\ Listed'
    BY Zenon, <2>1, <2>2 DEF Placed, Archived, Listed
  <2>5. Reachable'
    BY Zenon, <2>1, <2>2 DEF Reachable, Held, past_head_check
  <2> QED
    BY Zenon, <2>3, <2>4, <2>5
<1>11. CASE head_teardown_safety
  <2>1. /\ CleanTyped'
        /\ clean.pc = "head"
        /\ \/ clean'.pc = "settled"
           \/ /\ clean'.pc = "remove"
              /\ ~tree.there \/ tree.head = "branch" \/ head_commits \subseteq refs["source"]
    BY Zenon, <1>11, GotoEffect, GuardEffect DEF head_teardown_safety, CleanupTyped, Places
  <2>2. UNCHANGED <<fate, refs, tree, relic, sess, told>>
    BY Zenon, <1>11 DEF head_teardown_safety
  <2>3. CleanupTyped'
    BY Zenon, <2>1, <2>2 DEF CleanupTyped, RefsTyped, SessTyped
  <2>4. Placed' /\ Archived' /\ Listed'
    BY Zenon, <2>1, <2>2 DEF Placed, Archived, Listed
  <2>5. Reachable'
    BY Zenon, <2>1, <2>2 DEF Reachable, Held, past_head_check, head_commits, CleanupTyped,
       RefsTyped, TreeSet
  <2> QED
    BY Zenon, <2>3, <2>4, <2>5
<1>12. CASE remove_worktree
  <2>1. /\ CleanTyped' /\ clean.pc = "remove" /\ fate \notin {"blocked", "failed"}
        /\ UNCHANGED <<fate, refs, relic, sess>>
        /\ \/ tree' = tree /\ told' = told /\ ~tree.there /\ clean'.pc = "delete"
           \/ /\ tree' = Gone /\ Removed(tree) /\ clean'.pc = "delete"
              /\ fate = "merged" \/ ~tree.dirty
           \/ tree' = tree /\ told' = told /\ clean'.pc = "settled"
           \/ /\ fate = "merged" /\ told' = told /\ clean'.pc \in {"orphan", "settled"}
              /\ \E listed \in BOOLEAN : tree' = [tree EXCEPT !.listed = listed]
    <3>1. CASE tree.there /\ fate = "merged" /\ ~tree.listed /\ UNCHANGED <<tree, told>>
      <4>1. tree' = [tree EXCEPT !.listed = FALSE]
        BY Zenon, <3>1 DEF CleanupTyped, TreeSet
      <4> QED
        BY Zenon, <1>12, <3>1, <4>1, GotoEffect DEF remove_worktree, Preserve, CleanupTyped, Placed, Places
    <3>2. CASE ~(tree.there /\ fate = "merged" /\ ~tree.listed /\ UNCHANGED <<tree, told>>)
      BY Zenon, <1>12, <3>2, GotoEffect DEF remove_worktree, Preserve, CleanupTyped, Placed, Places
    <3> QED
      BY Zenon, <3>1, <3>2
  <2>2. tree' \in TreeSet /\ told' \in ToldSet /\ told'.lost = {} /\ told'.made = told.made
        /\ told'.exposed = told.exposed
    BY Zenon, <2>1, TreeEdits DEF CleanupTyped, Placed, Gone, Removed, ToldSet
  <2>3. CleanupTyped'
    BY Zenon, <2>1, <2>2 DEF CleanupTyped, RefsTyped, SessTyped
  <2>4. Placed' /\ Archived' /\ Listed'
    BY Zenon, <2>1, <2>2 DEF Placed, Archived, Listed, Gone, NoTree, CleanupTyped, TreeSet
  <2>5. Reachable'
    BY Zenon, <2>1, <2>2 DEF Reachable, Held, past_head_check, Gone, NoTree, CleanupTyped, TreeSet
  <2> QED
    BY Zenon, <2>3, <2>4, <2>5
<1>13. CASE remove_unregistered_checkout
  <2>1. /\ CleanTyped' /\ clean.pc = "orphan" /\ fate = "merged"
        /\ UNCHANGED <<fate, refs, relic, sess, told>>
        /\ (tree' = NoTree /\ clean'.pc = "delete") \/ (tree' = tree /\ clean'.pc = "settled")
    BY Zenon, <1>13, GotoEffect DEF remove_unregistered_checkout, Preserve, CleanupTyped, Placed,
       Places
  <2>2. tree' \in TreeSet
    BY Zenon, <2>1, TreeEdits DEF CleanupTyped
  <2>3. CleanupTyped'
    BY Zenon, <2>1, <2>2 DEF CleanupTyped, RefsTyped, SessTyped
  <2>4. Placed' /\ Archived' /\ Listed' /\ Reachable'
    BY SMTT(60), <2>1 DEF Placed, Archived, Listed, Reachable, NoTree
  <2> QED
    BY Zenon, <2>3, <2>4
<1>14. CASE delete_branch
  <2>1. /\ CleanTyped' /\ clean.pc = "delete" /\ clean'.pc = "settled"
        /\ UNCHANGED <<fate, tree, relic, sess, told>>
        /\ ~tree.there /\ fate \notin {"blocked", "failed"}
    BY Zenon, <1>14, GotoEffect DEF delete_branch, CleanupTyped, Placed, Places
  <2>2. RefsTyped'
    BY Zenon, <1>14 DEF delete_branch, drop, CleanupTyped, RefsTyped
  <2>3. ASSUME NEW c, Held(c), fate # "merged" PROVE Held(c)'
    BY Zenon, <1>14, <2>3 DEF delete_branch, drop, Held, CleanupTyped, RefsTyped
  <2>4. CleanupTyped'
    BY Zenon, <2>1, <2>2 DEF CleanupTyped, SessTyped
  <2>5. Placed' /\ Archived' /\ Listed'
    BY Zenon, <2>1 DEF Placed, Archived, Listed
  <2>6. Reachable'
    BY Zenon, <2>1, <2>3 DEF Reachable, past_head_check
  <2> QED
    BY Zenon, <2>4, <2>5, <2>6
<1>15. CASE cleanup_terminal_nodes
  <2>1. CleanTyped' /\ clean.pc = "settled" /\ clean'.pc \in {"session", "idle"}
    <3>1. evidence_complete \in BOOLEAN
      BY Zenon DEF evidence_complete
    <3>2. CASE evidence_complete
      BY Zenon, <1>15, <3>2 DEF cleanup_terminal_nodes, CleanTyped, Places
    <3>3. CASE ~evidence_complete
      BY Zenon, <1>15, <3>1, <3>3 DEF cleanup_terminal_nodes, CleanTyped, Places
    <3> QED
      BY Zenon, <3>2, <3>3
  <2>2. UNCHANGED <<fate, refs, tree, relic, sess, told>>
    BY Zenon, <1>15 DEF cleanup_terminal_nodes
  <2>3. CleanupTyped'
    BY Zenon, <2>1, <2>2 DEF CleanupTyped, RefsTyped, SessTyped
  <2>4. Placed' /\ Archived' /\ Listed'
    BY Zenon, <2>1, <2>2 DEF Placed, Archived, Listed
  <2>5. Reachable'
    BY Zenon, <2>1, <2>2 DEF Reachable, Held, past_head_check
  <2> QED
    BY Zenon, <2>3, <2>4, <2>5
<1>16. CASE list_session_windows
  <2>1. /\ CleanTyped' /\ clean.pc = "session" /\ clean'.pc \in {"kill", "end"}
        /\ clean'.pc = "kill" => ~sess.attached /\ ~sess.sibling
    BY Zenon, <1>16, GotoEffect DEF list_session_windows, CleanupTyped, Places
  <2>2. UNCHANGED <<fate, refs, tree, relic, sess, told>>
    BY Zenon, <1>16 DEF list_session_windows
  <2>3. CleanupTyped'
    BY Zenon, <2>1, <2>2 DEF CleanupTyped, RefsTyped, SessTyped
  <2>4. Placed' /\ Archived' /\ Listed'
    BY Zenon, <2>1, <2>2 DEF Placed, Archived, Listed
  <2>5. Reachable'
    BY Zenon, <2>1, <2>2 DEF Reachable, Held, past_head_check
  <2> QED
    BY Zenon, <2>3, <2>4, <2>5
<1>17. CASE kill_session
  <2>1. /\ CleanTyped' /\ clean'.pc = "end" /\ SessTyped'
        /\ UNCHANGED <<fate, refs, tree, relic, told>>
    BY Zenon, <1>17, GotoEffect DEF kill_session, CleanupTyped, SessTyped, Places
  <2>2. CleanupTyped'
    BY Zenon, <2>1 DEF CleanupTyped, RefsTyped
  <2>3. Placed' /\ Archived' /\ Listed'
    BY Zenon, <2>1 DEF Placed, Archived, Listed
  <2>4. Reachable'
    BY Zenon, <2>1 DEF Reachable, Held, past_head_check
  <2> QED
    BY Zenon, <2>2, <2>3, <2>4
<1>18. CASE CleanupCrash
  <2>1. CleanTyped' /\ clean'.pc = "idle"
    BY Zenon, <1>18 DEF CleanupCrash, CleanTyped, Places
  <2>2. relic' \in RelicSet /\ UNCHANGED <<fate, refs, tree, sess, told>>
    <3>1. -1 \in Int
      BY SMTT(60)
    <3> QED
      BY Zenon, <1>18, <3>1, RelicEdits DEF CleanupCrash, CleanupTyped
  <2>3. relic'.seen <= relic'.size /\ relic'.copy <= relic'.size
    BY SMTT(60), <1>18 DEF CleanupCrash, CleanupTyped, RelicSet
  <2>4. CleanupTyped'
    BY Zenon, <2>1, <2>2, <2>3 DEF CleanupTyped, RefsTyped, SessTyped
  <2>5. Placed' /\ Listed' /\ Reachable'
    BY Zenon, <2>1, <2>2 DEF Placed, Listed, Reachable, Held, past_head_check
  <2>6. Archived'
    BY Zenon, <1>18, <2>1 DEF CleanupCrash, Archived, CleanupTyped, RelicSet
  <2> QED
    BY Zenon, <2>4, <2>5, <2>6
<1>19. CASE WriterAppends
  <2>1. UNCHANGED <<fate, refs, tree, sess, clean, told>>
    BY Zenon, <1>19 DEF WriterAppends
  <2>2. relic' \in RelicSet
    <3>1. relic \in RelicSet
      BY Zenon DEF CleanupTyped
    <3>2. relic.size \in Int /\ relic.size + 1 \in Nat
      BY SMTT(60), <3>1 DEF RelicSet
    <3> QED
      BY Zenon, <1>19, <3>1, <3>2, RelicEdits DEF WriterAppends
  <2>3. relic'.seen <= relic'.size /\ relic'.copy <= relic'.size
    BY SMTT(60), <1>19 DEF WriterAppends, CleanupTyped, RelicSet
  <2>4. CleanupTyped'
    BY Zenon, <2>1, <2>2, <2>3 DEF CleanupTyped, RefsTyped, SessTyped, CleanTyped
  <2>5. Placed' /\ Listed' /\ Reachable'
    BY Zenon, <2>1 DEF Placed, Listed, Reachable, Held, past_head_check
  <2>6. Archived'
    BY Zenon, <1>19 DEF WriterAppends, Archived, CleanupTyped, RelicSet
  <2> QED
    BY Zenon, <2>4, <2>5, <2>6
<1>20. CASE WriterEnds
  <2>1. UNCHANGED <<fate, refs, tree, sess, clean, told>>
    BY Zenon, <1>20 DEF WriterEnds
  <2>2. relic' \in RelicSet
    BY Zenon, <1>20, RelicEdits DEF WriterEnds, CleanupTyped
  <2>3. relic'.seen <= relic'.size /\ relic'.copy <= relic'.size
    BY Zenon, <1>20 DEF WriterEnds, CleanupTyped, RelicSet
  <2>4. CleanupTyped'
    BY Zenon, <2>1, <2>2, <2>3 DEF CleanupTyped, RefsTyped, SessTyped, CleanTyped
  <2>5. Placed' /\ Listed' /\ Reachable'
    BY Zenon, <2>1 DEF Placed, Listed, Reachable, Held, past_head_check
  <2>6. Archived'
    BY Zenon, <1>20 DEF WriterEnds, Archived, CleanupTyped, RelicSet
  <2> QED
    BY Zenon, <2>4, <2>5, <2>6
<1>21. ASSUME NEW c \in Commit, CommitLate(c) PROVE Careful'
  <2>1. UNCHANGED <<fate, relic, clean, sess>> /\ tree.there
    BY Zenon, <1>21 DEF CommitLate, Late
  <2>2. /\ told'.made = told.made \cup {c} /\ told'.lost = told.lost /\ told' \in ToldSet
        /\ told'.exposed = IF past_head_check /\ tree.head = "detached"
                           THEN told.exposed \cup {c} ELSE told.exposed
    BY Zenon, <1>21 DEF CommitLate, CleanupTyped, ToldSet
  <2>3. CASE tree.head = "detached"
    <3>1. tree' = [tree EXCEPT !.at = @ \cup {c}] /\ refs' = refs
      BY Zenon, <1>21, <2>3 DEF CommitLate
    <3>2. tree' \in TreeSet
      BY ZenonT(60), <3>1, TreeEdits DEF CleanupTyped, TreeSet
    <3>3. /\ tree'.there = tree.there /\ tree'.head = tree.head
          /\ tree'.at = tree.at \cup {c}
      BY Zenon, <3>1 DEF CleanupTyped, TreeSet
    <3>4. CleanupTyped'
      BY Zenon, <2>1, <2>2, <3>1, <3>2 DEF CleanupTyped, RefsTyped, SessTyped, CleanTyped
    <3>5. Placed' /\ Archived' /\ Listed'
      BY Zenon, <2>1, <2>2, <3>1, <3>3 DEF Placed, Archived, Listed
    <3>6. Reachable'
      BY Zenon, <2>1, <2>2, <2>3, <3>1, <3>3 DEF Reachable, Held, past_head_check
    <3> QED
      BY Zenon, <3>4, <3>5, <3>6
  <2>4. CASE tree.head # "detached"
    <3>1. /\ refs' = [refs EXCEPT ![tree.head] = @ \cup {c}] /\ tree' = tree
          /\ tree.head \in DOMAIN refs
      BY Zenon, <1>21, <2>4 DEF CommitLate
    <3>2. RefsTyped' /\ DOMAIN refs' = DOMAIN refs
      BY Zenon, <3>1 DEF CleanupTyped, RefsTyped
    <3>3. Held(c)' /\ \A d : Held(d) => Held(d)'
      BY Zenon, <3>1, <3>2 DEF Held, CleanupTyped, RefsTyped
    <3>4. CleanupTyped'
      BY Zenon, <2>1, <2>2, <3>1, <3>2 DEF CleanupTyped, SessTyped, CleanTyped
    <3>5. Placed' /\ Archived' /\ Listed'
      BY Zenon, <2>1, <2>2, <3>1, <3>2 DEF Placed, Archived, Listed
    <3>6. Reachable'
      BY Zenon, <2>1, <2>2, <2>4, <3>1, <3>3 DEF Reachable, past_head_check
    <3> QED
      BY Zenon, <3>4, <3>5, <3>6
  <2> QED
    BY Zenon, <2>3, <2>4
<1>22. CASE EditLate
  <2>1. UNCHANGED <<fate, refs, relic, sess, clean, told>>
    BY Zenon, <1>22 DEF EditLate, Late
  <2>2. tree' \in TreeSet
    BY Zenon, <1>22, TreeEdits DEF EditLate, CleanupTyped
  <2>3. tree'.there = tree.there /\ tree'.head = tree.head /\ tree'.at = tree.at
    BY Zenon, <1>22 DEF EditLate, CleanupTyped, TreeSet
  <2>4. CleanupTyped'
    BY Zenon, <2>1, <2>2 DEF CleanupTyped, RefsTyped, SessTyped, CleanTyped
  <2>5. Placed' /\ Archived' /\ Listed' /\ Reachable'
    BY ZenonT(60), <2>1, <2>3 DEF Placed, Archived, Listed, Reachable, Held, past_head_check
  <2> QED
    BY Zenon, <2>4, <2>5
<1>23. CASE SwapDirectory
  <2>1. UNCHANGED <<fate, refs, relic, sess, clean, told>>
    BY Zenon, <1>23 DEF SwapDirectory, Late
  <2>2. tree' \in TreeSet
    BY Zenon, <1>23, TreeEdits DEF SwapDirectory, CleanupTyped
  <2>3. tree'.there = tree.there /\ tree'.head = tree.head /\ tree'.at = tree.at
    BY Zenon, <1>23 DEF SwapDirectory, CleanupTyped, TreeSet
  <2>4. CleanupTyped'
    BY Zenon, <2>1, <2>2 DEF CleanupTyped, RefsTyped, SessTyped, CleanTyped
  <2>5. Placed' /\ Archived' /\ Listed' /\ Reachable'
    BY ZenonT(60), <2>1, <2>3 DEF Placed, Archived, Listed, Reachable, Held, past_head_check
  <2> QED
    BY Zenon, <2>4, <2>5
<1>24. CASE SwitchLate
  <2>1. /\ UNCHANGED <<fate, relic, sess, clean, told>>
        /\ tree.there /\ tree.head = "branch" /\ "branch" \in DOMAIN refs
        /\ head_commits = refs["branch"] /\ head_commits \in SUBSET Commit
    BY Zenon, <1>24 DEF SwitchLate, Late, head_commits, Placed, CleanupTyped, RefsTyped
  <2>2. CASE tree' = [tree EXCEPT !.head = "detached", !.at = head_commits] /\ UNCHANGED refs
    <3>1. tree' \in TreeSet
      BY Zenon, <2>1, <2>2, TreeEdits DEF CleanupTyped
    <3>2. tree'.there = tree.there /\ tree'.head = "detached" /\ tree'.at = refs["branch"]
      BY Zenon, <2>1, <2>2 DEF CleanupTyped, TreeSet
    <3>3. CleanupTyped'
      BY Zenon, <2>1, <2>2, <3>1 DEF CleanupTyped, RefsTyped, SessTyped, CleanTyped
    <3>4. Placed' /\ Archived' /\ Listed'
      BY Zenon, <2>1, <2>2, <3>2 DEF Placed, Archived, Listed
    <3>5. Reachable'
      BY Zenon, <2>1, <2>2, <3>2 DEF Reachable, Held, past_head_check
    <3> QED
      BY Zenon, <3>3, <3>4, <3>5
  <2>3. CASE /\ "other" \notin DOMAIN refs
             /\ refs' = [r \in DOMAIN refs \cup {"other"} |->
                           IF r = "other" THEN head_commits ELSE refs[r]]
             /\ tree' = [tree EXCEPT !.head = "other"]
    <3>1. tree' \in TreeSet
      BY Zenon, <2>3, TreeEdits DEF CleanupTyped
    <3>2. tree'.there = tree.there /\ tree'.head = "other"
      BY Zenon, <2>3 DEF CleanupTyped, TreeSet
    <3>3. RefsTyped' /\ DOMAIN refs' = DOMAIN refs \cup {"other"}
      BY Zenon, <2>1, <2>3 DEF CleanupTyped, RefsTyped
    <3>4. \A c : Held(c) => Held(c)'
      BY Zenon, <2>3, <3>3 DEF Held
    <3>5. CleanupTyped'
      BY Zenon, <2>1, <3>1, <3>3 DEF CleanupTyped, SessTyped, CleanTyped
    <3>6. Placed' /\ Archived' /\ Listed'
      BY Zenon, <2>1, <3>2, <3>3 DEF Placed, Archived, Listed
    <3>7. Reachable'
      BY Zenon, <2>1, <3>2, <3>4 DEF Reachable, past_head_check
    <3> QED
      BY Zenon, <3>5, <3>6, <3>7
  <2> QED
    BY Zenon, <1>24, <2>2, <2>3 DEF SwitchLate
<1>25. CASE SessionUse
  <2>1. UNCHANGED <<fate, refs, tree, relic, clean, told>>
    BY Zenon, <1>25 DEF SessionUse, Late
  <2>2. SessTyped' /\ (clean.pc = "kill" => sess'.raced = TRUE)
    BY Zenon, <1>25 DEF SessionUse, CleanupTyped, SessTyped
  <2>3. CleanupTyped'
    BY Zenon, <2>1, <2>2 DEF CleanupTyped, RefsTyped, CleanTyped
  <2>4. Placed' /\ Archived' /\ Reachable' /\ Listed'
    BY ZenonT(60), <2>1, <2>2 DEF Placed, Archived, Reachable, Held, past_head_check, Listed
  <2> QED
    BY Zenon, <2>3, <2>4
<1>26. CASE TornDown \/ UNCHANGED teardown_vars
  BY SMTT(60), <1>26 DEF TornDown, teardown_vars, CleanupTyped, RefsTyped, SessTyped, CleanTyped,
     Placed, Reachable, Held, past_head_check, Archived, Listed
<1> QED
  BY Zenon, <1>1, <1>2, <1>3, <1>4, <1>5, <1>6, <1>7, <1>8, <1>9, <1>10, <1>11, <1>12,
     <1>13, <1>14, <1>15, <1>16, <1>17, <1>18, <1>19, <1>20, <1>21, <1>22, <1>23,
     <1>24, <1>25, <1>26 DEF TeardownNext, Cleanup

(* In a careful state nothing has been lost. *)
LEMMA CarefulSafe == Careful => TeardownPreserves
<1> SUFFICES ASSUME Careful PROVE TeardownPreserves
  BY Zenon
<1>1. TeardownTypeOK
  BY Zenon DEF Careful, CleanupTyped, RefsTyped, TreeSet, RelicSet, ToldSet, TeardownTypeOK
<1>2. CommitsReachable
  BY Zenon DEF Careful, Reachable, Held, CommitsReachable
<1>3. NothingElseLost /\ FailedKeepsBoth
  BY Zenon DEF Careful, Placed, NothingElseLost, FailedKeepsBoth
<1>4. TranscriptKept
  BY Zenon DEF Careful, Archived, TranscriptKept
<1> QED
  BY Zenon, <1>1, <1>2, <1>3, <1>4 DEF TeardownPreserves

(* Only delete_branch takes a branch away, and it comes after the removal  *)
(* of the checkout.                                                        *)
LEMMA BranchStep == Careful /\ [TeardownNext]_teardown_vars => BranchOutlivesCheckout
<1> SUFFICES ASSUME Careful, [TeardownNext]_teardown_vars PROVE BranchOutlivesCheckout
  BY Zenon
<1>1. CASE delete_branch
  BY Zenon, <1>1 DEF Careful, Placed, BranchOutlivesCheckout, delete_branch
<1>2. ASSUME NEW c \in Commit, CommitLate(c) PROVE BranchOutlivesCheckout
  BY Zenon, <1>2 DEF CommitLate, BranchOutlivesCheckout
<1>3. CASE SwitchLate
  BY ZenonT(60), <1>3 DEF SwitchLate, BranchOutlivesCheckout
<1>4. CASE archive_before_cleanup \/ quiesce_worker \/ read_nofollow \/ capture_pane
           \/ write_artifacts \/ record_archived \/ remove_live_session
           \/ close_tmux_window \/ branch_unmerged_vs_source \/ worktree_cleanliness
           \/ head_teardown_safety \/ remove_worktree \/ remove_unregistered_checkout
           \/ cleanup_terminal_nodes \/ list_session_windows \/ kill_session
  BY Zenon, <1>4 DEF BranchOutlivesCheckout, archive_before_cleanup, quiesce_worker,
     read_nofollow, capture_pane, write_artifacts, record_archived, remove_live_session,
     close_tmux_window, branch_unmerged_vs_source, worktree_cleanliness,
     head_teardown_safety, remove_worktree, remove_unregistered_checkout,
     cleanup_terminal_nodes, list_session_windows, kill_session
<1>5. CASE CleanupCrash \/ WriterAppends \/ WriterEnds \/ EditLate \/ SwapDirectory
           \/ SessionUse \/ TornDown \/ UNCHANGED teardown_vars
  BY Zenon, <1>5 DEF BranchOutlivesCheckout, CleanupCrash, WriterAppends, WriterEnds, EditLate,
     SwapDirectory, SessionUse, Late, TornDown, teardown_vars
<1> QED
  BY Zenon, <1>1, <1>2, <1>3, <1>4, <1>5 DEF TeardownNext, Cleanup

(* Only close_tmux_window closes the pane, once the evidence is complete.  *)
LEMMA PaneStep == Careful /\ [TeardownNext]_teardown_vars => PaneOutlivesArchive
<1> SUFFICES ASSUME Careful, [TeardownNext]_teardown_vars PROVE PaneOutlivesArchive
  BY Zenon
<1>1. relic \in RelicSet
  BY Zenon DEF Careful, CleanupTyped
<1>2. CASE close_tmux_window
  BY Zenon, <1>2 DEF Careful, Archived, PaneOutlivesArchive, close_tmux_window
<1>3. CASE relic'.pane = relic.pane
  BY Zenon, <1>3 DEF PaneOutlivesArchive
<1>4. CASE quiesce_worker \/ read_nofollow \/ capture_pane \/ write_artifacts
           \/ record_archived \/ remove_live_session \/ CleanupCrash
           \/ WriterAppends \/ WriterEnds
  <2>1. relic'.pane = relic.pane
    BY Zenon, <1>1, <1>4 DEF quiesce_worker, read_nofollow, capture_pane, write_artifacts,
       record_archived, remove_live_session, CleanupCrash, WriterAppends, WriterEnds, RelicSet
  <2> QED
    BY Zenon, <2>1, <1>3
<1>5. CASE archive_before_cleanup \/ branch_unmerged_vs_source \/ worktree_cleanliness
           \/ head_teardown_safety \/ remove_worktree \/ remove_unregistered_checkout
           \/ delete_branch \/ cleanup_terminal_nodes \/ list_session_windows \/ kill_session
  <2>1. relic' = relic
    BY Zenon, <1>5 DEF archive_before_cleanup, branch_unmerged_vs_source, worktree_cleanliness,
       head_teardown_safety, remove_worktree, remove_unregistered_checkout, delete_branch,
       cleanup_terminal_nodes, list_session_windows, kill_session
  <2> QED
    BY Zenon, <2>1, <1>3
<1>6. CASE (\E c \in Commit : CommitLate(c)) \/ EditLate \/ SwitchLate \/ SwapDirectory
           \/ SessionUse \/ TornDown \/ UNCHANGED teardown_vars
  <2>1. relic' = relic
    BY Zenon, <1>6 DEF CommitLate, EditLate, SwitchLate, SwapDirectory, SessionUse, Late,
       TornDown, teardown_vars
  <2> QED
    BY Zenon, <2>1, <1>3
<1> QED
  BY Zenon, <1>2, <1>4, <1>5, <1>6 DEF TeardownNext, Cleanup

(* Only kill_session ends a session, at the place the listing allowed.     *)
LEMMA SessionStep == Careful /\ [TeardownNext]_teardown_vars => SessionInUseIsKept
<1> SUFFICES ASSUME Careful, [TeardownNext]_teardown_vars PROVE SessionInUseIsKept
  BY Zenon
<1>1. CASE kill_session
  BY Zenon, <1>1 DEF Careful, Listed, SessionInUseIsKept, kill_session
<1>2. CASE SessionUse
  BY Zenon, <1>2 DEF Careful, CleanupTyped, SessTyped, SessionUse, SessionInUseIsKept
<1>3. CASE sess' = sess
  BY Zenon, <1>3 DEF SessionInUseIsKept
<1>4. CASE archive_before_cleanup \/ quiesce_worker \/ read_nofollow \/ capture_pane
           \/ write_artifacts \/ record_archived \/ remove_live_session
           \/ close_tmux_window \/ branch_unmerged_vs_source \/ worktree_cleanliness
           \/ head_teardown_safety \/ remove_worktree \/ remove_unregistered_checkout
           \/ delete_branch \/ cleanup_terminal_nodes \/ list_session_windows
  <2>1. sess' = sess
    BY Zenon, <1>4 DEF archive_before_cleanup, quiesce_worker,
       read_nofollow, capture_pane, write_artifacts, record_archived, remove_live_session,
       close_tmux_window, branch_unmerged_vs_source, worktree_cleanliness,
       head_teardown_safety, remove_worktree, remove_unregistered_checkout, delete_branch,
       cleanup_terminal_nodes, list_session_windows
  <2> QED
    BY Zenon, <2>1, <1>3
<1>5. CASE (\E c \in Commit : CommitLate(c)) \/ EditLate \/ SwitchLate \/ SwapDirectory
           \/ CleanupCrash \/ WriterAppends \/ WriterEnds \/ TornDown
           \/ UNCHANGED teardown_vars
  <2>1. sess' = sess
    BY Zenon, <1>5 DEF CommitLate, EditLate, SwitchLate, SwapDirectory, Late, CleanupCrash,
       WriterAppends, WriterEnds, TornDown, teardown_vars
  <2> QED
    BY Zenon, <2>1, <1>3
<1> QED
  BY Zenon, <1>1, <1>2, <1>4, <1>5 DEF TeardownNext, Cleanup

(* cleanup_node, for every set of commits, kind of evidence and number of  *)
(* late edits, failing calls and crashes: no commit outside a merge becomes *)
(* unreachable, no uncommitted edit and no foreign directory is destroyed, *)
(* blocked and failed work keeps its branch and worktree, and a transcript *)
(* is live or archived whole.                                              *)
THEOREM TeardownSafe == TeardownSpec => []TeardownPreserves
<1>1. TeardownInit => Careful
  BY Zenon, CarefulInit
<1>2. Careful /\ [TeardownNext]_teardown_vars => Careful'
  BY Zenon, CarefulStep
<1>3. Careful => TeardownPreserves
  BY Zenon, CarefulSafe
<1> QED
  BY <1>1, <1>2, <1>3, PTL DEF TeardownSpec

(* The order of removals in cleanup_node and cleanup_terminal_nodes holds  *)
(* for every step: the branch outlives the checkout, the pane outlives the *)
(* archive, and a session in use is left alone.                            *)
THEOREM TeardownOrdered == TeardownSpec => TeardownOrder
<1> DEFINE Step == BranchOutlivesCheckout /\ PaneOutlivesArchive /\ SessionInUseIsKept
<1>1. Careful /\ [TeardownNext]_teardown_vars => Step
  BY Zenon, BranchStep, PaneStep, SessionStep
<1>2. TeardownInit => Careful
  BY Zenon, CarefulInit
<1>3. Careful /\ [TeardownNext]_teardown_vars => Careful'
  BY Zenon, CarefulStep
<1> HIDE DEF Step
<1>4. TeardownSpec => [][Step]_teardown_vars
  BY <1>1, <1>2, <1>3, PTL DEF TeardownSpec
<1> QED
  BY Zenon, <1>4 DEF Step, TeardownOrder

-------------------------------------------------------------------------------

YardSet == [ino : 0..2, mark : {"bound", "stale", "foreign"}, reg : BOOLEAN,
            tip : 0..3, dirty : BOOLEAN, subs : BOOLEAN]
WorkerSet == [who : {"own", "none", "other"}, clear : BOOLEAN, told : BOOLEAN]
ReceiptSet == [seq : Nat, reason : Reasons \cup {"none"}, force : BOOLEAN, ino : 0..2, oid : 0..3]
AskSet == [verb : {"discard", "salvage", "none"}, node : DNodes \cup {AnyNode},
           reason : Reasons \cup {"none"}, force : BOOLEAN, sound : BOOLEAN]

\* The places of a discard that holds the lock, those after its receipt, and
\* the places of a salvage.
Locked == {"inspect", "receipt", "upgrade", "verify", "remove", "check", "delete"}
After == {"upgrade", "verify", "remove", "check", "delete"}
Salving == {"snapshot", "preview", "fence", "grace", "merge", "land"}

HandFields == {"pc", "ask", "node", "dir", "branch", "orphan", "fence", "said"}
BookFields == {"status", "seq", "receipt", "upgrade"}
TraceFields == {"touched", "late", "torn", "misfired", "unsound"}
OddFields == {"calls", "touches", "kills", "faults", "nodes", "status", "live"}

BookTyped ==
    /\ book = [x \in BookFields |-> book[x]]
    /\ book.status \in {"running", "failed", "cancelled", "done"} /\ book.seq \in Nat
    /\ book.receipt \in [DNodes -> ReceiptSet] /\ \A n \in DNodes : Receipt(n).seq <= book.seq
    /\ book.upgrade = [n \in DNodes |-> book.upgrade[n]]

HandTyped ==
    /\ hand = [h \in Hands |-> hand[h]]
    /\ \A h \in Hands : /\ hand[h] = [x \in HandFields |-> hand[h][x]]
                        /\ hand[h].ask \in AskSet
                        /\ hand[h].pc \in {"home", "lock"} \cup Locked \cup Salving

OddsTyped ==
    /\ odds = [x \in OddFields |-> odds[x]]
    /\ odds.touches \in Nat /\ odds.nodes \in SUBSET DNodes

Typed ==
    /\ yard \in [DNodes -> YardSet] /\ worker \in WorkerSet /\ BookTyped /\ HandTyped
    /\ OddsTyped /\ traces = [x \in TraceFields |-> traces[x]]

\* A node's checkout as the run left it, and the pins of a receipt for it.
Fresh(n) == yard[n].ino = 1 /\ yard[n].tip = 1 /\ yard[n].reg /\ yard[n].mark = "bound"
Tidy(n) == ~yard[n].dirty /\ ~yard[n].subs
Pins(n) == Receipted(n) /\ Receipt(n).ino = 1 /\ Receipt(n).oid = 1

\* How far a discard of node n has come, if nobody interfered.
Stage(n) ==
    \/ Vanished(n) /\ (Receipted(n) => Pins(n))
    \/ Fresh(n) /\ (Receipted(n) => Pins(n) /\ (Receipt(n).force \/ Tidy(n)))
    \/ yard[n].ino = 1 /\ yard[n].tip = 1 /\ ~yard[n].reg /\ yard[n].mark = "stale" /\ Pins(n)
    \/ yard[n].ino = 0 /\ yard[n].tip = 1 /\ ~yard[n].reg /\ Pins(n)

Alone == ~traces.touched /\ ~traces.torn

\* What the holder of the lock relies on.
Discarder(h) ==
    LET n == hand[h].node
        pc == hand[h].pc
    IN  /\ pc \in Locked \cup {"lock"} => Discards(h)
        /\ pc \in Locked <=> keeper = h
        /\ pc \in Locked \ {"inspect"} => n \in DNodes /\ book.status \in {"failed", "cancelled"}
        /\ pc \in After => Receipted(n)
        /\ pc = "receipt" => ~hand[h].orphan
        /\ pc = "receipt" /\ Alone =>
             Fresh(n) /\ hand[h].dir /\ hand[h].branch /\ (hand[h].ask.force \/ Tidy(n))
        /\ pc \in {"upgrade", "verify", "remove"} /\ hand[h].orphan =>
             hand[h].ask.force \/ Receipt(n).force
        /\ pc \in After \ {"upgrade"} /\ hand[h].ask.force => Receipt(n).force \/ book.upgrade[n]
        /\ pc = "remove" /\ ~traces.late => Receipt(n).ino \in {0, yard[n].ino}
        /\ pc = "delete" /\ ~traces.late => yard[n].ino = 0 /\ ~Registered(n)

\* What a salvage has found out about the worker and its request.
Salvor(h) ==
    /\ hand[h].pc \in Salving => hand[h].ask.verb = "salvage"
    /\ hand[h].pc = "preview" /\ ~hand[h].fence => worker.who # "own"
    /\ hand[h].pc \in {"merge", "land"} => worker.who # "own"
    /\ hand[h].pc \in {"fence", "grace"} => hand[h].ask.sound

Scene ==
    /\ worker.who = "own" => ~worker.told
    /\ traces.late => traces.touched
    /\ ~traces.misfired /\ ~traces.unsound
    /\ Alone => repo = "own" /\ \A n \in DNodes : Stage(n)

Pinned == Typed /\ Scene /\ \A h \in Hands : Discarder(h) /\ Salvor(h)

(* The records that the steps write are records of their types. *)
LEMMA YardEdits ==
    ASSUME NEW y \in YardSet, NEW b \in BOOLEAN, NEW t \in 0..3, 0 \in 0..2, 2 \in 0..2, 0 \in 0..3
    PROVE  /\ [y EXCEPT !.ino = 0, !.reg = FALSE, !.dirty = FALSE, !.subs = FALSE] \in YardSet
           /\ [y EXCEPT !.dirty = TRUE] \in YardSet
           /\ [y EXCEPT !.tip = t] \in YardSet
           /\ [y EXCEPT !.reg = b] \in YardSet
           /\ [y EXCEPT !.ino = 2, !.mark = "bound", !.reg = TRUE, !.dirty = FALSE,
                        !.subs = FALSE] \in YardSet
           /\ [y EXCEPT !.ino = 2, !.mark = "foreign", !.dirty = TRUE] \in YardSet
           /\ [y EXCEPT !.reg = FALSE, !.mark = "stale"] \in YardSet
           /\ [y EXCEPT !.mark = "stale"] \in YardSet
BY Zenon DEF YardSet

LEMMA StartRecords ==
    ASSUME 0 \in 0..2, 0 \in 0..3, 0 \in Nat
    PROVE  /\ Bare \in YardSet /\ NoReceipt \in ReceiptSet
           /\ AtHome.ask \in AskSet
<1>1. Bare \in YardSet
  BY Zenon DEF Bare, YardSet
<1>2. NoReceipt \in ReceiptSet
  BY Zenon DEF NoReceipt, ReceiptSet
<1>3. AtHome.ask \in AskSet
  <2>1. AtHome.ask = [verb |-> "none", node |-> AnyNode, reason |-> "none",
                      force |-> FALSE, sound |-> TRUE]
    BY Zenon DEF AtHome
  <2>2. [verb |-> "none", node |-> AnyNode, reason |-> "none",
         force |-> FALSE, sound |-> TRUE] \in AskSet
    BY Zenon DEF AskSet
  <2> QED
    BY Zenon, <2>1, <2>2
<1> QED
  BY Zenon, <1>1, <1>2, <1>3

LEMMA Numbers == 0 \in 0..2 /\ 1 \in 0..2 /\ 2 \in 0..2 /\ 0 \in 0..3 /\ 1 \in 0..3 /\ 0 \in Nat
BY SMTT(60)

(* A call that goes on changes its place, and one that answers goes home. *)
LEMMA TurnEffect ==
    ASSUME HandTyped, NEW h \in Hands, NEW p \in {"home", "lock"} \cup Locked \cup Salving,
           Turn(h, p)
    PROVE  /\ HandTyped' /\ hand'[h].pc = p
           /\ \A x \in HandFields \ {"pc"} : hand'[h][x] = hand[h][x]
           /\ \A g \in Hands \ {h} : hand'[g] = hand[g]
<1>1. /\ hand' = [g \in Hands |-> hand'[g]] /\ hand'[h] = [hand[h] EXCEPT !.pc = p]
      /\ \A g \in Hands \ {h} : hand'[g] = hand[g]
  BY Zenon DEF HandTyped, Turn
<1>2. hand[h] = [x \in HandFields |-> hand[h][x]]
  BY Zenon DEF HandTyped
<1>3. /\ hand'[h] = [x \in HandFields |-> hand'[h][x]] /\ hand'[h].pc = p
      /\ \A x \in HandFields \ {"pc"} : hand'[h][x] = hand[h][x]
  BY Zenon, <1>1, <1>2 DEF HandFields
<1>4. hand'[h].ask = hand[h].ask
  BY Zenon, <1>3 DEF HandFields
<1>5. \A g \in Hands : /\ hand'[g] = [x \in HandFields |-> hand'[g][x]]
                       /\ hand'[g].ask \in AskSet
                       /\ hand'[g].pc \in {"home", "lock"} \cup Locked \cup Salving
  <2>1. ASSUME NEW g \in Hands
        PROVE  /\ hand'[g] = [x \in HandFields |-> hand'[g][x]]
               /\ hand'[g].ask \in AskSet
               /\ hand'[g].pc \in {"home", "lock"} \cup Locked \cup Salving
    <3>1. CASE g = h
      BY Zenon, <1>3, <1>4, <3>1 DEF HandTyped
    <3>2. CASE g # h
      BY Zenon, <1>1, <3>2 DEF HandTyped
    <3> QED
      BY Zenon, <3>1, <3>2
  <2> QED
    BY Zenon, <2>1
<1>6. HandTyped'
  BY Zenon, <1>1, <1>5 DEF HandTyped
<1> QED
  BY Zenon, <1>1, <1>3, <1>6

LEMMA RepliesEffect ==
    ASSUME HandTyped, NEW h \in Hands, NEW said, Replies(h, said)
    PROVE  /\ HandTyped' /\ hand'[h].pc = "home"
           /\ \A g \in Hands \ {h} : hand'[g] = hand[g]
<1>1. /\ hand' = [g \in Hands |-> hand'[g]] /\ hand'[h] = [AtHome EXCEPT !.said = said]
      /\ \A g \in Hands \ {h} : hand'[g] = hand[g]
  BY Zenon DEF HandTyped, Replies
<1>2. /\ hand'[h] = [x \in HandFields |-> hand'[h][x]] /\ hand'[h].pc = "home"
      /\ hand'[h].ask = AtHome.ask
  BY Zenon, <1>1 DEF HandFields, AtHome
<1>3. AtHome.ask \in AskSet
  BY Zenon, Numbers, StartRecords
<1> QED
  BY ZenonT(60), <1>1, <1>2, <1>3 DEF HandTyped

LEMMA StakeEffect ==
    ASSUME OddsTyped, NEW kind \in {"calls", "touches", "kills", "faults"}, Stake(kind)
    PROVE  /\ OddsTyped'
           /\ kind # "touches" => odds'.touches = odds.touches
           /\ kind = "touches" => odds'.touches < odds.touches
           /\ odds'.nodes = odds.nodes
<1>1. odds' = [odds EXCEPT ![kind] = odds[kind] - 1] /\ odds = [x \in OddFields |-> odds[x]]
      /\ odds.touches \in Nat
  BY Zenon DEF OddsTyped, Stake
<1>2. odds' = [x \in OddFields |-> odds'[x]] /\ odds'.nodes = odds.nodes
  BY Zenon, <1>1 DEF OddFields
<1>3. kind # "touches" => odds'.touches = odds.touches
  BY Zenon, <1>1 DEF OddFields
<1>4. kind = "touches" => odds'.touches = odds.touches - 1 /\ odds.touches > 0
  BY Zenon, <1>1 DEF OddFields, Stake
<1> QED
  BY SMTT(60), <1>1, <1>2, <1>3, <1>4 DEF OddsTyped

(* A caller acts: what another relies on is out of its reach, since only   *)
(* the holder of the lock touches checkouts and receipts.                  *)
LEMMA Acts ==
    ASSUME Pinned, NEW h \in Hands, Typed', Scene',
           \A g \in Hands \ {h} : hand'[g] = hand[g], UNCHANGED worker,
           \/ keeper' = keeper \/ (keeper = h /\ keeper' = Nobody)
           \/ (keeper = Nobody /\ keeper' = h),
           \/ keeper \in {h, Nobody}
           \/ /\ UNCHANGED <<yard, repo, book>> /\ traces'.late = traces.late
              /\ traces'.touched = traces.touched /\ traces'.torn = traces.torn,
           Discarder(h)', Salvor(h)'
    PROVE  Pinned'
<1>1. ASSUME NEW g \in Hands, g # h PROVE Discarder(g)' /\ Salvor(g)'
  <2>1. hand'[g] = hand[g] /\ Discarder(g) /\ Salvor(g) /\ Nobody \notin Hands
    BY Zenon, <1>1, DisposalAssumption DEF Pinned
  <2>2. Salvor(g)'
    BY Zenon, <2>1 DEF Salvor
  <2>3. CASE keeper \in {h, Nobody}
    <3>1. keeper # g /\ keeper' # g
      BY SMTT(60), <1>1, <2>1, <2>3
    <3>2. hand[g].pc \notin Locked
      BY Zenon, <2>1, <3>1 DEF Discarder
    <3>3. hand[g].pc \notin {"receipt", "upgrade", "verify", "remove", "delete"}
          /\ hand[g].pc \notin After
      BY Zenon, <3>2 DEF Locked, After
    <3> QED
      BY Zenon, <2>1, <2>2, <3>1, <3>2, <3>3 DEF Discarder, Discards
  <2>4. CASE /\ UNCHANGED <<yard, repo, book>> /\ traces'.late = traces.late
             /\ traces'.touched = traces.touched /\ traces'.torn = traces.torn
    <3>1. keeper' = g <=> keeper = g
      BY SMTT(60), <1>1, <2>1
    <3>2. Alone' <=> Alone
      BY Zenon, <2>4 DEF Alone
    <3>3. \A n : /\ Receipt(n)' = Receipt(n) /\ (Fresh(n)' <=> Fresh(n))
                 /\ (Tidy(n)' <=> Tidy(n)) /\ (Registered(n)' <=> Registered(n))
      BY Zenon, <2>4 DEF Receipt, Fresh, Tidy, Registered
    <3>4. \A n : Receipted(n)' <=> Receipted(n)
      BY Zenon, <3>3 DEF Receipted
    <3>5. book' = book /\ yard' = yard /\ traces'.late = traces.late
      BY Zenon, <2>4
    <3>6. Discards(g)' <=> Discards(g)
      BY Zenon, <2>1 DEF Discards
    <3>7. Discarder(g)'
      BY ZenonT(60), <2>1, <3>1, <3>2, <3>3, <3>4, <3>5, <3>6 DEF Discarder
    <3> QED
      BY Zenon, <2>2, <3>7
  <2> QED
    BY Zenon, <2>3, <2>4
<1> QED
  BY Zenon, <1>1 DEF Pinned

(* A caller that answers lets go of the lock. *)
LEMMA Ends ==
    ASSUME Pinned, NEW h \in Hands, NEW said, Replies(h, said),
           \/ keeper' = IF keeper = h THEN Nobody ELSE keeper
           \/ keeper # h /\ UNCHANGED keeper,
           yard' \in [DNodes -> YardSet], BookTyped', OddsTyped',
           traces' = [x \in TraceFields |-> traces'[x]],
           Scene', UNCHANGED worker,
           \/ keeper \in {h, Nobody}
           \/ /\ UNCHANGED <<yard, repo, book>> /\ traces'.late = traces.late
              /\ traces'.touched = traces.touched /\ traces'.torn = traces.torn
    PROVE  Pinned'
<1>1. HandTyped /\ worker \in WorkerSet /\ Nobody \notin Hands
  BY Zenon, DisposalAssumption DEF Pinned, Typed
<1>2. /\ HandTyped' /\ hand'[h].pc = "home"
      /\ \A g \in Hands \ {h} : hand'[g] = hand[g]
  BY Zenon, <1>1, RepliesEffect
<1>3. Typed'
  BY Zenon, <1>1, <1>2 DEF Typed
<1>4. keeper' # h
  BY Zenon, <1>1
<1>5. Discarder(h)' /\ Salvor(h)'
  BY Zenon, <1>2, <1>4 DEF Discarder, Salvor, Locked, After, Salving
<1> QED
  BY Zenon, <1>1, <1>2, <1>3, <1>5, Acts

(* Before the first call the checkouts are as the run left them. *)
LEMMA PinnedInit == DisposalInit => Pinned
<1> SUFFICES ASSUME DisposalInit PROVE Pinned
  BY Zenon
<1> DEFINE Left == [ino : {1}, mark : {"bound"}, reg : {TRUE}, tip : {1},
                    dirty : BOOLEAN, subs : BOOLEAN]
<1>1. yard \in [DNodes -> {Bare} \cup Left]
  BY Zenon DEF DisposalInit
<1>2. yard \in [DNodes -> YardSet]
  <2>1. Left \subseteq YardSet
    BY Zenon, Numbers DEF YardSet
  <2>2. Bare \in YardSet
    BY Zenon, Numbers, StartRecords
  <2> HIDE DEF Left
  <2> QED
    BY Zenon, <1>1, <2>1, <2>2
<1>3. worker \in WorkerSet /\ (worker.who = "own" => ~worker.told)
  <2>1. CASE odds.live
    <3>1. PICK c \in BOOLEAN : worker = [who |-> "own", clear |-> c, told |-> FALSE]
      BY Zenon, <2>1 DEF DisposalInit
    <3>2. worker \in WorkerSet
      BY Zenon, <3>1 DEF WorkerSet
    <3> QED
      BY Zenon, <3>1, <3>2
  <2>2. CASE ~odds.live
    <3>1. worker = [who |-> "none", clear |-> TRUE, told |-> TRUE]
      BY Zenon, <2>2 DEF DisposalInit
    <3>2. worker \in WorkerSet
      BY Zenon, <3>1 DEF WorkerSet
    <3> QED
      BY Zenon, <3>1, <3>2
  <2> QED
    BY Zenon, <2>1, <2>2
<1>4. odds \in [calls : Nat, touches : Nat, kills : Nat, faults : Nat, nodes : SUBSET DNodes,
                status : {"running", "failed", "cancelled"}, live : BOOLEAN]
  BY Zenon, DisposalAssumption DEF DisposalInit
<1>5. OddsTyped /\ odds.status \in {"running", "failed", "cancelled"}
  BY Zenon, <1>4 DEF OddsTyped, OddFields
<1>6. \A n \in DNodes : Receipt(n) = NoReceipt /\ ~Receipted(n)
  BY Zenon DEF DisposalInit, Receipt, Receipted, NoReceipt
<1>7. BookTyped
  <2>1. /\ book.status = odds.status /\ book.seq = 0
        /\ book.receipt = [n \in DNodes |-> NoReceipt] /\ book.upgrade = [n \in DNodes |-> FALSE]
        /\ book = [x \in BookFields |-> book[x]]
    BY Zenon DEF DisposalInit, BookFields
  <2>2. NoReceipt \in ReceiptSet /\ NoReceipt.seq = 0
    BY Zenon, Numbers, StartRecords DEF NoReceipt
  <2> QED
    BY SMTT(60), <1>5, <1>6, <2>1, <2>2 DEF BookTyped
<1>8. HandTyped /\ \A h \in Hands : hand[h].pc = "home"
  <2>1. hand = [h \in Hands |-> AtHome]
    BY Zenon DEF DisposalInit
  <2>2. AtHome = [x \in HandFields |-> AtHome[x]] /\ AtHome.pc = "home"
    BY Zenon DEF AtHome, HandFields
  <2>3. AtHome.ask \in AskSet
    BY Zenon, Numbers, StartRecords
  <2> QED
    BY Zenon, <2>1, <2>2, <2>3 DEF HandTyped
<1>9. /\ traces = [x \in TraceFields |-> traces[x]] /\ ~traces.touched /\ ~traces.late
      /\ ~traces.misfired /\ ~traces.unsound /\ repo = "own"
  BY Zenon DEF DisposalInit, TraceFields
<1>10. \A n \in DNodes : Stage(n)
  <2>1. ASSUME NEW n \in DNodes, yard[n] = Bare PROVE Vanished(n)
    BY SMTT(60), <2>1 DEF Vanished, Bare
  <2>2. ASSUME NEW n \in DNodes, yard[n] \in Left PROVE Fresh(n)
    BY Zenon, <2>2 DEF Fresh
  <2> QED
    BY Zenon, <1>1, <1>6, <2>1, <2>2 DEF Stage
<1>11. keeper = Nobody /\ Nobody \notin Hands
  BY Zenon, DisposalAssumption DEF DisposalInit
<1>12. \A h \in Hands : Discarder(h) /\ Salvor(h)
  BY Zenon, <1>8, <1>11 DEF Discarder, Salvor, Locked, After, Salving
<1> QED
  BY Zenon, <1>2, <1>3, <1>5, <1>7, <1>8, <1>9, <1>10, <1>12 DEF Pinned, Typed, Scene

(* Steps that leave checkouts, log and history alone leave the scene. *)
LEMMA SceneSame ==
    ASSUME Pinned, UNCHANGED <<yard, repo, worker, book, traces>>
    PROVE  /\ Scene' /\ yard' \in [DNodes -> YardSet] /\ BookTyped'
           /\ traces' = [x \in TraceFields |-> traces'[x]]
BY ZenonT(60) DEF Pinned, Typed, Scene, BookTyped, Receipt, Alone, Stage, Vanished, Receipted, Pins, Fresh, Tidy

LEMMA Answers ==
    ASSUME Pinned, NEW h \in Hands, NEW said, Replies(h, said),
           \/ keeper' = IF keeper = h THEN Nobody ELSE keeper
           \/ keeper # h /\ UNCHANGED keeper,
           UNCHANGED <<yard, repo, worker, book, traces>>, OddsTyped'
    PROVE  Pinned'
BY Zenon, SceneSame, Ends

(* A call that goes on without a write. *)
LEMMA GoesOn ==
    ASSUME Pinned, NEW h \in Hands, UNCHANGED <<yard, repo, worker, book, traces>>,
           OddsTyped', HandTyped', \A g \in Hands \ {h} : hand'[g] = hand[g],
           keeper' = keeper \/ (keeper = Nobody /\ keeper' = h), Discarder(h)', Salvor(h)'
    PROVE  Pinned'
<1>1. Typed'
  BY Zenon, SceneSame DEF Pinned, Typed
<1> QED
  BY Zenon, <1>1, SceneSame, Acts

LEMMA CallStep == ASSUME Pinned, NEW h \in Hands, NEW ask \in Chores, Call(h, ask) PROVE Pinned'
<1>1. HandTyped /\ OddsTyped /\ hand[h].pc = "home" /\ UNCHANGED <<yard, repo, worker, book, traces, keeper>>
  BY Zenon DEF Pinned, Typed, Call
<1>2. OddsTyped'
  BY Zenon, <1>1, StakeEffect DEF Call
<1> DEFINE p == IF ask.verb = "discard" THEN "lock" ELSE "snapshot"
<1>3. /\ hand' = [g \in Hands |-> hand'[g]] /\ hand'[h] = [AtHome EXCEPT !.pc = p, !.ask = ask]
      /\ \A g \in Hands \ {h} : hand'[g] = hand[g]
  BY Zenon, <1>1 DEF HandTyped, Call
<1>4. ask \in AskSet /\ ask.verb \in {"discard", "salvage"}
  <2>1. ask \in [verb : {"discard", "salvage"}, node : DNodes \cup {AnyNode},
                 reason : Reasons \cup {"none"}, force : BOOLEAN, sound : BOOLEAN]
    BY Zenon, DisposalAssumption
  <2>2. ask.verb \in {"discard", "salvage"}
    BY Zenon, <2>1
  <2>3. ask \in AskSet
    BY Zenon, <2>1 DEF AskSet
  <2> QED
    BY Zenon, <2>2, <2>3
<1>5. /\ hand'[h] = [x \in HandFields |-> hand'[h][x]] /\ hand'[h].pc = p /\ hand'[h].ask = ask
      /\ p \in {"lock", "snapshot"} /\ (p = "lock" <=> ask.verb = "discard")
  BY Zenon, <1>3, <1>4 DEF HandFields, AtHome
<1> HIDE DEF p
<1>6. HandTyped'
  <2>1. ASSUME NEW g \in Hands
        PROVE  /\ hand'[g] = [x \in HandFields |-> hand'[g][x]]
               /\ hand'[g].ask \in AskSet
               /\ hand'[g].pc \in {"home", "lock"} \cup Locked \cup Salving
    <3>1. CASE g = h
      BY Zenon, <1>4, <1>5, <3>1 DEF Salving
    <3>2. CASE g # h
      BY Zenon, <1>1, <1>3, <3>2 DEF HandTyped
    <3> QED
      BY Zenon, <3>1, <3>2
  <2> QED
    BY Zenon, <1>3, <2>1 DEF HandTyped
<1>7. keeper # h
  BY Zenon, <1>1 DEF Pinned, Discarder, Locked
<1>8. Discarder(h)' /\ Salvor(h)'
  BY Zenon, <1>1, <1>4, <1>5, <1>7 DEF Discarder, Salvor, Locked, After, Salving, Discards
<1> QED
  BY Zenon, <1>1, <1>2, <1>3, <1>6, <1>8, GoesOn

LEMMA TakeLockStep == ASSUME Pinned, NEW h \in Hands, TakeLock(h) PROVE Pinned'
<1>1. HandTyped /\ OddsTyped /\ OddsTyped' /\ hand[h].pc = "lock" /\ Turn(h, "inspect")
      /\ keeper = Nobody /\ keeper' = h /\ UNCHANGED <<yard, repo, worker, book, traces>>
  BY Zenon DEF Pinned, Typed, TakeLock, OddsTyped
<1>2. /\ HandTyped' /\ hand'[h].pc = "inspect" /\ hand'[h].ask = hand[h].ask
      /\ \A g \in Hands \ {h} : hand'[g] = hand[g]
  BY Zenon, <1>1, TurnEffect DEF Locked, HandFields
<1>3. Discarder(h)' /\ Salvor(h)'
  BY Zenon, <1>1, <1>2 DEF Pinned, Discarder, Salvor, Locked, After, Salving, Discards
<1> QED
  BY Zenon, <1>1, <1>2, <1>3, GoesOn

(* The steps of a salvage, which holds no lock. *)
LEMMA NotLocked ==
    ASSUME Pinned, NEW h \in Hands, hand[h].pc \in Salving
    PROVE  keeper # h /\ hand[h].ask.verb = "salvage"
BY Zenon DEF Pinned, Discarder, Salvor, Salving, Locked

LEMMA SalvageGoes ==
    ASSUME Pinned, NEW h \in Hands, hand[h].pc \in Salving, HandTyped',
           hand'[h].ask = hand[h].ask, hand'[h].pc \in Salving,
           \A g \in Hands \ {h} : hand'[g] = hand[g],
           hand'[h].pc = "preview" /\ ~hand'[h].fence => worker.who # "own",
           hand'[h].pc \in {"merge", "land"} => worker.who # "own",
           hand'[h].pc \in {"fence", "grace"} => hand[h].ask.sound,
           UNCHANGED <<yard, repo, worker, book, keeper, traces, odds>>
    PROVE  Pinned'
<1>1. keeper # h /\ hand[h].ask.verb = "salvage"
  BY Zenon, NotLocked
<1>2. OddsTyped'
  BY Zenon DEF Pinned, Typed, OddsTyped
<1>3. Salvor(h)'
  BY Zenon, <1>1 DEF Salvor
<1>4. Discarder(h)'
  BY Zenon, <1>1 DEF Discarder, Locked, After, Salving
<1> QED
  BY Zenon, <1>2, <1>3, <1>4, GoesOn

LEMMA SalvageAnswers ==
    ASSUME Pinned, NEW h \in Hands, hand[h].pc \in Salving, NEW said, Replies(h, said),
           UNCHANGED <<yard, repo, worker, book, keeper, traces, odds>>
    PROVE  Pinned'
<1>1. OddsTyped'
  BY Zenon DEF Pinned, Typed, OddsTyped
<1> QED
  BY Zenon, <1>1, NotLocked, Answers

LEMMA SnapshotStep == ASSUME Pinned, NEW h \in Hands, Snapshot(h) PROVE Pinned'
<1>1. /\ hand[h].pc = "snapshot" /\ hand[h].pc \in Salving /\ HandTyped
      /\ UNCHANGED <<yard, repo, worker, book, keeper, traces, odds>>
  BY Zenon DEF Snapshot, Salving, Pinned, Typed
<1>2. CASE Replies(h, "refused")
  BY Zenon, <1>1, <1>2, SalvageAnswers
<1>3. CASE /\ classify_worker # "unverifiable"
           /\ hand' = [hand EXCEPT ![h].pc = "preview", ![h].fence = (classify_worker = "live")]
  <2>1. /\ hand' = [g \in Hands |-> hand'[g]]
        /\ hand'[h] = [hand[h] EXCEPT !.pc = "preview", !.fence = (classify_worker = "live")]
        /\ \A g \in Hands \ {h} : hand'[g] = hand[g]
        /\ hand[h] = [x \in HandFields |-> hand[h][x]]
    BY Zenon, <1>1, <1>3 DEF HandTyped
  <2>2. /\ hand'[h] = [x \in HandFields |-> hand'[h][x]] /\ hand'[h].pc = "preview"
        /\ hand'[h].ask = hand[h].ask /\ hand'[h].fence = (classify_worker = "live")
    BY Zenon, <2>1 DEF HandFields
  <2>3. HandTyped'
    <3>1. ASSUME NEW g \in Hands
          PROVE  /\ hand'[g] = [x \in HandFields |-> hand'[g][x]]
                 /\ hand'[g].ask \in AskSet
                 /\ hand'[g].pc \in {"home", "lock"} \cup Locked \cup Salving
      <4>1. CASE g = h
        BY Zenon, <1>1, <2>2, <4>1 DEF Salving, HandTyped
      <4>2. CASE g # h
        BY SMTT(60), <1>1, <2>1, <4>2 DEF HandTyped
      <4> QED
        BY Zenon, <4>1, <4>2
    <3> QED
      BY Zenon, <2>1, <3>1 DEF HandTyped
  <2>4. worker.who = "own" => ~worker.told
    BY Zenon DEF Pinned, Scene
  <2>5. classify_worker # "live" => worker.who # "own"
    BY Zenon, <1>3, <2>4 DEF classify_worker
  <2>6. hand'[h].pc \in Salving /\ (~hand'[h].fence => worker.who # "own")
    BY Zenon, <2>2, <2>5 DEF Salving
  <2> QED
    BY Zenon, <1>1, <2>1, <2>2, <2>3, <2>6, SalvageGoes
<1> QED
  BY Zenon, <1>2, <1>3 DEF Snapshot

LEMMA PreviewStep == ASSUME Pinned, NEW h \in Hands, Preview(h) PROVE Pinned'
<1>1. /\ hand[h].pc = "preview" /\ hand[h].pc \in Salving /\ HandTyped
      /\ UNCHANGED <<yard, repo, worker, book, keeper, traces, odds>>
  BY Zenon DEF Preview, Salving, Pinned, Typed
<1>2. CASE Replies(h, "refused")
  BY Zenon, <1>1, <1>2, SalvageAnswers
<1>3. CASE hand[h].ask.sound /\ hand[h].fence /\ Turn(h, "fence")
  <2>1. /\ HandTyped' /\ hand'[h].pc = "fence" /\ hand'[h].ask = hand[h].ask
        /\ \A g \in Hands \ {h} : hand'[g] = hand[g] /\ hand'[h].pc \in Salving
    BY Zenon, <1>1, <1>3, TurnEffect DEF Salving, HandFields
  <2> QED
    BY Zenon, <1>1, <1>3, <2>1, SalvageGoes DEF Salving
<1>4. CASE ~hand[h].fence /\ Turn(h, "merge")
  <2>1. /\ HandTyped' /\ hand'[h].pc = "merge" /\ hand'[h].ask = hand[h].ask
        /\ \A g \in Hands \ {h} : hand'[g] = hand[g]
    BY Zenon, <1>1, <1>4, TurnEffect DEF Salving, HandFields
  <2>2. worker.who # "own"
    BY Zenon, <1>1, <1>4 DEF Pinned, Salvor
  <2> QED
    BY Zenon, <1>1, <2>1, <2>2, SalvageGoes DEF Salving
<1> QED
  BY Zenon, <1>2, <1>3, <1>4 DEF Preview

LEMMA FenceStep == ASSUME Pinned, NEW h \in Hands, fence_worker(h) PROVE Pinned'
<1>1. /\ hand[h].pc = "fence" /\ hand[h].pc \in Salving /\ HandTyped /\ hand[h].ask.sound
      /\ UNCHANGED <<yard, repo, worker, book, keeper, odds>>
  BY Zenon DEF fence_worker, Salving, Pinned, Typed, Salvor
<1>2. CASE same_process = "no"
  <2>1. Turn(h, "merge") /\ UNCHANGED traces
    BY Zenon, <1>2 DEF fence_worker
  <2>2. /\ HandTyped' /\ hand'[h].pc = "merge" /\ hand'[h].ask = hand[h].ask
        /\ \A g \in Hands \ {h} : hand'[g] = hand[g]
    BY Zenon, <1>1, <2>1, TurnEffect DEF Salving, HandFields
  <2>3. worker.who # "own"
    BY Zenon, <1>2 DEF same_process
  <2> QED
    BY Zenon, <1>1, <2>1, <2>2, <2>3, SalvageGoes DEF Salving
<1>3. CASE same_process = "unknown"
  <2>1. Replies(h, "unfenced") /\ UNCHANGED traces
    BY Zenon, <1>3 DEF fence_worker
  <2> QED
    BY Zenon, <1>1, <2>1, SalvageAnswers
<1>4. CASE same_process = "yes"
  <2>1. worker.who = "own"
    BY Zenon, <1>4 DEF same_process
  <2>2. /\ traces' = [traces EXCEPT !.misfired = traces.misfired \/ worker.who = "other",
                                    !.unsound = traces.unsound \/ ~hand[h].ask.sound]
        /\ Turn(h, "grace") /\ traces = [x \in TraceFields |-> traces[x]]
    BY Zenon, <1>4 DEF fence_worker, Pinned, Typed
  <2>3. /\ traces' = [x \in TraceFields |-> traces'[x]]
        /\ traces'.late = traces.late /\ traces'.touched = traces.touched
        /\ traces'.torn = traces.torn
        /\ traces'.misfired = (traces.misfired \/ worker.who = "other")
        /\ traces'.unsound = (traces.unsound \/ ~hand[h].ask.sound)
    BY Zenon, <2>2 DEF TraceFields
  <2>4. ~traces'.misfired /\ ~traces'.unsound
    BY Zenon, <1>1, <2>1, <2>3 DEF Pinned, Scene
  <2>5. Alone' <=> Alone
    BY Zenon, <2>3 DEF Alone
  <2>6. Scene'
    BY ZenonT(60), <1>1, <2>3, <2>4, <2>5 DEF Pinned, Scene, Stage, Vanished, Receipted, Receipt, Pins, Fresh, Tidy
  <2>7. /\ HandTyped' /\ hand'[h].pc = "grace" /\ hand'[h].ask = hand[h].ask
        /\ \A g \in Hands \ {h} : hand'[g] = hand[g]
    BY Zenon, <1>1, <2>2, TurnEffect DEF Salving, HandFields
  <2>8. Typed'
    BY Zenon, <1>1, <2>3, <2>7 DEF Pinned, Typed, BookTyped, Receipt, OddsTyped
  <2>9. keeper # h /\ hand[h].ask.verb = "salvage"
    BY Zenon, <1>1, NotLocked
  <2>10. Discarder(h)' /\ Salvor(h)'
    BY Zenon, <1>1, <2>7, <2>9 DEF Discarder, Salvor, Locked, After, Salving
  <2> QED
    BY Zenon, <1>1, <2>3, <2>6, <2>7, <2>8, <2>10, Acts
<1> QED
  BY Zenon, <1>2, <1>3, <1>4 DEF same_process

LEMMA AwaitExitStep == ASSUME Pinned, NEW h \in Hands, AwaitExit(h) PROVE Pinned'
<1>1. /\ hand[h].pc = "grace" /\ hand[h].pc \in Salving /\ HandTyped
      /\ UNCHANGED <<yard, repo, worker, book, keeper, traces, odds>>
  BY Zenon DEF AwaitExit, Salving, Pinned, Typed
<1>2. CASE worker.who = "none" /\ Turn(h, "merge")
  <2>1. /\ HandTyped' /\ hand'[h].pc = "merge" /\ hand'[h].ask = hand[h].ask
        /\ \A g \in Hands \ {h} : hand'[g] = hand[g]
    BY Zenon, <1>1, <1>2, TurnEffect DEF Salving, HandFields
  <2> QED
    BY Zenon, <1>1, <1>2, <2>1, SalvageGoes DEF Salving
<1>3. CASE Replies(h, "unfenced")
  BY Zenon, <1>1, <1>3, SalvageAnswers
<1> QED
  BY Zenon, <1>2, <1>3 DEF AwaitExit

LEMMA MergeStartsStep == ASSUME Pinned, NEW h \in Hands, MergeStarts(h) PROVE Pinned'
<1>1. /\ hand[h].pc = "merge" /\ hand[h].pc \in Salving /\ HandTyped
      /\ UNCHANGED <<yard, repo, worker, book, keeper, traces, odds>>
  BY Zenon DEF MergeStarts, Salving, Pinned, Typed
<1>2. CASE Turn(h, "land")
  <2>1. /\ HandTyped' /\ hand'[h].pc = "land" /\ hand'[h].ask = hand[h].ask
        /\ \A g \in Hands \ {h} : hand'[g] = hand[g]
    BY Zenon, <1>1, <1>2, TurnEffect DEF Salving, HandFields
  <2>2. worker.who # "own"
    BY Zenon, <1>1 DEF Pinned, Salvor
  <2> QED
    BY Zenon, <1>1, <2>1, <2>2, SalvageGoes DEF Salving
<1>3. CASE Replies(h, "unmerged")
  BY Zenon, <1>1, <1>3, SalvageAnswers
<1> QED
  BY Zenon, <1>2, <1>3 DEF MergeStarts

(* The status of the run changes only while nobody holds its lock. *)
LEMMA StatusEffect ==
    ASSUME Pinned, NEW st \in {"failed", "cancelled", "done"}, book' = [book EXCEPT !.status = st],
           UNCHANGED <<yard, repo, worker, traces>>
    PROVE  BookTyped' /\ Scene' /\ yard' \in [DNodes -> YardSet]
           /\ traces' = [x \in TraceFields |-> traces'[x]]
<1>1. BookTyped
  BY Zenon DEF Pinned, Typed
<1>2. /\ book' = [x \in BookFields |-> book'[x]] /\ book'.status = st /\ book'.seq = book.seq
      /\ book'.receipt = book.receipt /\ book'.upgrade = book.upgrade
  BY Zenon, <1>1 DEF BookTyped, BookFields
<1>3. BookTyped'
  BY Zenon, <1>1, <1>2 DEF BookTyped, Receipt
<1>4. Scene'
  BY ZenonT(60), <1>2 DEF Pinned, Scene, Alone, Stage, Vanished, Receipted, Receipt, Pins, Fresh, Tidy
<1> QED
  BY Zenon, <1>3, <1>4 DEF Pinned, Typed

LEMMA MergeEndsStep == ASSUME Pinned, NEW h \in Hands, MergeEnds(h) PROVE Pinned'
<1>1. /\ hand[h].pc = "land" /\ hand[h].pc \in Salving /\ keeper = Nobody /\ keeper # h
      /\ UNCHANGED <<yard, repo, worker, keeper, traces, odds>>
  BY Zenon, DisposalAssumption DEF MergeEnds, Salving
<1>2. CASE UNCHANGED book /\ Replies(h, "unmerged")
  BY Zenon, <1>1, <1>2, SalvageAnswers
<1>3. CASE book' = [book EXCEPT !.status = "done"] /\ Replies(h, "merged")
  <2>1. OddsTyped'
    BY Zenon, <1>1 DEF Pinned, Typed, OddsTyped
  <2>2. BookTyped' /\ Scene' /\ yard' \in [DNodes -> YardSet]
        /\ traces' = [x \in TraceFields |-> traces'[x]]
    BY Zenon, <1>1, <1>3, StatusEffect
  <2> QED
    BY Zenon, <1>1, <1>3, <2>1, <2>2, Ends
<1> QED
  BY Zenon, <1>2, <1>3 DEF MergeEnds

(* The steps of everybody else: no call moves. *)
LEMMA Outside ==
    ASSUME Pinned, UNCHANGED <<hand, keeper>>, Typed', Scene',
           worker'.who = "own" => worker.who = "own",
           \/ keeper = Nobody
           \/ UNCHANGED book /\ traces'.late /\ traces'.touched
           \/ UNCHANGED <<yard, repo, book, traces>>
    PROVE  Pinned'
<1>1. ASSUME NEW g \in Hands PROVE Discarder(g)' /\ Salvor(g)'
  <2>1. Discarder(g) /\ Salvor(g) /\ Nobody \notin Hands
    BY Zenon, DisposalAssumption DEF Pinned
  <2>2. Salvor(g)'
    BY Zenon, <2>1 DEF Salvor
  <2>3. CASE keeper = Nobody
    <3>1. hand[g].pc \notin Locked
      BY Zenon, <2>1, <2>3 DEF Discarder
    <3>2. hand[g].pc \notin {"receipt", "upgrade", "verify", "remove", "delete"}
          /\ hand[g].pc \notin After
      BY Zenon, <3>1 DEF Locked, After
    <3> QED
      BY Zenon, <2>1, <2>2, <3>1, <3>2 DEF Discarder, Discards
  <2>4. CASE UNCHANGED book /\ traces'.late /\ traces'.touched
    <3>1. ~Alone'
      BY Zenon, <2>4 DEF Alone
    <3> QED
      BY Zenon, <2>1, <2>2, <2>4, <3>1 DEF Discarder, Discards, Receipted, Receipt
  <2>5. CASE UNCHANGED <<yard, repo, book, traces>>
    BY ZenonT(60), <2>1, <2>2, <2>5
       DEF Discarder, Discards, Receipted, Receipt, Fresh, Tidy, Registered, Alone
  <2> QED
    BY Zenon, <2>3, <2>4, <2>5
<1> QED
  BY Zenon, <1>1 DEF Pinned

(* What the user makes of a checkout is a checkout. *)
LEMMA TouchEffect ==
    ASSUME yard \in [DNodes -> YardSet], NEW n \in DNodes, Touch(n)
    PROVE  yard' \in [DNodes -> YardSet]
<1>1. yard[n] \in YardSet
  BY Zenon
<1>2. yard[n].tip \in 0..3 /\ yard[n].reg \in BOOLEAN
  BY Zenon, <1>1 DEF YardSet
<1>3. Emptied(n) \in YardSet
  BY Zenon, <1>1, Numbers, YardEdits DEF Emptied
<1>4. \A b \in BOOLEAN : [Emptied(n) EXCEPT !.reg = b] \in YardSet
  BY Zenon, <1>3, Numbers, YardEdits
<1>5. \A t \in 0..3 : [yard[n] EXCEPT !.tip = t] \in YardSet
  BY Zenon, <1>1, Numbers, YardEdits
<1>6. yard[n].tip \in 1..2 => [yard[n] EXCEPT !.tip = yard[n].tip + 1] \in YardSet
  <2>1. yard[n].tip \in 1..2 => yard[n].tip + 1 \in 0..3
    BY SMTT(60)
  <2> QED
    BY Zenon, <1>5, <2>1
<1>7. /\ [yard[n] EXCEPT !.dirty = TRUE] \in YardSet
      /\ [yard[n] EXCEPT !.ino = 2, !.mark = "bound", !.reg = TRUE, !.dirty = FALSE,
                         !.subs = FALSE] \in YardSet
      /\ [yard[n] EXCEPT !.ino = 2, !.mark = "foreign", !.dirty = TRUE] \in YardSet
  BY Zenon, <1>1, Numbers, YardEdits
<1>8. \/ UNCHANGED yard
      \/ \E new \in YardSet : yard' = [yard EXCEPT ![n] = new]
  BY Zenon, <1>2, <1>4, <1>6, <1>7 DEF Touch
<1> QED
  BY Zenon, <1>8

LEMMA UserTouchesStep == ASSUME Pinned, UserTouches PROVE Pinned'
<1>1. /\ yard \in [DNodes -> YardSet] /\ worker \in WorkerSet /\ BookTyped /\ HandTyped
      /\ OddsTyped /\ traces = [x \in TraceFields |-> traces[x]] /\ Scene
  BY Zenon DEF Pinned, Typed
<1>2. /\ Stake("touches") /\ traces' = [traces EXCEPT !.touched = TRUE, !.late = TRUE]
      /\ UNCHANGED <<worker, book, keeper, hand>> /\ \E n \in odds.nodes : Touch(n)
  BY Zenon DEF UserTouches
<1>3. yard' \in [DNodes -> YardSet]
  BY Zenon, <1>1, <1>2, TouchEffect DEF OddsTyped
<1>4. OddsTyped'
  BY Zenon, <1>1, <1>2, StakeEffect
<1>5. /\ traces' = [x \in TraceFields |-> traces'[x]] /\ traces'.touched /\ traces'.late
      /\ traces'.misfired = traces.misfired /\ traces'.unsound = traces.unsound
  BY Zenon, <1>1, <1>2 DEF TraceFields
<1>6. Typed'
  BY Zenon, <1>1, <1>2, <1>3, <1>4, <1>5 DEF Typed, BookTyped, HandTyped, Receipt
<1>7. Scene'
  BY Zenon, <1>1, <1>2, <1>5 DEF Scene, Alone
<1> QED
  BY Zenon, <1>2, <1>5, <1>6, <1>7, Outside

LEMMA WorkerStep == ASSUME Pinned, WorkerExits \/ PidReused PROVE Pinned'
<1>1. /\ yard \in [DNodes -> YardSet] /\ worker \in WorkerSet /\ BookTyped /\ HandTyped
      /\ OddsTyped /\ traces = [x \in TraceFields |-> traces[x]] /\ Scene
      /\ UNCHANGED <<yard, repo, book, keeper, hand, traces, odds>>
  BY Zenon DEF Pinned, Typed, WorkerExits, PidReused
<1>2. worker' \in WorkerSet /\ worker'.who # "own"
  <2>1. CASE WorkerExits
    <3>1. PICK t \in BOOLEAN : worker' = [who |-> "none", clear |-> worker.clear, told |-> t]
      BY Zenon, <2>1 DEF WorkerExits
    <3>2. worker' \in WorkerSet
      BY Zenon, <1>1, <3>1 DEF WorkerSet
    <3> QED
      BY Zenon, <3>1, <3>2
  <2>2. CASE PidReused
    <3>1. worker' = [worker EXCEPT !.who = "other"]
      BY Zenon, <2>2 DEF PidReused
    <3>2. worker' \in WorkerSet
      BY Zenon, <1>1, <3>1 DEF WorkerSet
    <3>3. worker'.who = "other"
      BY Zenon, <1>1, <3>1 DEF WorkerSet
    <3> QED
      BY Zenon, <3>2, <3>3
  <2> QED
    BY Zenon, <2>1, <2>2
<1>3. Typed'
  BY Zenon, <1>1, <1>2 DEF Typed, BookTyped, HandTyped, Receipt, OddsTyped
<1>4. Scene'
  BY ZenonT(60), <1>1, <1>2 DEF Scene, Alone, Stage, Vanished, Receipted, Receipt, Pins, Fresh, Tidy
<1> QED
  BY Zenon, <1>1, <1>2, <1>3, <1>4, Outside

LEMMA RunSettledStep == ASSUME Pinned, RunSettled PROVE Pinned'
<1>1. /\ HandTyped /\ OddsTyped /\ worker \in WorkerSet /\ keeper = Nobody
      /\ UNCHANGED <<yard, repo, worker, keeper, hand, traces, odds>>
  BY Zenon DEF Pinned, Typed, RunSettled
<1>2. PICK st \in {"failed", "cancelled"} : book' = [book EXCEPT !.status = st]
  BY Zenon DEF RunSettled
<1>3. BookTyped' /\ Scene' /\ yard' \in [DNodes -> YardSet]
      /\ traces' = [x \in TraceFields |-> traces'[x]]
  BY Zenon, <1>1, <1>2, StatusEffect
<1>4. Typed'
  BY Zenon, <1>1, <1>3 DEF Typed, HandTyped, OddsTyped
<1> QED
  BY Zenon, <1>1, <1>3, <1>4, Outside

(* Nothing of the invariant is about the supervisor. *)
LEMMA QuietStep ==
    ASSUME Pinned, UNCHANGED <<yard, repo, worker, book, keeper, hand, traces, odds>>
    PROVE  Pinned'
<1>1. Typed'
  BY Zenon, SceneSame DEF Pinned, Typed, HandTyped, OddsTyped
<1> QED
  BY Zenon, <1>1, SceneSame, Outside

(* The steps of a discard, which holds the lock. *)
LEMMA Holds ==
    ASSUME Pinned, NEW h \in Hands, hand[h].pc \in Locked
    PROVE  keeper = h /\ Discards(h)
BY Zenon DEF Pinned, Discarder, Locked

LEMMA DiscardAnswers ==
    ASSUME Pinned, NEW h \in Hands, NEW said, Finish(h, said),
           UNCHANGED <<yard, repo, worker, book, traces>>, OddsTyped'
    PROVE  Pinned'
BY Zenon, Answers DEF Finish

LEMMA DiscardGoes ==
    ASSUME Pinned, NEW h \in Hands, hand[h].pc \in Locked, hand'[h].pc \in Locked,
           HandTyped', \A g \in Hands \ {h} : hand'[g] = hand[g],
           yard' \in [DNodes -> YardSet], BookTyped', Scene',
           traces' = [x \in TraceFields |-> traces'[x]],
           UNCHANGED <<worker, keeper, odds>>, Discarder(h)'
    PROVE  Pinned'
<1>1. keeper = h
  BY Zenon, Holds
<1>2. Typed'
  BY Zenon DEF Pinned, Typed, OddsTyped
<1>3. Salvor(h)'
  BY Zenon DEF Salvor, Locked, Salving
<1> QED
  BY Zenon, <1>1, <1>2, <1>3, Acts

(* A discard disturbs the scene of its own node only. *)
LEMMA SceneAt ==
    ASSUME Pinned, NEW n \in DNodes, UNCHANGED <<repo, worker>>,
           \A k \in DNodes \ {n} : yard'[k] = yard[k] /\ book'.receipt[k] = book.receipt[k],
           traces'.touched = traces.touched, traces'.misfired = traces.misfired,
           traces'.unsound = traces.unsound, traces'.late => traces.late,
           traces.torn => traces'.torn, Alone /\ Alone' => Stage(n)'
    PROVE  Scene'
<1>1. Alone' => Alone
  BY Zenon DEF Alone
<1>2. ASSUME Alone', NEW k \in DNodes PROVE Stage(k)'
  <2>1. CASE k = n
    BY Zenon, <1>1, <1>2, <2>1
  <2>2. CASE k # n
    <3>1. Stage(k) /\ yard'[k] = yard[k] /\ book'.receipt[k] = book.receipt[k]
      BY Zenon, <1>1, <1>2, <2>2 DEF Pinned, Scene
    <3> QED
      BY Zenon, <3>1 DEF Stage, Vanished, Receipted, Receipt, Pins, Fresh, Tidy
  <2> QED
    BY Zenon, <2>1, <2>2
<1> QED
  BY Zenon, <1>1, <1>2 DEF Pinned, Scene

LEMMA SelectedNodes == \A wanted : selected(wanted) \subseteq DNodes
BY Zenon DEF selected

(* What a discard knows when it starts to write. *)
LEMMA VerdictGo ==
    ASSUME NEW n, NEW reason, NEW force, verdict(n, reason, force) = "go"
    PROVE  ~Vanished(n) /\ (force_required(n) => force)
BY Zenon DEF verdict

LEMMA InspectStep == ASSUME Pinned, NEW h \in Hands, Inspect(h) PROVE Pinned'
<1>1. /\ hand[h].pc = "inspect" /\ hand[h].pc \in Locked /\ HandTyped
      /\ UNCHANGED <<yard, repo, worker, book, traces, odds>>
  BY Zenon DEF Inspect, Locked, Pinned, Typed
<1>2. OddsTyped'
  BY Zenon, <1>1 DEF Pinned, Typed, OddsTyped
<1> DEFINE n == CHOOSE k \in selected(hand[h].ask.node) : TRUE
           v == verdict(n, hand[h].ask.reason, hand[h].ask.force)
<1>3. ASSUME NEW said, Finish(h, said) PROVE Pinned'
  BY Zenon, <1>1, <1>2, <1>3, DiscardAnswers
<1>4. CASE /\ book.status \in {"failed", "cancelled"} /\ selected(hand[h].ask.node) # {}
           /\ v = "go" /\ UNCHANGED keeper
           /\ hand' = [hand EXCEPT ![h].pc = IF Receipted(n) THEN "upgrade" ELSE "receipt",
                                   ![h].node = n,
                                   ![h].dir = yard[n].ino # 0,
                                   ![h].branch = yard[n].tip # 0,
                                   ![h].orphan = is_orphan(n)]
  <2>1. n \in DNodes
    BY Zenon, <1>4, SelectedNodes
  <2> HIDE DEF n
  <2>2. ~Vanished(n) /\ (force_required(n) => hand[h].ask.force)
    BY SMTT(60), <1>4, VerdictGo
  <2> HIDE DEF v
  <2> DEFINE p == IF Receipted(n) THEN "upgrade" ELSE "receipt"
             di == yard[n].ino # 0
             br == yard[n].tip # 0
             or == is_orphan(n)
  <2>3. /\ hand' = [g \in Hands |-> hand'[g]]
        /\ hand'[h] = [hand[h] EXCEPT !.pc = p, !.node = n, !.dir = di, !.branch = br,
                                      !.orphan = or]
        /\ \A g \in Hands \ {h} : hand'[g] = hand[g]
        /\ hand[h] = [x \in HandFields |-> hand[h][x]]
    BY Zenon, <1>1, <1>4 DEF HandTyped
  <2>4. p \in {"upgrade", "receipt"} /\ p \in Locked /\ (p = "upgrade" <=> Receipted(n))
    BY Zenon DEF Locked
  <2> HIDE DEF p, di, br, or
  <2>5. /\ hand'[h] = [x \in HandFields |-> hand'[h][x]] /\ hand'[h].pc = p
        /\ hand'[h].ask = hand[h].ask /\ hand'[h].node = n /\ hand'[h].dir = di
        /\ hand'[h].branch = br /\ hand'[h].orphan = or
    BY Zenon, <2>3 DEF HandFields
  <2>6. HandTyped'
    <3>1. ASSUME NEW g \in Hands
          PROVE  /\ hand'[g] = [x \in HandFields |-> hand'[g][x]]
                 /\ hand'[g].ask \in AskSet
                 /\ hand'[g].pc \in {"home", "lock"} \cup Locked \cup Salving
      <4>1. CASE g = h
        BY Zenon, <1>1, <2>4, <2>5, <4>1 DEF HandTyped
      <4>2. CASE g # h
        BY ZenonT(60), <1>1, <2>3, <4>2 DEF HandTyped
      <4> QED
        BY Zenon, <4>1, <4>2
    <3> QED
      BY Zenon, <2>3, <3>1 DEF HandTyped
  <2>7. keeper = h /\ Discards(h)
    BY Zenon, <1>1, Holds
  <2>8. ~Receipted(n) => ~or
    BY Zenon DEF or, is_orphan
  <2>9. ASSUME ~Receipted(n), Alone PROVE Fresh(n) /\ di /\ br /\ (hand[h].ask.force \/ Tidy(n))
    <3>1. Fresh(n) /\ repo = "own"
      BY Zenon, <2>1, <2>2, <2>9 DEF Pinned, Scene, Stage, Pins
    <3>2. di /\ br
      BY SMTT(60), <3>1 DEF Fresh, di, br
    <3>3. ~Tidy(n) => force_required(n)
      BY SMTT(60), <3>1 DEF Tidy, force_required, verified_for_discard, Registered, Fresh
    <3> QED
      BY Zenon, <2>2, <3>1, <3>2, <3>3
  <2>10. or => hand[h].ask.force \/ Receipt(n).force
    BY Zenon, <2>2 DEF or, force_required
  <2>11. Discarder(h)'
    BY Zenon, <1>1, <1>4, <2>1, <2>4, <2>5, <2>7, <2>8, <2>9, <2>10
       DEF Discarder, Locked, After, Discards, Receipted, Receipt, Alone, Fresh, Tidy
  <2>12. Scene' /\ yard' \in [DNodes -> YardSet] /\ BookTyped'
         /\ traces' = [x \in TraceFields |-> traces'[x]]
    BY Zenon, <1>1, SceneSame
  <2>13. hand'[h].pc \in Locked
    BY Zenon, <2>4, <2>5
  <2> QED
    BY Zenon, <1>1, <1>4, <2>3, <2>6, <2>11, <2>12, <2>13, DiscardGoes
<1> QED
  BY Zenon, <1>3, <1>4 DEF Inspect

LEMMA ReceiptMade ==
    ASSUME NEW a \in Nat, NEW b \in Reasons \cup {"none"}, NEW c \in BOOLEAN,
           NEW d \in 0..2, NEW e \in 0..3
    PROVE  [seq |-> a, reason |-> b, force |-> c, ino |-> d, oid |-> e] \in ReceiptSet
BY Zenon DEF ReceiptSet

LEMMA AskTypes ==
    ASSUME NEW a \in AskSet
    PROVE  a.reason \in Reasons \cup {"none"} /\ a.force \in BOOLEAN /\ a.sound \in BOOLEAN
BY Zenon DEF AskSet

LEMMA YardTypes ==
    ASSUME NEW y \in YardSet
    PROVE  y.ino \in 0..2 /\ y.tip \in 0..3 /\ y.reg \in BOOLEAN /\ y.dirty \in BOOLEAN
BY Zenon DEF YardSet

LEMMA WriteReceiptStep == ASSUME Pinned, NEW h \in Hands, WriteReceipt(h) PROVE Pinned'
<1>0. PICK n \in DNodes : n = hand[h].node
  BY Zenon DEF WriteReceipt, Pinned, Discarder, Locked
<1> DEFINE r == [seq |-> book.seq + 1, reason |-> hand[h].ask.reason,
                 force |-> hand[h].ask.force,
                 ino |-> IF hand[h].dir THEN yard[n].ino ELSE 0,
                 oid |-> IF hand[h].branch THEN yard[n].tip ELSE 0]
<1>1. /\ hand[h].pc = "receipt" /\ hand[h].pc \in Locked /\ HandTyped /\ BookTyped
      /\ yard \in [DNodes -> YardSet] /\ traces = [x \in TraceFields |-> traces[x]]
      /\ UNCHANGED <<yard, repo, worker, traces, odds>>
  BY Zenon DEF WriteReceipt, Locked, Pinned, Typed
<1>2. OddsTyped'
  BY Zenon, <1>1 DEF Pinned, Typed, OddsTyped
<1>3. CASE Finish(h, "refused") /\ UNCHANGED book
  BY Zenon, <1>1, <1>2, <1>3, DiscardAnswers
<1>4. CASE /\ book' = [book EXCEPT !.receipt[n] = r, !.seq = book.seq + 1]
           /\ Turn(h, "upgrade") /\ UNCHANGED keeper
  <2>1. Discarder(h)
    BY Zenon DEF Pinned
  <2>2. r \in ReceiptSet
    <3>1. hand[h].ask \in AskSet /\ yard[n] \in YardSet
      BY Zenon, <1>1, <2>1 DEF HandTyped
    <3>2. hand[h].ask.reason \in Reasons \cup {"none"} /\ hand[h].ask.force \in BOOLEAN
      BY Zenon, <3>1, AskTypes
    <3>3. yard[n].ino \in 0..2 /\ yard[n].tip \in 0..3
      BY Zenon, <3>1, YardTypes
    <3>4. book.seq + 1 \in Nat
      BY SMTT(60), <1>1 DEF BookTyped
    <3>5. (IF hand[h].dir THEN yard[n].ino ELSE 0) \in 0..2
          /\ (IF hand[h].branch THEN yard[n].tip ELSE 0) \in 0..3
      BY SMTT(60), <3>3
    <3> QED
      BY ZenonT(60), <3>2, <3>4, <3>5, ReceiptMade
  <2>3. /\ r.seq = book.seq + 1 /\ r.force = hand[h].ask.force
        /\ hand[h].dir => r.ino = yard[n].ino
        /\ hand[h].branch => r.oid = yard[n].tip
    BY Zenon
  <2> HIDE DEF r
  <2>4. /\ book' = [x \in BookFields |-> book'[x]] /\ book'.status = book.status
        /\ book'.seq = book.seq + 1 /\ book'.receipt = [book.receipt EXCEPT ![n] = r]
        /\ book'.upgrade = book.upgrade
    BY Zenon, <1>1, <1>4 DEF BookTyped, BookFields
  <2>5. /\ book'.receipt[n] = r /\ book'.receipt \in [DNodes -> ReceiptSet]
        /\ \A k \in DNodes \ {n} : book'.receipt[k] = book.receipt[k]
    BY Zenon, <1>1, <2>1, <2>2, <2>4 DEF BookTyped
  <2>6. BookTyped'
    <3>1. book.seq \in Nat
      BY Zenon, <1>1 DEF BookTyped
    <3>2. ASSUME NEW k \in DNodes PROVE book'.receipt[k].seq <= book'.seq
      <4>1. CASE k = n
        BY SMTT(60), <2>3, <2>4, <2>5, <3>1, <4>1
      <4>2. CASE k # n
        <5>1. book.receipt[k].seq <= book.seq /\ book.receipt[k] \in ReceiptSet
          BY Zenon, <1>1 DEF BookTyped, Receipt
        <5>2. book.receipt[k].seq \in Nat
          BY Zenon, <5>1 DEF ReceiptSet
        <5> QED
          BY SMTT(60), <2>4, <2>5, <3>1, <4>2, <5>1, <5>2
      <4> QED
        BY Zenon, <4>1, <4>2
    <3> QED
      BY SMTT(60), <1>1, <2>4, <2>5, <3>1, <3>2 DEF BookTyped, Receipt
  <2>7. Receipted(n)' /\ Receipt(n)' = r
    BY SMTT(60), <1>1, <2>3, <2>5 DEF BookTyped, Receipted, Receipt
  <2>8. /\ HandTyped' /\ hand'[h].pc = "upgrade" /\ hand'[h].ask = hand[h].ask
        /\ hand'[h].node = n /\ hand'[h].orphan = hand[h].orphan
        /\ \A g \in Hands \ {h} : hand'[g] = hand[g]
    BY Zenon, <1>0, <1>1, <1>4, TurnEffect DEF Locked, HandFields
  <2>9. ASSUME Alone PROVE Stage(n)'
    <3>1. Fresh(n) /\ hand[h].dir /\ hand[h].branch /\ (hand[h].ask.force \/ Tidy(n))
      BY Zenon, <1>0, <1>1, <2>1, <2>9 DEF Discarder
    <3>2. r.ino = 1 /\ r.oid = 1 /\ (r.force \/ Tidy(n))
      BY Zenon, <2>3, <3>1 DEF Fresh
    <3>3. Pins(n)' /\ Fresh(n)' /\ (Receipt(n)'.force \/ Tidy(n)')
      BY Zenon, <1>1, <2>7, <3>1, <3>2 DEF Pins, Fresh, Tidy
    <3> QED
      BY Zenon, <3>3 DEF Stage
  <2>10. Scene'
    BY Zenon, <1>1, <2>5, <2>9, SceneAt
  <2>11. keeper = h /\ Discards(h)
    BY Zenon, <1>1, Holds
  <2>12. Discarder(h)'
    BY Zenon, <1>0, <1>1, <1>4, <2>1, <2>4, <2>7, <2>8, <2>11 DEF Discarder, Locked, After, Discards
  <2> QED
    BY Zenon, <1>1, <1>4, <2>6, <2>8, <2>10, <2>12, DiscardGoes DEF Locked
<1> QED
  BY Zenon, <1>0, <1>3, <1>4 DEF WriteReceipt

(* The discard writes and deletes: its node is fixed by now. *)
LEMMA OwnNode ==
    ASSUME Pinned, NEW h \in Hands, hand[h].pc \in After
    PROVE  \E n \in DNodes : n = hand[h].node /\ Receipted(n)
BY Zenon DEF Pinned, Discarder, Locked, After

LEMMA TurnsTo ==
    ASSUME Pinned, NEW h \in Hands, hand[h].pc \in Locked, NEW p \in Locked, Turn(h, p)
    PROVE  /\ HandTyped' /\ hand'[h].pc = p /\ hand'[h].ask = hand[h].ask
           /\ hand'[h].node = hand[h].node /\ hand'[h].orphan = hand[h].orphan
           /\ Discards(h)' /\ \A g \in Hands \ {h} : hand'[g] = hand[g]
<1>1. HandTyped /\ Discards(h)
  BY Zenon, Holds DEF Pinned, Typed
<1> QED
  BY Zenon, <1>1, TurnEffect DEF HandFields, Discards

LEMMA WriteUpgradeStep == ASSUME Pinned, NEW h \in Hands, WriteUpgrade(h) PROVE Pinned'
<1>1. /\ hand[h].pc = "upgrade" /\ hand[h].pc \in Locked /\ hand[h].pc \in After /\ BookTyped
      /\ yard \in [DNodes -> YardSet] /\ traces = [x \in TraceFields |-> traces[x]]
      /\ UNCHANGED <<yard, repo, worker, traces, odds, keeper>>
  BY Zenon DEF WriteUpgrade, Locked, After, Pinned, Typed
<1>2. PICK n \in DNodes : n = hand[h].node /\ Receipted(n)
  BY Zenon, <1>1, OwnNode
<1>3. /\ book' = [x \in BookFields |-> book'[x]] /\ book'.status = book.status
      /\ book'.seq = book.seq /\ book'.receipt = book.receipt
      /\ book'.upgrade = [k \in DNodes |-> book'.upgrade[k]]
      /\ hand[h].ask.force => Receipt(n).force \/ book'.upgrade[n]
  <2>1. CASE hand[h].ask.force /\ ~Receipt(n).force
    <3>1. book' = [book EXCEPT !.upgrade[n] = TRUE]
      BY Zenon, <1>2, <2>1 DEF WriteUpgrade
    <3>2. /\ book' = [x \in BookFields |-> book'[x]] /\ book'.status = book.status
          /\ book'.seq = book.seq /\ book'.receipt = book.receipt
          /\ book'.upgrade = [book.upgrade EXCEPT ![n] = TRUE]
      BY Zenon, <1>1, <3>1 DEF BookTyped, BookFields
    <3> QED
      BY Zenon, <1>1, <3>2 DEF BookTyped
  <2>2. CASE ~(hand[h].ask.force /\ ~Receipt(n).force)
    <3>1. book' = book
      BY Zenon, <1>2, <2>2 DEF WriteUpgrade
    <3> QED
      BY Zenon, <1>1, <2>2, <3>1 DEF BookTyped
  <2> QED
    BY Zenon, <2>1, <2>2
<1>4. BookTyped' /\ \A k \in DNodes : Receipt(k)' = Receipt(k)
  BY Zenon, <1>1, <1>3 DEF BookTyped, Receipt
<1>5. Scene'
  BY ZenonT(60), <1>1, <1>4 DEF Pinned, Scene, Alone, Stage, Vanished, Receipted, Pins, Fresh, Tidy
<1>6. PICK p \in {"verify", "check"} : Turn(h, p)
  BY Zenon DEF WriteUpgrade
<1>7. p \in Locked
  BY Zenon, <1>6 DEF Locked
<1>8. /\ HandTyped' /\ hand'[h].pc = p /\ hand'[h].ask = hand[h].ask
      /\ hand'[h].node = n /\ hand'[h].orphan = hand[h].orphan
      /\ Discards(h)' /\ \A g \in Hands \ {h} : hand'[g] = hand[g]
  BY Zenon, <1>1, <1>2, <1>6, <1>7, TurnsTo
<1>9. /\ keeper = h /\ book.status \in {"failed", "cancelled"}
      /\ hand[h].orphan => hand[h].ask.force \/ Receipt(n).force
  BY Zenon, <1>1, <1>2, Holds DEF Pinned, Discarder, Locked
<1>10. Receipted(n)'
  BY Zenon, <1>2, <1>4 DEF Receipted
<1>11. Discarder(h)'
  BY Zenon, <1>1, <1>2, <1>3, <1>4, <1>6, <1>8, <1>9, <1>10 DEF Discarder, Locked, After
<1> QED
  BY Zenon, <1>1, <1>4, <1>5, <1>7, <1>8, <1>11, DiscardGoes

(* The clock of the user's touches is set back by a look. *)
LEMMA Looks ==
    ASSUME Pinned, NEW h \in Hands, hand[h].pc \in After, NEW p \in {"remove", "delete"},
           hand[h].pc = "verify" <=> p = "remove", hand[h].pc \in {"verify", "check"},
           Turn(h, p), traces' = [traces EXCEPT !.late = FALSE],
           UNCHANGED <<yard, repo, worker, book, odds, keeper>>,
           p = "remove" => Receipt(hand[h].node).ino \in {0, yard[hand[h].node].ino},
           p = "delete" => yard[hand[h].node].ino = 0 /\ ~Registered(hand[h].node)
    PROVE  Pinned'
<1>1. /\ hand[h].pc \in Locked /\ p \in Locked /\ BookTyped /\ yard \in [DNodes -> YardSet]
      /\ traces = [x \in TraceFields |-> traces[x]] /\ Scene
  BY Zenon DEF Locked, After, Pinned, Typed
<1>2. PICK n \in DNodes : n = hand[h].node /\ Receipted(n)
  BY Zenon, OwnNode
<1>3. /\ traces' = [x \in TraceFields |-> traces'[x]] /\ ~traces'.late
      /\ traces'.touched = traces.touched /\ traces'.torn = traces.torn
      /\ traces'.misfired = traces.misfired /\ traces'.unsound = traces.unsound
  BY Zenon, <1>1 DEF TraceFields
<1>4. /\ HandTyped' /\ hand'[h].pc = p /\ hand'[h].ask = hand[h].ask
      /\ hand'[h].node = n /\ hand'[h].orphan = hand[h].orphan
      /\ Discards(h)' /\ \A g \in Hands \ {h} : hand'[g] = hand[g]
  BY Zenon, <1>1, <1>2, TurnsTo
<1>5. BookTyped' /\ Receipt(n)' = Receipt(n) /\ (Receipted(n)' <=> Receipted(n))
  BY Zenon, <1>1 DEF BookTyped, Receipt, Receipted
<1>6. Scene'
  BY ZenonT(60), <1>1, <1>3 DEF Scene, Alone, Stage, Vanished, Receipted, Receipt, Pins, Fresh, Tidy
<1>7. /\ keeper = h /\ book.status \in {"failed", "cancelled"}
      /\ p = "remove" /\ hand[h].orphan => hand[h].ask.force \/ Receipt(n).force
      /\ hand[h].ask.force => Receipt(n).force \/ book.upgrade[n]
  BY Zenon, <1>1, <1>2, Holds DEF Pinned, Discarder, Locked, After
<1>8. Discarder(h)'
  BY Zenon, <1>1, <1>2, <1>4, <1>5, <1>7 DEF Discarder, Locked, After, Registered
<1> QED
  BY Zenon, <1>1, <1>3, <1>4, <1>5, <1>6, <1>8, DiscardGoes

LEMMA VerifyTargetStep == ASSUME Pinned, NEW h \in Hands, VerifyTarget(h) PROVE Pinned'
<1>1. /\ hand[h].pc = "verify" /\ hand[h].pc \in After /\ OddsTyped
      /\ UNCHANGED <<yard, repo, worker, book, odds>>
  BY Zenon DEF VerifyTarget, After, Pinned, Typed
<1>2. CASE /\ IF hand[h].orphan THEN verify_orphan(hand[h].node)
              ELSE Receipt(hand[h].node).ino # 0 => verify_registered(hand[h].node)
           /\ Turn(h, "remove") /\ traces' = [traces EXCEPT !.late = FALSE] /\ UNCHANGED keeper
  <2>1. Receipt(hand[h].node).ino \in {0, yard[hand[h].node].ino}
    BY Zenon, <1>2 DEF verify_orphan, verify_registered
  <2> QED
    BY Zenon, <1>1, <1>2, <2>1, Looks
<1>3. ASSUME NEW said, Finish(h, said), UNCHANGED traces PROVE Pinned'
  BY Zenon, <1>1, <1>3, DiscardAnswers DEF OddsTyped
<1> QED
  BY Zenon, <1>2, <1>3 DEF VerifyTarget

LEMMA CheckBranchStep == ASSUME Pinned, NEW h \in Hands, CheckBranch(h) PROVE Pinned'
<1>1. /\ hand[h].pc = "check" /\ hand[h].pc \in After /\ OddsTyped
      /\ UNCHANGED <<yard, repo, worker, book, odds>>
  BY Zenon DEF CheckBranch, After, Pinned, Typed
<1>2. CASE /\ branch_is_free(hand[h].node)
           /\ Turn(h, "delete") /\ traces' = [traces EXCEPT !.late = FALSE] /\ UNCHANGED keeper
  <2>1. yard[hand[h].node].ino = 0 /\ ~Registered(hand[h].node)
    BY Zenon, <1>2 DEF branch_is_free
  <2> QED
    BY Zenon, <1>1, <1>2, <2>1, Looks
<1>3. ASSUME NEW said, Finish(h, said), UNCHANGED traces PROVE Pinned'
  BY Zenon, <1>1, <1>3, DiscardAnswers DEF OddsTyped
<1> QED
  BY Zenon, <1>2, <1>3 DEF CheckBranch

(* A directory or a branch goes. *)
LEMMA YardEffect ==
    ASSUME Pinned, NEW n \in DNodes, NEW y \in YardSet, yard' = [yard EXCEPT ![n] = y]
    PROVE  /\ yard' \in [DNodes -> YardSet] /\ yard'[n] = y
           /\ \A k \in DNodes \ {n} : yard'[k] = yard[k]
BY Zenon DEF Pinned, Typed

LEMMA Shapes ==
    ASSUME NEW y \in YardSet
    PROVE  /\ [y EXCEPT !.ino = 0, !.reg = FALSE, !.dirty = FALSE, !.subs = FALSE].ino = 0
           /\ ~[y EXCEPT !.ino = 0, !.reg = FALSE, !.dirty = FALSE, !.subs = FALSE].reg
           /\ [y EXCEPT !.ino = 0, !.reg = FALSE, !.dirty = FALSE, !.subs = FALSE].tip = y.tip
           /\ [y EXCEPT !.reg = FALSE, !.mark = "stale"].ino = y.ino
           /\ ~[y EXCEPT !.reg = FALSE, !.mark = "stale"].reg
           /\ [y EXCEPT !.reg = FALSE, !.mark = "stale"].tip = y.tip
           /\ [y EXCEPT !.reg = FALSE, !.mark = "stale"].mark = "stale"
           /\ [y EXCEPT !.mark = "stale"].ino = y.ino
           /\ [y EXCEPT !.mark = "stale"].tip = y.tip
           /\ [y EXCEPT !.tip = 0].tip = 0
           /\ [y EXCEPT !.tip = 0].ino = y.ino
BY Zenon DEF YardSet

LEMMA RemoveDirectoryStep == ASSUME Pinned, NEW h \in Hands, RemoveDirectory(h) PROVE Pinned'
<1>1. /\ hand[h].pc = "remove" /\ hand[h].pc \in After /\ hand[h].pc \in Locked /\ OddsTyped
      /\ yard \in [DNodes -> YardSet] /\ BookTyped /\ traces = [x \in TraceFields |-> traces[x]]
      /\ UNCHANGED <<repo, worker, book, traces>> /\ Scene
  BY Zenon DEF RemoveDirectory, After, Locked, Pinned, Typed
<1>2. PICK n \in DNodes : n = hand[h].node /\ Receipted(n)
  BY Zenon, <1>1, OwnNode
<1> DEFINE able == IF hand[h].orphan THEN yard[n].ino # 0 ELSE git_removes(n, hand[h].ask.force)
<1>3. able => yard[n].ino # 0
  BY Zenon DEF git_removes
<1>4. able /\ ~hand[h].orphan => yard[n].reg
  BY Zenon DEF git_removes, Registered
<1>5. yard[n] \in YardSet /\ BookTyped' /\ (Receipted(n)' <=> Receipted(n)) /\ keeper = h
      /\ (Pins(n)' <=> Pins(n))
  BY Zenon, <1>1, Holds DEF BookTyped, Receipt, Receipted, Pins
<1>6. ASSUME Alone, able
      PROVE  /\ Pins(n) /\ yard[n].tip = 1 /\ yard[n].ino = 1
  BY Zenon, <1>1, <1>2, <1>3, <1>6 DEF Scene, Stage, Vanished, Fresh, Pins
<1>7. CASE /\ able /\ yard' = [yard EXCEPT ![n] = Emptied(n)] /\ Turn(h, "check")
           /\ UNCHANGED <<keeper, odds>>
  <2>1. Emptied(n) \in YardSet
    BY Zenon, <1>5, Numbers, YardEdits DEF Emptied
  <2>2. Emptied(n).ino = 0 /\ ~Emptied(n).reg /\ Emptied(n).tip = yard[n].tip
    BY Zenon, <1>5, Shapes DEF Emptied
  <2>3. /\ yard' \in [DNodes -> YardSet] /\ yard'[n] = Emptied(n)
        /\ \A k \in DNodes \ {n} : yard'[k] = yard[k]
    BY Zenon, <1>7, <2>1, YardEffect
  <2>4. ASSUME Alone PROVE Stage(n)'
    <3>1. yard'[n].ino = 0 /\ yard'[n].tip = 1 /\ ~yard'[n].reg /\ Pins(n)'
      BY Zenon, <1>5, <1>6, <1>7, <2>2, <2>3, <2>4
    <3> QED
      BY Zenon, <3>1 DEF Stage
  <2>5. Scene'
    BY Zenon, <1>1, <2>3, <2>4, SceneAt
  <2>6. "check" \in Locked
    BY Zenon DEF Locked
  <2>7. /\ HandTyped' /\ hand'[h].pc = "check" /\ hand'[h].ask = hand[h].ask
        /\ hand'[h].node = n /\ hand'[h].orphan = hand[h].orphan
        /\ Discards(h)' /\ \A g \in Hands \ {h} : hand'[g] = hand[g]
    BY Zenon, <1>1, <1>2, <1>7, <2>6, TurnsTo
  <2>8. /\ book.status \in {"failed", "cancelled"}
        /\ hand[h].ask.force => Receipt(n).force \/ book.upgrade[n]
    BY Zenon, <1>1, <1>2 DEF Pinned, Discarder, Locked, After
  <2>9. Discarder(h)'
    BY Zenon, <1>1, <1>2, <1>5, <1>7, <2>7, <2>8 DEF Discarder, Locked, After, Receipt
  <2> QED
    BY Zenon, <1>1, <1>5, <1>7, <2>3, <2>5, <2>6, <2>7, <2>9, DiscardGoes
<1>8. CASE Finish(h, "partial") /\ UNCHANGED <<yard, odds>>
  BY Zenon, <1>1, <1>8, DiscardAnswers DEF OddsTyped
<1>9. CASE /\ able /\ Stake("faults") /\ Finish(h, "partial")
           /\ yard' = IF hand[h].orphan THEN yard
                      ELSE [yard EXCEPT ![n].reg = FALSE, ![n].mark = "stale"]
  <2>1. OddsTyped'
    BY Zenon, <1>1, <1>9, StakeEffect
  <2>2. CASE hand[h].orphan
    BY Zenon, <1>1, <1>9, <2>1, <2>2, DiscardAnswers
  <2>3. CASE ~hand[h].orphan
    <3> DEFINE y == [yard[n] EXCEPT !.reg = FALSE, !.mark = "stale"]
    <3>1. y \in YardSet
      BY Zenon, <1>5, Numbers, YardEdits
    <3>2. y.ino = yard[n].ino /\ ~y.reg /\ y.tip = yard[n].tip /\ y.mark = "stale"
      BY Zenon, <1>5, Shapes
    <3>3. yard' = [yard EXCEPT ![n] = y]
      BY Zenon, <1>1, <1>9, <2>3
    <3> HIDE DEF y
    <3>4. /\ yard' \in [DNodes -> YardSet] /\ yard'[n] = y
          /\ \A k \in DNodes \ {n} : yard'[k] = yard[k]
      BY Zenon, <3>1, <3>3, YardEffect
    <3>5. ASSUME Alone PROVE Stage(n)'
      <4>1. yard'[n].ino = 1 /\ yard'[n].tip = 1 /\ ~yard'[n].reg /\ yard'[n].mark = "stale" /\ Pins(n)'
        BY Zenon, <1>5, <1>6, <1>9, <3>2, <3>4, <3>5
      <4> QED
        BY Zenon, <4>1 DEF Stage
    <3>6. Scene'
      BY Zenon, <1>1, <3>4, <3>5, SceneAt
    <3> QED
      BY Zenon, <1>1, <1>5, <1>9, <2>1, <3>4, <3>6, Ends DEF Finish
  <2> QED
    BY Zenon, <2>2, <2>3
<1> QED
  BY Zenon, <1>2, <1>7, <1>8, <1>9 DEF RemoveDirectory

LEMMA DeleteBranchStep == ASSUME Pinned, NEW h \in Hands, DeleteBranch(h) PROVE Pinned'
<1>1. /\ hand[h].pc = "delete" /\ hand[h].pc \in After /\ hand[h].pc \in Locked /\ OddsTyped
      /\ yard \in [DNodes -> YardSet] /\ BookTyped /\ traces = [x \in TraceFields |-> traces[x]]
      /\ UNCHANGED <<repo, worker, book, traces, odds>> /\ Scene
  BY Zenon DEF DeleteBranch, After, Locked, Pinned, Typed
<1>2. PICK n \in DNodes : n = hand[h].node /\ Receipted(n)
  BY Zenon, <1>1, OwnNode
<1>3. OddsTyped' /\ BookTyped' /\ yard[n] \in YardSet /\ keeper = h /\ (Pins(n)' <=> Pins(n))
  BY Zenon, <1>1, Holds DEF BookTyped, Receipt, Receipted, Pins, OddsTyped
<1>4. CASE yard' = [yard EXCEPT ![n].tip = 0] /\ yard[n].tip # 0 /\ Finish(h, "discarded")
  <2> DEFINE y == [yard[n] EXCEPT !.tip = 0]
  <2>1. y \in YardSet
    BY Zenon, <1>3, Numbers, YardEdits
  <2>2. y.ino = yard[n].ino /\ y.tip = 0
    BY Zenon, <1>3, Shapes
  <2>3. yard' = [yard EXCEPT ![n] = y]
    BY Zenon, <1>1, <1>4
  <2> HIDE DEF y
  <2>4. /\ yard' \in [DNodes -> YardSet] /\ yard'[n] = y
        /\ \A k \in DNodes \ {n} : yard'[k] = yard[k]
    BY Zenon, <2>1, <2>3, YardEffect
  <2>5. ASSUME Alone PROVE Stage(n)'
    <3>1. ~traces.late
      BY Zenon, <1>1, <2>5 DEF Scene, Alone
    <3>2. yard[n].ino = 0
      BY Zenon, <1>1, <1>2, <3>1 DEF Pinned, Discarder
    <3>3. Pins(n)
      BY Zenon, <1>1, <1>2, <1>4, <2>5 DEF Scene, Stage, Vanished, Pins
    <3> QED
      BY Zenon, <1>3, <2>2, <2>4, <3>2, <3>3 DEF Stage, Vanished
  <2>6. Scene'
    BY Zenon, <1>1, <2>4, <2>5, SceneAt
  <2> QED
    BY Zenon, <1>1, <1>3, <1>4, <2>4, <2>6, Ends DEF Finish
<1>5. CASE UNCHANGED yard /\ Finish(h, "partial")
  BY Zenon, <1>1, <1>3, <1>5, DiscardAnswers
<1> QED
  BY Zenon, <1>2, <1>4, <1>5 DEF DeleteBranch, branch_delete_oid

LEMMA CallKilledStep == ASSUME Pinned, NEW h \in Hands, CallKilled(h) PROVE Pinned'
<1>1. /\ yard \in [DNodes -> YardSet] /\ BookTyped /\ traces = [x \in TraceFields |-> traces[x]]
      /\ OddsTyped /\ UNCHANGED <<repo, worker, book>> /\ Finish(h, "killed") /\ Stake("kills")
  BY Zenon DEF CallKilled, Pinned, Typed
<1>2. OddsTyped' /\ BookTyped'
  BY Zenon, <1>1, StakeEffect DEF BookTyped, Receipt
<1>3. CASE UNCHANGED <<yard, traces>>
  BY Zenon, <1>1, <1>2, <1>3, DiscardAnswers
<1>4. CASE /\ hand[h].pc = "remove" /\ yard' = [yard EXCEPT ![hand[h].node].mark = "stale"]
           /\ traces' = [traces EXCEPT !.torn = TRUE]
  <2>1. hand[h].pc \in After /\ hand[h].pc \in Locked
    BY Zenon, <1>4 DEF After, Locked
  <2>2. PICK n \in DNodes : n = hand[h].node /\ Receipted(n)
    BY Zenon, <2>1, OwnNode
  <2> DEFINE y == [yard[n] EXCEPT !.mark = "stale"]
  <2>3. y \in YardSet
    BY Zenon, <1>1, Numbers, YardEdits
  <2>4. yard' = [yard EXCEPT ![n] = y]
    BY Zenon, <1>1, <1>4, <2>2
  <2> HIDE DEF y
  <2>5. yard' \in [DNodes -> YardSet] /\ \A k \in DNodes \ {n} : yard'[k] = yard[k]
    BY Zenon, <2>3, <2>4, YardEffect
  <2>6. /\ traces' = [x \in TraceFields |-> traces'[x]] /\ traces'.torn
        /\ traces'.touched = traces.touched /\ traces'.late = traces.late
        /\ traces'.misfired = traces.misfired /\ traces'.unsound = traces.unsound
    BY Zenon, <1>1, <1>4 DEF TraceFields
  <2>7. Scene'
    BY Zenon, <1>1, <2>5, <2>6, SceneAt DEF Alone
  <2> QED
    BY Zenon, <1>1, <1>2, <2>1, <2>5, <2>6, <2>7, Holds, Ends DEF Finish
<1> QED
  BY Zenon, <1>3, <1>4 DEF CallKilled

LEMMA PinnedStep == Pinned /\ [DisposalNext]_disposal_vars => Pinned'
<1> SUFFICES ASSUME Pinned, [DisposalNext]_disposal_vars PROVE Pinned'
  BY Zenon
<1>1. ASSUME NEW h \in Hands, NEW ask \in Chores, Call(h, ask) PROVE Pinned'
  BY Zenon, <1>1, CallStep
<1>2. ASSUME NEW h \in Hands, HandSteps(h) PROVE Pinned'
  BY Zenon, <1>2, TakeLockStep, InspectStep, WriteReceiptStep, WriteUpgradeStep, VerifyTargetStep,
     RemoveDirectoryStep, CheckBranchStep, DeleteBranchStep, SnapshotStep, PreviewStep,
     FenceStep, AwaitExitStep, MergeStartsStep, MergeEndsStep DEF HandSteps
<1>3. ASSUME NEW h \in Hands, CallKilled(h) PROVE Pinned'
  BY Zenon, <1>3, CallKilledStep
<1>4. CASE SupervisorLeaves \/ AllHome \/ UNCHANGED disposal_vars
  BY Zenon, <1>4, QuietStep DEF SupervisorLeaves, AllHome, disposal_vars
<1> QED
  BY Zenon, <1>1, <1>2, <1>3, <1>4, UserTouchesStep, WorkerStep, RunSettledStep DEF DisposalNext

(* What the invariant gives: the types that TLC checks, and a way on for   *)
(* every discard that was cut short.                                       *)
LEMMA ReceiptBound ==
    ASSUME NEW r \in ReceiptSet, NEW m \in Nat, r.seq <= m
    PROVE  r \in [seq : 0..m, reason : Reasons \cup {"none"}, force : BOOLEAN,
                  ino : 0..2, oid : 0..3]
<1>1. r.seq \in Nat
  BY Zenon DEF ReceiptSet
<1>2. r.seq \in 0..m
  BY SMTT(60), <1>1
<1> QED
  BY Zenon, <1>2 DEF ReceiptSet

LEMMA PinnedTypes == ASSUME Pinned PROVE DisposalTypeOK
<1>1. /\ yard \in [DNodes -> YardSet] /\ worker \in WorkerSet /\ BookTyped /\ HandTyped
  BY Zenon DEF Pinned, Typed
<1>2. book.receipt \in [DNodes -> [seq : 0..book.seq, reason : Reasons \cup {"none"},
                                   force : BOOLEAN, ino : 0..2, oid : 0..3]]
  <2> DEFINE R == [seq : 0..book.seq, reason : Reasons \cup {"none"},
                   force : BOOLEAN, ino : 0..2, oid : 0..3]
  <2>1. ASSUME NEW n \in DNodes PROVE book.receipt[n] \in R
    <3>1. book.receipt[n] \in ReceiptSet /\ book.seq \in Nat /\ book.receipt[n].seq <= book.seq
      BY Zenon, <1>1 DEF BookTyped, Receipt
    <3> QED
      BY Zenon, <3>1, ReceiptBound
  <2> HIDE DEF R
  <2>2. book.receipt \in [DNodes -> R]
    BY Zenon, <1>1, <2>1 DEF BookTyped
  <2> QED
    BY Zenon, <2>2 DEF R
<1>3. ASSUME NEW h \in Hands
      PROVE  (keeper = h) <=> Discards(h) /\ hand[h].pc \notin {"home", "lock"}
  <2>1. Discarder(h) /\ Salvor(h) /\ hand[h].pc \in {"home", "lock"} \cup Locked \cup Salving
    BY Zenon, <1>1 DEF Pinned, HandTyped
  <2> QED
    BY Zenon, <2>1 DEF Discarder, Salvor, Locked, Salving, Discards
<1>4. yard \in [DNodes -> [ino : 0..2, mark : {"bound", "stale", "foreign"}, reg : BOOLEAN,
                            tip : 0..3, dirty : BOOLEAN, subs : BOOLEAN]]
      /\ worker \in [who : {"own", "none", "other"}, clear : BOOLEAN, told : BOOLEAN]
  BY Zenon, <1>1 DEF YardSet, WorkerSet
<1>5. book.status \in {"running", "failed", "cancelled", "done"}
  BY Zenon, <1>1 DEF BookTyped
<1> QED
  BY Zenon, <1>2, <1>3, <1>4, <1>5 DEF DisposalTypeOK

(* The refusals of a discard, one by one. *)
LEMMA VerdictWays ==
    ASSUME NEW n, NEW reason, NEW force,
           ~conflicts(n, reason, force), is_orphan(n) => verify_orphan(n), ~Vanished(n),
           is_orphan(n) \/ verified_for_discard(n),
           is_orphan(n) \/ Receipt(n).ino = 0
             \/ (IF yard[n].ino # 0 THEN verify_registered(n) ELSE verify_source_identity(n)),
           force_required(n) => force
    PROVE  verdict(n, reason, force) \in {"go", "supervisor", "worker"}
BY Zenon DEF verdict

LEMMA PinnedFinishes == ASSUME Pinned PROVE CutShortCanBeFinished
<1> SUFFICES ASSUME NEW n \in DNodes, Receipted(n), ~Vanished(n), Alone
             PROVE  \E f \in BOOLEAN : verdict(n, Receipt(n).reason, f) \in {"go", "supervisor", "worker"}
  BY Zenon DEF CutShortCanBeFinished, Alone
<1>1. repo = "own" /\ Stage(n)
  BY Zenon DEF Pinned, Scene
<1>2. Receipt(n).force \in BOOLEAN
  <2>1. Receipt(n) \in ReceiptSet
    BY Zenon DEF Pinned, Typed, BookTyped, Receipt
  <2> QED
    BY Zenon, <2>1 DEF ReceiptSet
<1>3. ~conflicts(n, Receipt(n).reason, Receipt(n).force)
  BY Zenon DEF conflicts
<1>4. CASE Fresh(n) /\ Pins(n) /\ (Receipt(n).force \/ Tidy(n))
  <2>1. ~is_orphan(n) /\ verified_for_discard(n) /\ verify_registered(n)
    BY SMTT(60), <1>1, <1>4 DEF is_orphan, verified_for_discard, verify_registered, Registered, Fresh, Pins
  <2>2. force_required(n) => Receipt(n).force
    BY Zenon, <1>4, <2>1 DEF force_required, Tidy
  <2>3. verdict(n, Receipt(n).reason, Receipt(n).force) \in {"go", "supervisor", "worker"}
    BY SMTT(60), <1>3, <1>4, <2>1, <2>2, VerdictWays DEF Fresh
  <2> QED
    BY Zenon, <1>2, <2>3
<1>5. CASE yard[n].ino = 1 /\ yard[n].tip = 1 /\ ~yard[n].reg /\ yard[n].mark = "stale" /\ Pins(n)
  <2>1. is_orphan(n) /\ verify_orphan(n) /\ ~verified_for_discard(n)
    BY SMTT(60), <1>1, <1>5 DEF is_orphan, verified_for_discard, verify_orphan, Registered, Pins
  <2>2. ~Receipt(n).force => force_retry_allowed(n, TRUE)
    BY SMTT(60), <1>5, <2>1 DEF force_retry_allowed, Pins
  <2>3. ~conflicts(n, Receipt(n).reason, TRUE)
    BY Zenon, <1>2, <2>2 DEF conflicts
  <2>4. verdict(n, Receipt(n).reason, TRUE) \in {"go", "supervisor", "worker"}
    BY Zenon, <2>1, <2>3, VerdictWays
  <2> QED
    BY Zenon, <2>4
<1>6. CASE yard[n].ino = 0 /\ yard[n].tip = 1 /\ ~yard[n].reg /\ Pins(n)
  <2>1. ~is_orphan(n) /\ verified_for_discard(n) /\ verify_source_identity(n)
    BY Zenon, <1>1, <1>6 DEF is_orphan, verified_for_discard, verify_source_identity
  <2>2. ~force_required(n)
    BY Zenon, <1>6, <2>1 DEF force_required
  <2>3. verdict(n, Receipt(n).reason, Receipt(n).force) \in {"go", "supervisor", "worker"}
    BY Zenon, <1>3, <1>6, <2>1, <2>2, VerdictWays
  <2> QED
    BY Zenon, <1>2, <2>3
<1> QED
  BY Zenon, <1>1, <1>4, <1>5, <1>6 DEF Stage

(* Disposal.tla, DisposalSound: what discards and salvages leave is sound  *)
(* in every reachable state, for every set of nodes, callers and requests. *)
THEOREM DisposalSafe == DisposalSpec => []DisposalSound
<1>1. Pinned => DisposalSound
  <2> SUFFICES ASSUME Pinned PROVE DisposalSound
    BY Zenon
  <2>1. SignalsOnlyWorker /\ ValidatedBeforeFence
    BY Zenon DEF Pinned, Scene, SignalsOnlyWorker, ValidatedBeforeFence
  <2>2. MergesAlone
    BY Zenon DEF Pinned, Salvor, MergesAlone
  <2> QED
    BY Zenon, <2>1, <2>2, PinnedTypes, PinnedFinishes DEF DisposalSound
<1> QED
  BY <1>1, PinnedInit, PinnedStep, PTL DEF DisposalSpec

(* Which steps delete: a directory that is gone has no changes left in it, *)
(* and only a removal and a branch deletion of a discard, and the user,    *)
(* change what is there.                                                   *)
NoGhosts == \A n \in DNodes : yard[n].ino = 0 => ~yard[n].dirty

\* Node n keeps its directory, its commits and its changes.
Kept(n) == /\ yard'[n].ino = yard[n].ino /\ yard'[n].tip = yard[n].tip
           /\ yard'[n].dirty = yard[n].dirty

\* A discard of caller h removes the directory, or deletes the branch, of n.
Removal(h, n) ==
    /\ hand[h].pc = "remove" /\ n = hand[h].node
    /\ IF hand[h].orphan THEN yard[n].ino # 0 ELSE git_removes(n, hand[h].ask.force)
    /\ yard'[n].ino = 0 /\ yard'[n].tip = yard[n].tip /\ ~yard'[n].dirty

BranchDeletion(h, n) ==
    /\ hand[h].pc = "delete" /\ n = hand[h].node /\ branch_delete_oid(n)
    /\ yard'[n].ino = yard[n].ino /\ yard'[n].tip = 0 /\ yard'[n].dirty = yard[n].dirty

LEMMA ShapesDirty ==
    ASSUME NEW y \in YardSet
    PROVE  /\ ~[y EXCEPT !.ino = 0, !.reg = FALSE, !.dirty = FALSE, !.subs = FALSE].dirty
           /\ [y EXCEPT !.reg = FALSE, !.mark = "stale"].dirty = y.dirty
           /\ [y EXCEPT !.mark = "stale"].dirty = y.dirty
           /\ [y EXCEPT !.tip = 0].dirty = y.dirty
BY Zenon DEF YardSet

LEMMA StillYards ==
    ASSUME Pinned, UNCHANGED yard
    PROVE  \A n \in DNodes : Kept(n)
BY Zenon DEF Kept

LEMMA RemoveMoves ==
    ASSUME Pinned, NEW h \in Hands, RemoveDirectory(h)
    PROVE  \A n \in DNodes : Kept(n) \/ Removal(h, n)
<1>1. hand[h].pc = "remove" /\ hand[h].pc \in After /\ yard \in [DNodes -> YardSet]
  BY Zenon DEF RemoveDirectory, After, Pinned, Typed
<1>2. PICK n \in DNodes : n = hand[h].node
  BY Zenon, <1>1, OwnNode
<1> DEFINE able == IF hand[h].orphan THEN yard[n].ino # 0 ELSE git_removes(n, hand[h].ask.force)
<1>3. CASE able /\ yard' = [yard EXCEPT ![n] = Emptied(n)]
  <2>1. Emptied(n).ino = 0 /\ Emptied(n).tip = yard[n].tip /\ ~Emptied(n).dirty
    BY Zenon, <1>1, Shapes, ShapesDirty DEF Emptied
  <2>2. yard'[n] = Emptied(n) /\ \A k \in DNodes \ {n} : yard'[k] = yard[k]
    BY Zenon, <1>1, <1>3
  <2>3. Removal(h, n)
    BY Zenon, <1>1, <1>2, <1>3, <2>1, <2>2 DEF Removal
  <2> QED
    BY Zenon, <2>2, <2>3 DEF Kept
<1>4. CASE UNCHANGED yard
  BY Zenon, <1>4, StillYards
<1>5. CASE yard' = [yard EXCEPT ![n].reg = FALSE, ![n].mark = "stale"]
  <2> DEFINE y == [yard[n] EXCEPT !.reg = FALSE, !.mark = "stale"]
  <2>1. y.ino = yard[n].ino /\ y.tip = yard[n].tip /\ y.dirty = yard[n].dirty
    BY Zenon, <1>1, Shapes, ShapesDirty
  <2>2. yard'[n] = y /\ \A k \in DNodes \ {n} : yard'[k] = yard[k]
    BY Zenon, <1>1, <1>5
  <2> HIDE DEF y
  <2> QED
    BY Zenon, <2>1, <2>2 DEF Kept
<1> QED
  BY Zenon, <1>2, <1>3, <1>4, <1>5 DEF RemoveDirectory

LEMMA DeleteMoves ==
    ASSUME Pinned, NEW h \in Hands, DeleteBranch(h)
    PROVE  \A n \in DNodes : Kept(n) \/ BranchDeletion(h, n)
<1>1. hand[h].pc = "delete" /\ hand[h].pc \in After /\ yard \in [DNodes -> YardSet]
  BY Zenon DEF DeleteBranch, After, Pinned, Typed
<1>2. PICK n \in DNodes : n = hand[h].node
  BY Zenon, <1>1, OwnNode
<1>3. CASE branch_delete_oid(n) /\ yard' = [yard EXCEPT ![n].tip = 0]
  <2> DEFINE y == [yard[n] EXCEPT !.tip = 0]
  <2>1. y.ino = yard[n].ino /\ y.tip = 0 /\ y.dirty = yard[n].dirty
    BY Zenon, <1>1, Shapes, ShapesDirty
  <2>2. yard'[n] = y /\ \A k \in DNodes \ {n} : yard'[k] = yard[k]
    BY Zenon, <1>1, <1>3
  <2> HIDE DEF y
  <2>3. BranchDeletion(h, n)
    BY Zenon, <1>1, <1>2, <1>3, <2>1, <2>2 DEF BranchDeletion
  <2> QED
    BY Zenon, <2>2, <2>3 DEF Kept
<1>4. CASE UNCHANGED yard
  BY Zenon, <1>4, StillYards
<1> QED
  BY Zenon, <1>2, <1>3, <1>4 DEF DeleteBranch

LEMMA KillMoves ==
    ASSUME Pinned, NEW h \in Hands, CallKilled(h)
    PROVE  \A n \in DNodes : Kept(n)
<1>1. CASE UNCHANGED yard
  BY Zenon, <1>1, StillYards
<1>2. CASE hand[h].pc = "remove" /\ yard' = [yard EXCEPT ![hand[h].node].mark = "stale"]
  <2>1. hand[h].pc \in After /\ yard \in [DNodes -> YardSet]
    BY Zenon, <1>2 DEF After, Pinned, Typed
  <2>2. PICK n \in DNodes : n = hand[h].node
    BY Zenon, <2>1, OwnNode
  <2> DEFINE y == [yard[n] EXCEPT !.mark = "stale"]
  <2>3. y.ino = yard[n].ino /\ y.tip = yard[n].tip /\ y.dirty = yard[n].dirty
    BY Zenon, <2>1, Shapes, ShapesDirty
  <2>4. yard'[n] = y /\ \A k \in DNodes \ {n} : yard'[k] = yard[k]
    BY Zenon, <1>2, <2>1, <2>2
  <2> HIDE DEF y
  <2> QED
    BY Zenon, <2>3, <2>4 DEF Kept
<1> QED
  BY Zenon, <1>1, <1>2 DEF CallKilled

LEMMA Moves ==
    ASSUME Pinned, [DisposalNext]_disposal_vars
    PROVE  \/ UserTouches
           \/ \A n \in DNodes : Kept(n)
           \/ \E h \in Hands : \A n \in DNodes : Kept(n) \/ Removal(h, n)
           \/ \E h \in Hands : \A n \in DNodes : Kept(n) \/ BranchDeletion(h, n)
<1>1. ASSUME NEW h \in Hands, NEW ask \in Chores, Call(h, ask) PROVE UNCHANGED yard
  BY Zenon, <1>1 DEF Call
<1>2. ASSUME NEW h \in Hands, HandSteps(h), ~RemoveDirectory(h), ~DeleteBranch(h)
      PROVE  UNCHANGED yard
  BY Zenon, <1>2 DEF HandSteps, TakeLock, Inspect, WriteReceipt, WriteUpgrade, VerifyTarget,
              CheckBranch, Snapshot, Preview, fence_worker, AwaitExit, MergeStarts, MergeEnds
<1>3. ASSUME NEW h \in Hands, HandSteps(h)
      PROVE  \/ \A n \in DNodes : Kept(n)
             \/ \A n \in DNodes : Kept(n) \/ Removal(h, n)
             \/ \A n \in DNodes : Kept(n) \/ BranchDeletion(h, n)
  BY Zenon, <1>2, <1>3, StillYards, RemoveMoves, DeleteMoves
<1>4. CASE WorkerExits \/ PidReused \/ SupervisorLeaves \/ RunSettled \/ AllHome
           \/ UNCHANGED disposal_vars
  <2>1. UNCHANGED yard
    BY Zenon, <1>4 DEF WorkerExits, PidReused, SupervisorLeaves, RunSettled, AllHome, disposal_vars
  <2> QED
    BY Zenon, <2>1, StillYards
<1> QED
  BY Zenon, <1>1, <1>3, <1>4, StillYards, KillMoves DEF DisposalNext

(* The user leaves no changes in a directory that is gone. *)
LEMMA TouchShapes ==
    ASSUME NEW y \in YardSet, NEW t, NEW b, 2 # 0, y.ino = 0 => ~y.dirty
    PROVE  /\ y.ino # 0 => [y EXCEPT !.dirty = TRUE].ino # 0
           /\ [y EXCEPT !.tip = t].ino = 0 => ~[y EXCEPT !.tip = t].dirty
           /\ ~[y EXCEPT !.dirty = FALSE].dirty
           /\ ~y.dirty => ~[y EXCEPT !.reg = b].dirty
           /\ [y EXCEPT !.ino = 2, !.mark = "bound", !.reg = TRUE, !.dirty = FALSE,
                        !.subs = FALSE].ino = 2
           /\ [y EXCEPT !.ino = 2, !.mark = "foreign", !.dirty = TRUE].ino = 2
BY Zenon DEF YardSet

LEMMA TouchTidy ==
    ASSUME Pinned, NoGhosts, NEW n \in DNodes, Touch(n)
    PROVE  NoGhosts'
<1>1. yard \in [DNodes -> YardSet] /\ yard[n] \in YardSet /\ (yard[n].ino = 0 => ~yard[n].dirty)
  BY Zenon DEF Pinned, Typed, NoGhosts
<1>2. 2 # 0
  BY SMTT(60)
<1>3. Emptied(n) \in YardSet /\ ~Emptied(n).dirty
  BY Zenon, <1>1, Numbers, YardEdits, ShapesDirty DEF Emptied
<1>4. \A b : [Emptied(n) EXCEPT !.reg = b].ino = 0 => ~[Emptied(n) EXCEPT !.reg = b].dirty
  BY Zenon, <1>2, <1>3, TouchShapes
<1>5. /\ yard[n].ino # 0 => [yard[n] EXCEPT !.dirty = TRUE].ino # 0
      /\ \A t : [yard[n] EXCEPT !.tip = t].ino = 0 => ~[yard[n] EXCEPT !.tip = t].dirty
      /\ [yard[n] EXCEPT !.ino = 2, !.mark = "bound", !.reg = TRUE, !.dirty = FALSE,
                         !.subs = FALSE].ino # 0
      /\ [yard[n] EXCEPT !.ino = 2, !.mark = "foreign", !.dirty = TRUE].ino # 0
  BY Zenon, <1>1, <1>2, TouchShapes
<1>6. \/ UNCHANGED yard
      \/ \E new : yard' = [yard EXCEPT ![n] = new] /\ (new.ino = 0 => ~new.dirty)
  BY Zenon, <1>4, <1>5 DEF Touch
<1> QED
  BY Zenon, <1>1, <1>6 DEF NoGhosts

LEMMA NoGhostsInit == DisposalInit => NoGhosts
<1> SUFFICES ASSUME DisposalInit, NEW n \in DNodes PROVE yard[n].ino = 0 => ~yard[n].dirty
  BY Zenon DEF NoGhosts
<1> DEFINE Left == [ino : {1}, mark : {"bound"}, reg : {TRUE}, tip : {1},
                    dirty : BOOLEAN, subs : BOOLEAN]
<1>1. yard \in [DNodes -> {Bare} \cup Left]
  BY Zenon DEF DisposalInit
<1>2. \A y \in Left : y.ino = 1
  BY Zenon
<1>3. ~Bare.dirty
  BY Zenon DEF Bare
<1> HIDE DEF Left
<1> QED
  BY SMTT(60), <1>1, <1>2, <1>3

LEMMA NoGhostsStep == Pinned /\ NoGhosts /\ [DisposalNext]_disposal_vars => NoGhosts'
<1> SUFFICES ASSUME Pinned, NoGhosts, [DisposalNext]_disposal_vars PROVE NoGhosts'
  BY Zenon
<1>1. CASE UserTouches
  <2>1. odds.nodes \subseteq DNodes /\ \E n \in odds.nodes : Touch(n)
    BY Zenon, <1>1 DEF UserTouches, Pinned, Typed, OddsTyped
  <2> QED
    BY Zenon, <2>1, TouchTidy
<1>2. ASSUME NEW n \in DNodes, Kept(n) PROVE yard'[n].ino = 0 => ~yard'[n].dirty
  BY Zenon, <1>2 DEF Kept, NoGhosts
<1>3. ASSUME NEW n \in DNodes, NEW h \in Hands, Removal(h, n) \/ BranchDeletion(h, n)
      PROVE  yard'[n].ino = 0 => ~yard'[n].dirty
  BY Zenon, <1>3 DEF Removal, BranchDeletion, NoGhosts
<1> QED
  BY Zenon, <1>1, <1>2, <1>3, Moves DEF NoGhosts

(* Nothing is deleted where nothing is lost. *)
LEMMA KeptIsNotDeleted == ASSUME Pinned, NEW n \in DNodes, Kept(n) PROVE ~Deletes(n)
<1>1. yard[n] \in YardSet
  BY Zenon DEF Pinned, Typed
<1>2. yard[n].ino \in 0..2 /\ yard[n].tip \in 0..3
  BY Zenon, <1>1, YardTypes
<1> QED
  BY SMTT(60), <1>2 DEF Kept, Deletes

\* What DeletesOnlyPinned says of a deletion of node n.
Rightful(n) ==
    /\ book.status \in {"failed", "cancelled"}
    /\ yard'[n].ino = 0 /\ yard[n].ino # 0 =>
         Receipted(n) /\ (traces.late \/ Receipt(n).ino \in {0, yard[n].ino})
    /\ yard[n].tip # 0 /\ yard'[n].tip = 0 =>
         /\ Receipted(n) /\ Receipt(n).oid = yard[n].tip
         /\ traces.late \/ (yard[n].ino = 0 /\ ~Registered(n))
    /\ yard[n].dirty /\ yard'[n].ino = 0 => Receipt(n).force \/ book.upgrade[n]

LEMMA RemovalIsRightful ==
    ASSUME Pinned, NEW h \in Hands, NEW n \in DNodes, Removal(h, n) PROVE Rightful(n)
<1>1. Discarder(h) /\ hand[h].pc = "remove" /\ n = hand[h].node /\ yard'[n].tip = yard[n].tip
  BY Zenon DEF Pinned, Removal
<1>2. /\ book.status \in {"failed", "cancelled"} /\ Receipted(n)
      /\ traces.late \/ Receipt(n).ino \in {0, yard[n].ino}
      /\ hand[h].ask.force => Receipt(n).force \/ book.upgrade[n]
      /\ hand[h].orphan => hand[h].ask.force \/ Receipt(n).force
  BY Zenon, <1>1 DEF Discarder, Locked, After
<1>3. yard[n].dirty => hand[h].orphan \/ hand[h].ask.force
  BY Zenon DEF Removal, git_removes
<1> QED
  BY Zenon, <1>1, <1>2, <1>3 DEF Rightful

LEMMA BranchDeletionIsRightful ==
    ASSUME Pinned, NoGhosts, NEW h \in Hands, NEW n \in DNodes, BranchDeletion(h, n)
    PROVE  Rightful(n)
<1>1. /\ Discarder(h) /\ hand[h].pc = "delete" /\ n = hand[h].node
      /\ yard'[n].ino = yard[n].ino /\ yard[n].tip = Receipt(n).oid
      /\ (yard[n].ino = 0 => ~yard[n].dirty)
  BY Zenon DEF Pinned, BranchDeletion, branch_delete_oid, NoGhosts
<1>2. /\ book.status \in {"failed", "cancelled"} /\ Receipted(n)
      /\ traces.late \/ (yard[n].ino = 0 /\ ~Registered(n))
  BY Zenon, <1>1 DEF Discarder, Locked, After
<1> QED
  BY Zenon, <1>1, <1>2 DEF Rightful

(* Disposal.tla, DeletesOnlyPinned: a discard deletes what its receipt     *)
(* pinned, the branch last and at the recorded commit, changes only with   *)
(* --force, and nothing of a run that is done.                             *)
THEOREM DiscardPinned == DisposalSpec => DeletesOnlyPinned
<1> DEFINE Step == /\ RemovesOnlyPinned /\ BranchDeletedAtPin /\ BranchGoesLast
                   /\ ChangesNeedForce /\ DoneIsNotDiscarded
<1>1. Pinned /\ NoGhosts /\ [DisposalNext]_disposal_vars => Step
  <2> SUFFICES ASSUME Pinned, NoGhosts, [DisposalNext]_disposal_vars PROVE Step
    BY Zenon
  <2>1. ASSUME UserTouches, NEW n \in DNodes PROVE ~Deletes(n)
    <3>1. OddsTyped /\ traces = [x \in TraceFields |-> traces[x]]
      BY Zenon DEF Pinned, Typed
    <3>2. odds'.touches < odds.touches
      BY Zenon, <2>1, <3>1, StakeEffect DEF UserTouches
    <3>3. traces'.touched
      BY Zenon, <2>1, <3>1 DEF UserTouches, TraceFields
    <3> QED
      BY Zenon, <3>2, <3>3 DEF Deletes
  <2>2. \A n \in DNodes : Deletes(n) => Rightful(n)
    BY Zenon, <2>1, Moves, KeptIsNotDeleted, RemovalIsRightful, BranchDeletionIsRightful
  <2> QED
    BY Zenon, <2>2 DEF Rightful, RemovesOnlyPinned, BranchDeletedAtPin, BranchGoesLast,
                ChangesNeedForce, DoneIsNotDiscarded
<1> HIDE DEF Step
<1>2. DisposalSpec => [][Step]_disposal_vars
  BY <1>1, PinnedInit, PinnedStep, NoGhostsInit, NoGhostsStep, PTL DEF DisposalSpec
<1> QED
  BY Zenon, <1>2 DEF Step, DeletesOnlyPinned

===============================================================================
