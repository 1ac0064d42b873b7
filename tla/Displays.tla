------------------------------ MODULE Displays ------------------------------
(* Retained displays of completed workers in a persistent tmux session      *)
(* (session.rs). The supervisor of each run replaces its worker's pane by a *)
(* dead window showing the archived history; `session maintain` expires     *)
(* such windows by age and number. tmux has no transactions, windows are    *)
(* found again by a marker they set on themselves, their ids start over     *)
(* with the server, and people use the same session.                        *)
EXTENDS Integers, FiniteSets, FiniteSetsExt, Functions

CONSTANTS Runs,         \* 1 .. n, the older run first (retained_at)
          KeepMax,      \* completed_window_max of each run's policy
          MaxWindow,    \* bound: window ids per server generation
          Hindrances    \* bounds on the steps of people and of the tmux server, and
                        \* on the crashes, failed appends and timeouts

VARIABLES mux,     \* the tmux server: its generation and its windows
          rec,     \* the record of each run: its retained display
          sup,     \* the supervisor of each run
          mnt,     \* one `session maintain`
          left,    \* what is left of the bounds
          past     \* history: which waits ran out, who closed what

display_vars == <<mux, rec, sup, mnt, left, past>>

NoId == 0
Foreign == [kind |-> "foreign", owner |-> 0, worker |-> FALSE,
            shell |-> "none", bound |-> FALSE, marked |-> FALSE, dead |-> FALSE]
Worker(n) == [Foreign EXCEPT !.kind = "worker", !.owner = n, !.worker = TRUE,
                             !.shell = "idle"]
Display(n) == [Foreign EXCEPT !.kind = "display", !.owner = n]
NoDisplayYet == [state |-> "none", gen |-> 1, id |-> NoId]
Unscheduled == [pc |-> "idle", todo |-> {}, seen |-> {}, cur |-> NoId,
                kept |-> FALSE, look |-> 0]

DisplaysInit ==
    /\ mux = [gen |-> 1, win |-> [i \in Runs |-> Worker(i)],
              next |-> Cardinality(Runs) + 1]
    /\ rec = [n \in Runs |-> NoDisplayYet]
    /\ sup = [n \in Runs |-> [pc |-> "look", id |-> NoId]]
    /\ mnt = Unscheduled
    /\ left \in Hindrances
    /\ past = [slow |-> FALSE, closed |-> {}]

(* server_identity: the recorded server runs and has the session.           *)
server_exact(gen) == mux.gen = gen /\ DOMAIN mux.win # {}
without(i) == [mux EXCEPT !.win = Restrict(@, DOMAIN @ \ {i})]
Step(n, pc, i) == sup' = [sup EXCEPT ![n] = [pc |-> pc, id |-> i]]
Retry(n) == Step(n, "look", NoId)
Trouble == left.trouble > 0 /\ left' = [left EXCEPT !.trouble = @ - 1]

(* mark_original_shell: an idle companion of the worker pane is bound. *)
bound_shell(n) ==
    IF n \in DOMAIN mux.win /\ mux.win[n].owner = n /\ mux.win[n].worker
         /\ mux.win[n].shell = "idle"
    THEN [mux EXCEPT !.win[n].bound = TRUE] ELSE mux

(* owned_marker_count, find_owned_display *)
owned(n) == {i \in DOMAIN mux.win : mux.win[i].marked /\ mux.win[i].owner = n}
shown(n) == {i \in owned(n) : mux.win[i].dead /\ Cardinality(owned(n)) = 1}

displays(n) == {i \in DOMAIN mux.win : mux.win[i].kind = "display" /\ mux.win[i].owner = n}

-----------------------------------------------------------------------------
(* retain_completed_display *)

(* With the server gone there is nothing to retain. A display that an       *)
(* earlier attempt left is adopted by its marker, waited for while it is    *)
(* still writing, and never chosen between two. Otherwise one is made.      *)
retain_look(n) ==
    /\ sup[n].pc = "look" /\ rec[n].state = "none"
    /\ IF ~server_exact(1) THEN Step(n, "lost", NoId) /\ UNCHANGED mux
       ELSE CASE shown(n) # {} ->
                   mux' = bound_shell(n) /\ Step(n, "dispose", CHOOSE i \in shown(n) : TRUE)
              [] shown(n) = {} /\ Cardinality(owned(n)) = 1 ->
                   mux' = bound_shell(n) /\ Step(n, "wait", NoId)
              [] Cardinality(owned(n)) > 1 ->
                   mux' = bound_shell(n) /\ Retry(n)
              [] OTHER ->
                   /\ mux.next <= MaxWindow
                   /\ mux' = [bound_shell(n) EXCEPT
                        !.win = [i \in DOMAIN @ \cup {mux.next} |->
                                   IF i = mux.next THEN Display(n) ELSE @[i]],
                        !.next = @ + 1]
                   /\ Step(n, "wait", mux.next)
    /\ UNCHANGED <<rec, mnt, left, past>>

(* The new window marks itself, then prints the archive and stays, dead.    *)
DisplayMarks(i) ==
    /\ i \in DOMAIN mux.win /\ mux.win[i].kind = "display" /\ ~mux.win[i].marked
    /\ mux' = [mux EXCEPT !.win[i].marked = TRUE]
    /\ UNCHANGED <<rec, sup, mnt, left, past>>
DisplayEnds(i) ==
    /\ i \in DOMAIN mux.win /\ mux.win[i].marked /\ ~mux.win[i].dead
    /\ mux' = [mux EXCEPT !.win[i].dead = TRUE]
    /\ UNCHANGED <<rec, sup, mnt, left, past>>

(* wait_owned_display: up to three seconds, and it has to be the window     *)
(* that was made.                                                           *)
wait_owned_display(n) ==
    /\ sup[n].pc = "wait"
    /\ \/ /\ shown(n) # {}
          /\ IF sup[n].id \in shown(n) \cup {NoId}
             THEN Step(n, "dispose", CHOOSE i \in shown(n) : TRUE)
             ELSE Retry(n)
          /\ UNCHANGED <<left, past>>
       \/ /\ shown(n) = {} /\ Retry(n)
          /\ IF \E i \in displays(n) : ~mux.win[i].dead
             THEN Trouble /\ past' = [past EXCEPT !.slow = TRUE]
             ELSE UNCHANGED <<left, past>>
    /\ UNCHANGED <<mux, rec, mnt>>

(* dispose_original_pane: exactly the recorded pane on the recorded server; *)
(* gone is as good. The window goes with its last pane.                     *)
dispose_original_pane(n) ==
    /\ sup[n].pc = "dispose"
    /\ \/ /\ Step(n, "record", sup[n].id) /\ UNCHANGED left
          /\ mux' = IF ~server_exact(1) \/ n \notin DOMAIN mux.win \/ ~mux.win[n].worker
                    THEN mux
                    ELSE IF mux.win[n].shell = "none" THEN without(n)
                    ELSE [mux EXCEPT !.win[n].worker = FALSE]
       \/ Trouble /\ Retry(n) /\ UNCHANGED mux
    /\ UNCHANGED <<rec, mnt, past>>

(* record_retained, under the lock of the run *)
record_retained(n) ==
    /\ sup[n].pc = "record" /\ mnt.cur # n
    /\ \/ /\ rec' = [rec EXCEPT ![n] =
               [state |-> "retained", gen |-> 1, id |-> sup[n].id]]
          /\ Step(n, "close", NoId) /\ UNCHANGED left
       \/ Trouble /\ Retry(n) /\ UNCHANGED rec
    /\ UNCHANGED <<mux, mnt, past>>

record_unavailable(n) ==
    /\ sup[n].pc = "lost" /\ mnt.cur # n
    /\ \/ /\ rec' = [rec EXCEPT ![n].state = "unavailable"]
          /\ Step(n, "close", NoId) /\ UNCHANGED left
       \/ Trouble /\ Retry(n) /\ UNCHANGED rec
    /\ UNCHANGED <<mux, mnt, past>>

(* close_original_workmux_window: only the companion that was bound while   *)
(* the worker was there, and only while it is still idle.                   *)
close_original_workmux_window(n) ==
    /\ sup[n].pc = "close"
    /\ mux' = IF /\ server_exact(1) /\ n \in DOMAIN mux.win
                 /\ mux.win[n].owner = n /\ ~mux.win[n].worker
                 /\ mux.win[n].bound /\ mux.win[n].shell = "idle"
              THEN without(n) ELSE mux
    /\ Step(n, "done", NoId)
    /\ UNCHANGED <<rec, mnt, left, past>>

(* A supervisor dies and comes back; a recorded outcome is not redone.      *)
RetainCrash(n) ==
    /\ sup[n].pc \in {"wait", "dispose", "record", "close"}
    /\ Trouble
    /\ Step(n, IF rec[n].state = "none" THEN "look" ELSE "close", NoId)
    /\ past' = IF sup[n].pc = "wait" /\ owned(n) = {}
               THEN [past EXCEPT !.slow = TRUE] ELSE past
    /\ UNCHANGED <<mux, rec, mnt>>

-----------------------------------------------------------------------------
(* session maintain *)
Maintain ==
    /\ mnt.pc = "idle" /\ left.user > 0
    /\ mnt' = [Unscheduled EXCEPT !.pc = "scan", !.todo = Runs]
    /\ left' = [left EXCEPT !.user = @ - 1]
    /\ UNCHANGED <<mux, rec, sup, past>>

(* scan_candidates: run after run, each under its lock; a busy one is       *)
(* skipped.                                                                 *)
scan_candidates ==
    /\ mnt.pc = "scan"
    /\ IF mnt.todo = {}
       THEN mnt' = [mnt EXCEPT !.pc = "mark"] /\ UNCHANGED left
       ELSE LET n == Min(mnt.todo) IN
            \/ /\ mnt' = [mnt EXCEPT !.todo = @ \ {n},
                    !.seen = IF rec[n].state = "retained"
                             THEN @ \cup {[run |-> n, gen |-> rec[n].gen,
                                           id |-> rec[n].id, over |-> FALSE]}
                             ELSE @]
               /\ UNCHANGED left
            \/ Trouble /\ mnt' = [mnt EXCEPT !.todo = @ \ {n}, !.kept = TRUE]
    /\ UNCHANGED <<mux, rec, sup, past>>

keep(group) == Min({KeepMax[c.run] : c \in group})
newer(c, group) == {d \in group : d.run > c.run}

(* mark_count_expiry: per server, all but the newest are over the limit,    *)
(* which is the smallest any of their runs asks for.                        *)
mark_count_expiry(cands) ==
    {LET group == {d \in cands : d.gen = c.gen} IN
       [c EXCEPT !.over = Cardinality(newer(c, group)) >= keep(group)] : c \in cands}

mark_over ==
    /\ mnt.pc = "mark"
    /\ mnt' = [mnt EXCEPT !.pc = "next", !.seen = mark_count_expiry(@),
                          !.todo = {c.run : c \in mnt.seen}]
    /\ UNCHANGED <<mux, rec, sup, left, past>>

cand(n) == CHOOSE c \in mnt.seen : c.run = n
Passed(m, n) == [m EXCEPT !.todo = @ \ {n}, !.cur = NoId, !.pc = "next", !.look = 0]

(* Faulty variant: the window id alone identifies the display. *)
inspect_display_by_id(c) ==
    IF c.id \notin DOMAIN mux.win THEN "WindowGone" ELSE "Owned"

(* inspect_exact_display: gone, ours, or not to be touched *)
inspect_display(c) ==
    IF ~server_exact(c.gen) THEN "ServerGone"
    ELSE IF c.id \notin DOMAIN mux.win THEN "WindowGone"
    ELSE IF mux.win[c.id].owner = c.run /\ mux.win[c.id].dead THEN "Owned"
    ELSE "Unsafe"

(* expire_candidate, under the lock of the run: the record must be the one  *)
(* that was scanned, the window exactly ours and not the last one.          *)
expire_candidate ==
    /\ mnt.pc = "next" /\ mnt.todo # {}
    /\ LET n == Min(mnt.todo) c == cand(n)
           kept == Passed([mnt EXCEPT !.kept = TRUE], n) IN
       \/ /\ ~c.over   \* not expired yet
          /\ mnt' = Passed(mnt, n) /\ UNCHANGED <<rec, left>>
       \/ /\ Trouble /\ mnt' = kept /\ UNCHANGED rec   \* lock busy, tmux failing
       \/ /\ UNCHANGED left
          /\ IF rec[n] # [state |-> "retained", gen |-> c.gen, id |-> c.id]
             THEN mnt' = kept /\ UNCHANGED rec
             ELSE CASE inspect_display(c) \in {"ServerGone", "WindowGone"} ->
                         /\ rec' = [rec EXCEPT ![n].state = "expired"]
                         /\ mnt' = Passed(mnt, n)
                    [] inspect_display(c) = "Unsafe" ->
                         mnt' = kept /\ UNCHANGED rec
                    [] OTHER ->
                         /\ mnt' = IF Cardinality(DOMAIN mux.win) <= 1 THEN kept
                                   ELSE [mnt EXCEPT !.pc = "kill", !.cur = n,
                                          !.look = Cardinality(DOMAIN mux.win)]
                         /\ UNCHANGED rec
    /\ UNCHANGED <<mux, sup, past>>

(* kill-pane, then the record; a failure after the kill leaves the record   *)
(* to a later pass.                                                         *)
kill_display ==
    /\ mnt.pc = "kill"
    /\ LET n == mnt.cur c == cand(mnt.cur) IN
       /\ mux' = without(c.id)
       /\ \/ /\ rec' = [rec EXCEPT ![n].state = "expired"]
             /\ mnt' = Passed(mnt, n) /\ UNCHANGED left
          \/ /\ Trouble /\ UNCHANGED rec
             /\ mnt' = Passed([mnt EXCEPT !.kept = TRUE], n)
    /\ UNCHANGED <<sup, past>>

MaintainEnds ==
    /\ mnt.pc = "next" /\ mnt.todo = {}
    /\ mnt' = Unscheduled
    /\ UNCHANGED <<mux, rec, sup, left, past>>

MaintainCrash ==
    /\ mnt.pc # "idle" /\ Trouble
    /\ mnt' = Unscheduled
    /\ UNCHANGED <<mux, rec, sup, past>>

-----------------------------------------------------------------------------
(* People, and the server itself *)
User == left.user > 0 /\ left' = [left EXCEPT !.user = @ - 1] /\ UNCHANGED <<rec, sup>>

UserTypes(i) ==
    /\ i \in DOMAIN mux.win /\ mux.win[i].shell = "idle" /\ User
    /\ mux' = [mux EXCEPT !.win[i].shell = "used"]
    /\ UNCHANGED <<mnt, past>>

UserCloses(i) ==
    /\ i \in DOMAIN mux.win /\ User
    /\ mux' = without(i)
    /\ past' = [past EXCEPT !.closed = @ \cup {mux.win[i].owner}]
    /\ UNCHANGED mnt

UserOpens ==
    /\ mux.next <= MaxWindow /\ DOMAIN mux.win # {} /\ User
    /\ mux' = [mux EXCEPT !.next = @ + 1,
         !.win = [i \in DOMAIN @ \cup {mux.next} |->
                    IF i = mux.next THEN Foreign ELSE @[i]]]
    /\ UNCHANGED <<mnt, past>>

(* The server is restarted, its ids start over. Not between an inspection   *)
(* and the kill that follows it: tmux has no conditional kill.              *)
ServerRestarts ==
    /\ mux.gen = 1 /\ mnt.pc # "kill" /\ User
    /\ mux' = [gen |-> 2, win |-> [i \in 1 .. MaxWindow |-> Foreign],
               next |-> MaxWindow + 1]
    /\ UNCHANGED <<mnt, past>>

Supervise(n) ==
    \/ retain_look(n) \/ wait_owned_display(n) \/ dispose_original_pane(n)
    \/ record_retained(n) \/ record_unavailable(n)
    \/ close_original_workmux_window(n)
Maintenance ==
    \/ scan_candidates \/ mark_over \/ expire_candidate \/ kill_display \/ MaintainEnds
Script == \E i \in 1 .. MaxWindow : DisplayMarks(i) \/ DisplayEnds(i)
DisplaysRest ==
    /\ \A n \in Runs : sup[n].pc = "done" \/ (sup[n].pc = "look" /\ mux.next > MaxWindow)
    /\ UNCHANGED display_vars

DisplaysNext ==
    \/ \E n \in Runs : Supervise(n) \/ RetainCrash(n)
    \/ Script \/ Maintain \/ Maintenance \/ MaintainCrash
    \/ \E i \in 1 .. MaxWindow : UserTypes(i) \/ UserCloses(i)
    \/ UserOpens \/ ServerRestarts \/ DisplaysRest

(* Supervisors tick, maintenance runs to its end, and so does the script of *)
(* a display.                                                               *)
DisplaysFairness ==
    /\ \A n \in Runs : WF_display_vars(Supervise(n))
    /\ WF_display_vars(Script) /\ WF_display_vars(Maintenance)

DisplaysSpec == DisplaysInit /\ [][DisplaysNext]_display_vars /\ DisplaysFairness

-----------------------------------------------------------------------------
\* The tmux server, the display records of the runs and the maintenance in
\* progress (multiplexer display retention) hold values of their types.
DisplaysTypeOK ==
    /\ mux.gen \in 1 .. 2 /\ DOMAIN mux.win \subseteq 1 .. MaxWindow
    /\ \A n \in Runs : /\ rec[n].state \in {"none", "retained", "unavailable", "expired"}
                       /\ rec[n].id \in 0 .. MaxWindow
                       /\ sup[n].pc = "done" => rec[n].state # "none"
    /\ mnt.cur \in Runs \cup {NoId}

(* However often the supervisor dies or its appends fail, a completed       *)
(* worker is replaced by one display: a later attempt finds the window of   *)
(* an earlier one by its marker. (A window that takes longer to mark itself *)
(* than the supervisor waits is not found, and doubled.)                    *)
OneDisplay ==
    past.slow \/ \A n \in Runs :
      Cardinality(displays(n)) <= 1

UserStep ==
    left'.user < left.user /\ mnt'.pc = mnt.pc

has_worker(n) == mux.gen = 1 /\ n \in DOMAIN mux.win /\ mux.win[n].worker
(* The worker's pane is closed only when its display stands, unless a       *)
(* person closed that in between.                                           *)
DisplayBeforeDisposal ==
    \A n \in Runs :
      has_worker(n) /\ ~has_worker(n)' /\ ~UserStep /\ n \notin past.closed
        => \E i \in displays(n) : mux.win[i].dead

(* Neither a supervisor nor the maintenance ever closes a window of         *)
(* somebody else, or a shell that has been typed into: also when the server *)
(* was restarted and the ids of the record now name other windows.          *)
ClosesOnlyOwn ==
    UserStep \/
    \A i \in DOMAIN mux.win \ DOMAIN mux'.win :
      mux.win[i].kind # "foreign" /\ mux.win[i].shell # "used"

(* Maintenance does not close the last window, which would end the          *)
(* persistent session, unless somebody closed another one since it counted. *)
MaintenanceKeepsSession ==
    mnt.pc = "kill" /\ DOMAIN mux.win # {} /\ DOMAIN mux'.win = {} /\ ~UserStep
      => Cardinality(DOMAIN mux.win) < mnt.look

(* A pass that preserved nothing leaves, of the displays it scanned on one  *)
(* server, no more than the smallest limit of their runs.                   *)
PassBoundsDisplays ==
    MaintainEnds /\ ~mnt.kept =>
      \A c \in mnt.seen :
        LET group == {d \in mnt.seen : d.gen = c.gen} IN
        Cardinality({d \in group : rec[d.run].state = "retained"}) <= keep(group)

(* Retention ends: a display is recorded, or that there is none, whatever   *)
(* crashes; unless a display was slow to mark itself, or people close       *)
(* windows until the ids run out.                                           *)
RetentionEnds ==
    <>(past.slow \/ mux.next > MaxWindow \/ \A n \in Runs : rec[n].state # "none")

\* Supervisors and maintenance share the session with people: they put one
\* display in the place of a worker, expire no more and no less than the
\* limits ask, and close nothing of others (session.rs).
SharesTheSession ==
    [][ /\ DisplaysTypeOK' /\ OneDisplay'
        /\ DisplayBeforeDisposal /\ ClosesOnlyOwn
        /\ MaintenanceKeepsSession /\ PassBoundsDisplays ]_display_vars

=============================================================================
