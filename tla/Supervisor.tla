----------------------------- MODULE Supervisor -----------------------------
(* One parent run, its supervisor processes and its child runs              *)
(* (supervise/mod.rs and its helpers): the claim of supervisor.pid, the     *)
(* answer to `run create`, the tick that follows the run's own log and the  *)
(* logs of its children, the roll-up of the run, the completion hook, and   *)
(* the ways out of the loop. How the children's own supervisors are started *)
(* is module ChildStartup.                                                  *)
(* Processes die between any two steps; memory is rebuilt from              *)
(* supervisor.state.json and the node projections.                          *)
EXTENDS Integers, Sequences, FiniteSets, FiniteSetsExt

CONSTANTS Kids,       \* 1 .. n, the child runs in the order they are linked
          Slots,      \* processes; a slot is reused by a later process
          MaxNotify,  \* NOTIFY_MAX_ATTEMPTS
          MaxStreak,  \* SELF_TERMINATE_TICKS and NO_WORKER_TICKS
          Odds        \* bounds: numbers of children, and of troubles of each kind

VARIABLES run,      \* the parent's run directory
          kid,      \* the child runs: their logs
          pidfile,  \* supervisor.pid of the parent: whom it records
          saved,    \* supervisor.state.json of the parent
          proc,     \* the supervisor processes of the parent
          creator,  \* `run create`, reading the readiness pipe
          odds      \* what is left of the bounds

supervisor_vars == <<run, kid, pidfile, saved, proc, creator, odds>>

Ends == {"done", "failed", "cancelled"}
StatusLine == 0
Clear == -1        \* no rotten line
NoPid == 0
StalePid == -1     \* a dead process, or one that reuses its number

-----------------------------------------------------------------------------
(* The runs                                                                 *)

linked == {run.log[i] : i \in DOMAIN run.log} \ {StatusLine}
KidEnd(k) == {i \in DOMAIN kid[k].log : kid[k].log[i] \in Ends}
kid_status(k) == IF KidEnd(k) = {} THEN "live" ELSE kid[k].log[Max(KidEnd(k))]
Say(k, what) == kid' = [kid EXCEPT ![k].log = @ \o what]

Closed == [open |-> FALSE, pos |-> 0, done |-> FALSE, skip |-> FALSE]
Blank == [own |-> 0, cur |-> [k \in Kids |-> 0], tail |-> [k \in Kids |-> Closed],
          k |-> 1, missing |-> 0, quiet |-> 0, notified |-> FALSE, tries |-> 0,
          cleaned |-> FALSE]
Off == [at |-> "off", sig |-> FALSE, mem |-> Blank]
Unsaved == [own |-> 0, cur |-> [k \in Kids |-> 0]]

SupervisorInit ==
    /\ run = [dir |-> TRUE, status |-> "live", worker |-> "none", log |-> <<>>,
              cursor |-> [k \in Kids |-> 0], old |-> FALSE,
              fired |-> 0, marked |-> FALSE, unmarked |-> 0]
    /\ kid = [k \in Kids |-> [log |-> <<>>, junk |-> Clear]]
    /\ pidfile = NoPid
    /\ saved = Unsaved
    /\ proc = [s \in Slots |-> IF s = 1 THEN [Off EXCEPT !.at = "boot"] ELSE Off]
    /\ creator = [slot |-> 1, told |-> "wait"]
    /\ odds \in Odds

Spend(kind) == odds[kind] > 0 /\ odds' = [odds EXCEPT ![kind] = @ - 1]

-----------------------------------------------------------------------------
(* What the others do: workers, `run create --parent-run`, `run cancel`,    *)
(* child supervisors, operators.                                            *)

(* The worker node is made, reports, and may be salvaged by a merge. *)
WorkerMoves ==
    /\ run.dir /\ run.status \notin {"done", "cancelled"}
    /\ \E w \in {"live", "done", "failed", "merged"} :
         /\ <<run.worker, w>> \in {<<"none", "live">>, <<"live", "done">>,
                                   <<"live", "failed">>, <<"live", "merged">>,
                                   <<"failed", "merged">>}
         /\ run' = [run EXCEPT !.worker = w]
    /\ UNCHANGED <<kid, pidfile, saved, proc, creator, odds>>

(* no_worker_grace has passed; it matters to a run without a worker. *)
TimePasses ==
    /\ ~run.old /\ run.worker = "none" /\ run' = [run EXCEPT !.old = TRUE]
    /\ UNCHANGED <<kid, pidfile, saved, proc, creator, odds>>

(* The child is published first, then child.spawned is appended. *)
LinkKid ==
    /\ run.dir /\ run.status = "live" /\ run.worker # "none"
    /\ \E k \in 1 .. odds.kids : /\ k = Cardinality(linked) + 1
                                /\ run' = [run EXCEPT !.log = Append(@, k)]
    /\ UNCHANGED <<kid, pidfile, saved, proc, creator, odds>>

KidReports(k) ==
    /\ k \in linked /\ kid[k].log = <<>>
    /\ Say(k, <<"report">>)
    /\ UNCHANGED <<run, pidfile, saved, proc, creator, odds>>

(* run cancel: the live node is reported cancelled, then the run. *)
KidCancelled(k) ==
    /\ k \in linked /\ KidEnd(k) = {}
    /\ Say(k, IF kid[k].log = <<>> THEN <<"report", "cancelled">> ELSE <<"cancelled">>)
    /\ UNCHANGED <<run, pidfile, saved, proc, creator, odds>>

(* A merge that was under way when the run ended reports after the end.     *)
KidLateReport(k) ==
    /\ kid_status(k) \in {"failed", "cancelled"} /\ Len(kid[k].log) = 2
    /\ Spend("late") /\ Say(k, <<"report">>)
    /\ UNCHANGED <<run, pidfile, saved, proc, creator>>

(* The child's supervisor rolls it up; a failed child can recover. *)
KidRollup(k) ==
    /\ kid[k].log # <<>>
    /\ kid[k].log[Len(kid[k].log)] = "report"
    /\ \E e \in {"done", "failed"} :
         /\ kid_status(k) = "live" \/ (kid_status(k) = "failed" /\ e = "done")
         /\ Say(k, <<e>>)
    /\ UNCHANGED <<run, pidfile, saved, proc, creator, odds>>

(* A line of a child's log rots. *)
KidLogRots(k) ==
    /\ k \in linked /\ kid[k].junk = Clear /\ Spend("rot")
    /\ \E p \in 0 .. Len(kid[k].log) : kid' = [kid EXCEPT ![k].junk = p]
    /\ UNCHANGED <<run, pidfile, saved, proc, creator>>

ParentCancelled ==
    /\ run.dir /\ run.status = "live" /\ Spend("cancel")
    /\ run' = [run EXCEPT !.status = "cancelled", !.log = Append(@, StatusLine),
                          !.worker = IF @ = "live" THEN "failed" ELSE @]
    /\ UNCHANGED <<kid, pidfile, saved, proc, creator>>

(* Somebody removes the run directory, the pid file with it. *)
DirVanishes ==
    /\ run.dir /\ Spend("vanish")
    /\ run' = [run EXCEPT !.dir = FALSE]
    /\ pidfile' = NoPid /\ saved' = Unsaved
    /\ UNCHANGED <<kid, proc, creator>>

-----------------------------------------------------------------------------
(* Launch, claim, readiness                                                 *)

(* `run create` reads one line from the pipe; when the last writer closes   *)
(* it without one, the supervisor died.                                     *)
answer(s, what) ==
    IF creator.slot = s /\ creator.told = "wait"
    THEN [creator EXCEPT !.told = what] ELSE creator

remove_if_owner(s) == IF pidfile = s THEN NoPid ELSE pidfile
At(s, at) == proc' = [proc EXCEPT ![s].at = at]
Become(s, at, mem) == proc' = [proc EXCEPT ![s].at = at, ![s].mem = mem]
Leave(s) == proc' = [proc EXCEPT ![s] = Off]

(* run reattach, and run merge when it finds no supervisor: refused while   *)
(* the recorded one lives; the claim decides between two.                   *)
Reattach(s) ==
    /\ proc[s].at = "off"
    /\ s = Min({r \in Slots : proc[r].at = "off"})
    /\ run.dir /\ pidfile \notin Slots /\ Spend("launch")
    /\ proc' = [proc EXCEPT ![s] = [Off EXCEPT !.at = "boot"]]
    /\ UNCHANGED <<run, kid, pidfile, saved, creator>>

(* claim_pid_atomic, under the run lock: a recorded process that is alive   *)
(* with the recorded start identity keeps the run.                          *)
claim_pid_atomic(s) ==
    /\ proc[s].at = "boot"
    /\ IF run.dir /\ pidfile \notin Slots
       THEN pidfile' = s /\ At(s, "claimed") /\ creator' = creator
       ELSE pidfile' = pidfile /\ Leave(s) /\ creator' = answer(s, "error")
    /\ UNCHANGED <<run, kid, saved, odds>>

(* Tails are opened for the children the projections name, at the saved     *)
(* report cursor.                                                           *)
reopened(k) ==
    IF k \in linked THEN [Closed EXCEPT !.open = TRUE, !.pos = saved.cur[k]] ELSE Closed
(* The rest of the boot. Readiness is told last; a signal, or a state file  *)
(* that cannot be read, gives the claim back first; a manifest that cannot  *)
(* be read is told before the claim is given back.                          *)
Booted(s) ==
    /\ proc[s].at = "claimed"
    /\ \/ /\ ~proc[s].sig /\ run.dir
          /\ Become(s, "top", [Blank EXCEPT !.own = saved.own, !.cur = saved.cur,
                 !.tail = [k \in Kids |-> reopened(k)]])
          /\ creator' = answer(s, "ready") /\ UNCHANGED <<pidfile, odds>>
       \/ /\ IF proc[s].sig \/ ~run.dir THEN UNCHANGED odds ELSE Spend("fault")
          /\ Leave(s) /\ pidfile' = remove_if_owner(s)
          /\ creator' = answer(s, "error")
       \/ /\ ~proc[s].sig /\ run.dir /\ Spend("fault")
          /\ At(s, "undo") /\ creator' = answer(s, "error") /\ UNCHANGED pidfile
    /\ UNCHANGED <<run, kid, saved>>
BootUndone(s) ==
    /\ proc[s].at = "undo" /\ Leave(s) /\ pidfile' = remove_if_owner(s)
    /\ UNCHANGED <<run, kid, saved, creator, odds>>

(* await_ready gives up on a supervisor that is stuck. *)
CreatorGivesUp ==
    /\ creator.told = "wait" /\ Spend("fault")
    /\ creator' = [creator EXCEPT !.told = "timeout"]
    /\ UNCHANGED <<run, kid, pidfile, saved, proc>>

SupervisorCrash(s) ==
    /\ proc[s].at # "off" /\ Spend("crash")
    /\ Leave(s) /\ pidfile' = IF pidfile = s THEN StalePid ELSE pidfile
    /\ creator' = answer(s, "died")
    /\ run' = IF proc[s].at = "mark" THEN [run EXCEPT !.unmarked = @ + 1] ELSE run
    /\ UNCHANGED <<kid, saved>>

Signalled(s) ==
    /\ proc[s].at # "off" /\ ~proc[s].sig /\ Spend("signal")
    /\ proc' = [proc EXCEPT ![s].sig = TRUE]
    /\ UNCHANGED <<run, kid, pidfile, saved, creator>>

-----------------------------------------------------------------------------
(* The tick                                                                 *)

(* state::save never creates the directory. *)
save(mem) == IF run.dir THEN [own |-> mem.own, cur |-> mem.cur] ELSE saved

(* The head of the loop: a signal, or the directory gone for long enough.   *)
LeaveEarly(s) ==
    LET mem == proc[s].mem IN
    /\ proc[s].at = "top"
    /\ \/ /\ proc[s].sig
          /\ Leave(s) /\ saved' = save(mem) /\ pidfile' = remove_if_owner(s)
       \/ /\ ~proc[s].sig /\ ~run.dir /\ UNCHANGED <<saved, pidfile>>
          /\ IF mem.missing + 1 < MaxStreak
             THEN Become(s, "top", [mem EXCEPT !.missing = @ + 1])
             ELSE Leave(s)
    /\ UNCHANGED <<run, kid, creator, odds>>

(* The directory went during the tick: nothing of it is found any more.     *)
Blind(s) ==
    /\ proc[s].at \in {"kids", "lock", "rollup", "notify", "mark", "clean"}
    /\ ~run.dir /\ At(s, "top")
    /\ UNCHANGED <<run, kid, pidfile, saved, creator, odds>>

(* Loop 1. Every child.spawned opens a tail. The run's own terminal status  *)
(* saves the cursors at once.                                               *)
OwnTail(s) ==
    LET mem  == proc[s].mem
        new  == {run.log[i] : i \in mem.own + 1 .. Len(run.log)}
        mem2 == [mem EXCEPT !.own = Len(run.log), !.missing = 0,
                   !.tail = [k \in Kids |-> IF k \in new /\ ~@[k].open
                      THEN [Closed EXCEPT !.open = TRUE, !.pos = mem.cur[k]] ELSE @[k]]]
    IN
    /\ proc[s].at = "top" /\ ~proc[s].sig /\ run.dir
    /\ Become(s, "kids", mem2)
    /\ saved' = IF StatusLine \in new THEN save(mem2) ELSE saved
    /\ UNCHANGED <<run, kid, pidfile, creator, odds>>

-----------------------------------------------------------------------------
(* Loop 2: the children's logs.                                             *)

(* EventTail::poll stops at a rotten line until it is healed or skipped.    *)
readable(k, tail) ==
    IF kid[k].junk # Clear /\ tail.pos <= kid[k].junk /\ ~tail.skip
    THEN kid[k].junk ELSE Len(kid[k].log)
reports(k, a, b) == {i \in a + 1 .. b : kid[k].log[i] = "report"}
ended(k, a, b) == \E i \in a + 1 .. b : kid[k].log[i] \in Ends \cup {"report"}

(* supervisor.cursor_advanced, folded onto the parent node: it only grows,  *)
(* though a restarted supervisor reads old reports again.                   *)
cursor_advanced(old, seq) == IF seq > old THEN seq ELSE old

(* The lines of one poll, in order, up to b. *)
polled(mem, k, b) ==
    [mem EXCEPT !.cur[k] = Max({@} \cup reports(k, mem.tail[k].pos, b)),
                !.tail[k].pos = b,
                !.tail[k].done = @ \/ ended(k, mem.tail[k].pos, b)]
(* process_node_report failed: the tail goes back to just before the report. *)
unrecorded(mem, k, b) == [polled(mem, k, b) EXCEPT !.tail[k].done = FALSE]

Terminal == run.status \in Ends
(* The no-worker guard looks without the lock, several ticks in a row ...   *)
no_worker(mem) == /\ ~Terminal /\ run.worker = "none"
                  /\ \A k \in Kids : ~mem.tail[k].open
NoWorkerGuard(s, mem) ==
    LET n == IF no_worker(mem) /\ run.old THEN mem.quiet + 1 ELSE 0 IN
    Become(s, IF n >= MaxStreak THEN "lock" ELSE "rollup", [mem EXCEPT !.quiet = n, !.k = 1])

(* What the tail meets after the last line it could read. *)
rotten(k, tail, b) == kid[k].junk = b /\ readable(k, tail) = b /\ ~tail.skip

(* One child after the other. Recording a report may fail, which rewinds    *)
(* the tail; a rotten line is taken out of the child's log, or skipped in   *)
(* memory when that fails.                                                  *)
ChildTail(s) ==
    LET mem  == proc[s].mem
        k    == mem.k
        tail == mem.tail[k]
        b    == readable(k, tail)
        fresh == {i \in reports(k, tail.pos, b) : i > mem.cur[k]}
        stored(c) == LET R == {i \in fresh : i <= c}
                     IN IF R = {} THEN run
                        ELSE [run EXCEPT !.cursor[k] = cursor_advanced(@, Max(R))]
        on(m) == IF k + 1 \in Kids THEN Become(s, "kids", [m EXCEPT !.k = k + 1])
                 ELSE NoWorkerGuard(s, m)
    IN
    /\ proc[s].at = "kids" /\ run.dir
    /\ \/ /\ ~tail.open \/ tail.done
          /\ on(mem) /\ UNCHANGED <<run, kid, odds>>
       \/ /\ tail.open /\ ~tail.done /\ run' = stored(b)
          /\ IF rotten(k, tail, b)
             THEN \/ /\ kid' = [kid EXCEPT ![k].junk = Clear]
                     /\ on(polled(mem, k, b)) /\ UNCHANGED odds
                  \/ /\ Spend("fault") /\ UNCHANGED kid
                     /\ on([polled(mem, k, b) EXCEPT !.tail[k].skip = TRUE])
             ELSE on(polled(mem, k, b)) /\ UNCHANGED <<kid, odds>>
       \/ /\ tail.open /\ ~tail.done /\ Spend("fault")
          /\ \E i \in fresh : run' = stored(i - 1) /\ on(unrecorded(mem, k, i - 1))
          /\ UNCHANGED kid
    /\ UNCHANGED <<pidfile, saved, creator>>

-----------------------------------------------------------------------------
(* The end of the run                                                       *)

WorkerStatus == IF run.worker = "merged" THEN "done" ELSE run.worker
Finish(status) == run' = [run EXCEPT !.status = status, !.log = Append(@, StatusLine)]

(* The no-worker guard looks again with the lock.                           *)
NoWorkerFails(s) ==
    /\ proc[s].at = "lock" /\ run.dir
    /\ Become(s, "rollup", [proc[s].mem EXCEPT !.quiet = 0])
    /\ IF no_worker(proc[s].mem) THEN Finish("failed") ELSE UNCHANGED run
    /\ UNCHANGED <<kid, pidfile, saved, creator, odds>>

(* Faulty variant: the tails this process has opened are all the children. *)
children_all_terminal_cached(mem) ==
    \A k \in Kids : mem.tail[k].open => mem.tail[k].done /\ kid_status(k) # "live"

(* child_completion_evidence: membership and statuses are read afresh under *)
(* the lock, consumption comes from the tails.                              *)
children_all_terminal(mem) ==
    /\ \A k \in linked : kid_status(k) # "live" /\ mem.tail[k].open /\ mem.tail[k].done
    /\ \A k \in Kids : mem.tail[k].open => mem.tail[k].done
children_all_successful == \A k \in linked : kid_status(k) = "done"

(* rollup_decision: the worker's status, or the recovery of a failed run by *)
(* a confirmed merge.                                                       *)
rollup_decision(mem) ==
    IF run.status \in {"done", "cancelled"} \/ ~children_all_terminal(mem)
         \/ WorkerStatus \notin Ends
    THEN "none"
    ELSE IF run.status = "failed"
         THEN IF run.worker = "merged" /\ children_all_successful THEN "done" ELSE "none"
    ELSE WorkerStatus

Rollup(s) ==
    /\ proc[s].at = "rollup" /\ run.dir /\ At(s, "notify")
    /\ IF rollup_decision(proc[s].mem) = "none" THEN UNCHANGED <<run, odds>>
       ELSE \/ Finish(rollup_decision(proc[s].mem)) /\ UNCHANGED odds
            \/ Spend("fault") /\ UNCHANGED run
    /\ UNCHANGED <<kid, pidfile, saved, creator>>

(* maybe_fire. The marker is looked up and written under one lock; the hook *)
(* is started in between.                                                   *)
maybe_fire(s) ==
    LET mem == proc[s].mem IN
    /\ proc[s].at = "notify" /\ run.dir
    /\ IF ~Terminal \/ mem.notified THEN At(s, "clean") /\ UNCHANGED <<run, odds>>
       ELSE \/ /\ run.marked /\ UNCHANGED <<run, odds>>
               /\ Become(s, "clean", [mem EXCEPT !.notified = TRUE])
            \/ /\ ~run.marked /\ UNCHANGED odds
               /\ run' = [run EXCEPT !.fired = @ + 1]
               /\ Become(s, "mark", [mem EXCEPT !.tries = @ + 1])
            \/ /\ Spend("fault") /\ UNCHANGED run
               /\ Become(s, "clean", [mem EXCEPT !.tries = @ + 1,
                                                 !.notified = mem.tries + 1 >= MaxNotify])
    /\ UNCHANGED <<kid, pidfile, saved, creator>>
Notified(s) ==
    /\ proc[s].at = "mark" /\ run.dir
    /\ Become(s, "clean", [proc[s].mem EXCEPT !.notified = TRUE])
    /\ \/ run' = [run EXCEPT !.marked = TRUE] /\ UNCHANGED odds
       \/ Spend("fault") /\ run' = [run EXCEPT !.unmarked = @ + 1]
    /\ UNCHANGED <<kid, pidfile, saved, creator>>

all_work_done(mem) == Terminal /\ \A k \in Kids : mem.tail[k].open => mem.tail[k].done

may_leave(mem) == mem.notified /\ mem.cleaned /\ all_work_done(mem)

(* cleanup_terminal_nodes and cleanup_managed_session (module Teardown) are *)
(* done, or tried again on the next tick; the cursors are saved; and the    *)
(* process leaves when all work is done.                                    *)
CleanSaveLeave(s) ==
    LET mem  == proc[s].mem
        then(m) == /\ saved' = save(m)
                   /\ IF may_leave(m) THEN Leave(s) /\ pidfile' = remove_if_owner(s)
                      ELSE Become(s, "top", m) /\ UNCHANGED pidfile
    IN
    /\ proc[s].at = "clean" /\ run.dir
    /\ IF ~Terminal \/ mem.cleaned THEN then(mem) /\ UNCHANGED odds
       ELSE \/ then([mem EXCEPT !.cleaned = TRUE]) /\ UNCHANGED odds
            \/ then(mem) /\ Spend("fault")
    /\ UNCHANGED <<run, kid, creator>>

-----------------------------------------------------------------------------
SupervisorSteps(s) ==
    \/ claim_pid_atomic(s) \/ Booted(s) \/ BootUndone(s) \/ LeaveEarly(s) \/ Blind(s)
    \/ OwnTail(s) \/ ChildTail(s) \/ NoWorkerFails(s)
    \/ Rollup(s) \/ maybe_fire(s) \/ Notified(s) \/ CleanSaveLeave(s)

KidSteps(k) ==
    \/ KidReports(k) \/ KidCancelled(k) \/ KidLateReport(k) \/ KidRollup(k)
    \/ KidLogRots(k)

(* Everybody has left. *)
AllGone == (\A s \in Slots : proc[s].at = "off") /\ UNCHANGED supervisor_vars

SupervisorNext ==
    \/ AllGone
    \/ WorkerMoves \/ TimePasses \/ LinkKid \/ ParentCancelled \/ DirVanishes
    \/ CreatorGivesUp
    \/ \E k \in Kids : KidSteps(k)
    \/ \E s \in Slots : \/ SupervisorSteps(s) \/ Reattach(s) \/ SupervisorCrash(s)
                        \/ Signalled(s)

(* A process keeps running its loop; nothing else is owed to it. *)
SupervisorFairness == \A s \in Slots : WF_supervisor_vars(SupervisorSteps(s))

SupervisorSpec == SupervisorInit /\ [][SupervisorNext]_supervisor_vars /\ SupervisorFairness

-----------------------------------------------------------------------------
(* The values the model moves through. *)
SupervisorTypeOK ==
    /\ run.status \in Ends \cup {"live"}
    /\ run.worker \in {"none", "live", "done", "failed", "merged"}
    /\ \A k \in Kids : run.cursor[k] \in 0 .. Len(kid[k].log)
    /\ pidfile \in Slots \cup {NoPid, StalePid}
    /\ \A s \in Slots : \A k \in Kids : proc[s].mem.tail[k].pos <= Len(kid[k].log)
    /\ creator.told \in {"wait", "ready", "error", "died", "timeout"}

Ticking(s) == proc[s].at \notin {"off", "boot", "claimed", "undo"}

(* One supervisor per run: while the directory stands, a process past the   *)
(* claim is the one supervisor.pid records (pid_file.rs, claim_pid_atomic). *)
OneSupervisor == \A s \in Slots : proc[s].at \notin {"off", "boot"} /\ run.dir => pidfile = s

(* `run create` hears "ready" only of a supervisor that owns the run, and   *)
(* hears of a failure only when that supervisor is gone and has given its   *)
(* claim back, or is doing nothing else (boot_supervisor, dispatch).        *)
CreatorHearsTruth ==
    creator.told = "wait" /\ creator'.told # "wait" =>
      CASE creator'.told = "ready" -> pidfile' = creator.slot
        [] creator'.told = "error" ->
             \/ proc'[creator.slot].at = "undo"
             \/ /\ proc'[creator.slot].at = "off"
                /\ pidfile' # creator.slot
                /\ pidfile' = StalePid => pidfile = StalePid
        [] creator'.told = "died"  -> proc'[creator.slot].at = "off"
        [] OTHER -> TRUE

(* The roll-up of a live run waits for every child the projections name,    *)
(* also one linked after this tick read its own log.                        *)
RollupWaitsForKids ==
    run.status = "live" /\ run'.status \in {"done", "failed"} /\ run.worker # "none" =>
      \A k \in linked : kid_status(k) # "live"

FirstEnd(k) == Min(KidEnd(k))
(* When the run is rolled up, each report that preceded the end of a child  *)
(* is recorded on the parent node, whatever crashed or failed on the way.   *)
RollupReadsReports ==
    run.status = "live" /\ run'.status \in {"done", "failed"} /\ run.worker # "none" =>
      \A k \in linked : \A i \in reports(k, 0, Len(kid[k].log)) :
          KidEnd(k) # {} /\ i < FirstEnd(k) => run.cursor[k] >= i

(* A run fails for want of a worker only if it has none at that moment.     *)
NoWorkerIsTrue ==
    run.status = "live" /\ run'.status = "failed" =>
      run.worker \in {"none", "failed"}

(* A failed run recovers only with a confirmed merge and with every child   *)
(* done.                                                                    *)
RecoveryIsComplete ==
    run.status = "failed" /\ run'.status # "failed" =>
      /\ run'.status = "done" /\ run.worker = "merged"
      /\ \A k \in linked : kid_status(k) = "done"

(* The completion hook runs again only when its marker was lost.            *)
HookOncePerMarker == run.fired <= run.unmarked + 1

(* A supervisor leaves a finished run only after the hook ran, by it or by  *)
(* an earlier one, or after it gave up on it; and after its children.       *)
LeavesWhenDone ==
    \A s \in Slots : proc[s].at = "clean" /\ proc'[s].at = "off" /\ odds'.crash = odds.crash =>
      /\ run.fired > 0 \/ proc[s].mem.tries >= MaxNotify
      /\ \A k \in linked : proc[s].mem.tail[k].open => kid[k].log # <<>>

(* `run create` is always answered. *)
CreatorAnswered == creator.told = "wait" ~> creator.told # "wait"

(* Nothing is left to do in the run, and the last word of every child is    *)
(* how it ended.                                                            *)
Settled ==
    /\ run.dir /\ (Terminal \/ WorkerStatus \in Ends)
    /\ \A k \in linked : kid[k].log # <<>> /\ kid[k].log[Len(kid[k].log)] \in Ends
(* A supervisor that keeps running winds down a run in which nothing is     *)
(* left to do, wherever its predecessors stopped.                           *)
WindsDown == []<>(\A s \in Slots : ~(Ticking(s) /\ Settled))

\* There is one supervisor, what it tells is so, and the verdict it passes on
\* the run accounts for every child, over any number of deaths and restarts.
SupervisesSoundly ==
    [][ /\ SupervisorTypeOK' /\ OneSupervisor' /\ HookOncePerMarker'
        /\ CreatorHearsTruth /\ LeavesWhenDone
        /\ RollupWaitsForKids /\ RollupReadsReports
        /\ NoWorkerIsTrue /\ RecoveryIsComplete ]_supervisor_vars

=============================================================================
