---------------------------- MODULE ChildStartup ----------------------------
(* How the supervisor of a parent run starts the supervisors of its         *)
(* children (supervise/mod.rs: fork_child_supervisor, the ChildSpawn state  *)
(* machine, the reseeding after a restart, the signals when the run         *)
(* directory is gone). A fork tells nothing; a child counts as running only *)
(* when its own pid file names a live process. The state machine lives in   *)
(* memory, the confirmed children in supervisor.state.json.                 *)
EXTENDS Naturals, FiniteSets

CONSTANTS Children,   \* 1 .. n, in the order they are linked
          MaxTries,   \* CHILD_SPAWN_MAX_ATTEMPTS
          GoneTicks,  \* SELF_TERMINATE_TICKS
          Lucks       \* bounds: troubles of each kind

Troubles == {"launch", "crash", "vanish", "boot", "death", "fork"}
ASSUME StartupAssumption ==
    /\ Cardinality(Children) \in Nat \ {0} /\ Children = 1 .. Cardinality(Children)
    /\ MaxTries \in Nat \ {0} /\ GoneTicks \in Nat /\ Lucks \subseteq [Troubles -> Nat]

VARIABLES links,   \* how many children the parent's log and nodes name
          child,   \* the children and the supervisors booting for them
          disk,    \* supervisor.state.json of the parent
          par,     \* the parent's supervisor process
          home,    \* whether the parent's run directory is there
          luck     \* what is left of the bounds

startup_vars == <<links, child, disk, par, home, luck>>

Idle == [st |-> "no", n |-> 0]
(* What a record of a child in spawned_children says: nothing, the pid 0    *)
(* that older versions wrote for an unconfirmed child, or a process.        *)
Unrecorded == [k \in Children |-> "no"]
Down == [at |-> "down", own |-> 0, spawned |-> Unrecorded, tails |-> {},
         start |-> [k \in Children |-> Idle], missing |-> 0]

(* A fresh run; or one that an older version was supervising. *)
StartupInit ==
    /\ child = [k \in Children |-> [sup |-> FALSE, boots |-> 0, over |-> FALSE,
                                 died |-> FALSE]]
    /\ home = TRUE /\ luck \in Lucks
    /\ \/ links = 0 /\ disk = [own |-> 0, spawned |-> Unrecorded]
          /\ par = [Down EXCEPT !.at = "tick"]
       \/ links = 1 /\ disk = [own |-> 1, spawned |-> [Unrecorded EXCEPT ![1] = "zero"]]
          /\ par = Down

Use(kind) == luck[kind] > 0 /\ luck' = [luck EXCEPT ![kind] = @ - 1]
Linked == 1 .. links
Confirmed(p) == {k \in Children : p.spawned[k] = "pid"}
Forked(ks) == [k \in Children |-> IF k \in ks THEN [child[k] EXCEPT !.boots = @ + 1] ELSE child[k]]

-----------------------------------------------------------------------------
ChildLinked ==
    /\ home /\ links + 1 \in Children /\ links' = links + 1
    /\ UNCHANGED <<child, disk, par, home, luck>>

(* A forked process claims the child's pid file, or finds it claimed, or    *)
(* dies on the way.                                                         *)
ChildBoots(k) ==
    /\ child[k].boots > 0
    /\ \/ child' = [child EXCEPT ![k].boots = @ - 1, ![k].sup = TRUE] /\ UNCHANGED luck
       \/ child' = [child EXCEPT ![k].boots = @ - 1] /\ Use("boot")
    /\ UNCHANGED <<links, disk, par, home>>
(* The child ends; its supervisor leaves then, or dies earlier. *)
ChildEnds(k) ==
    /\ child[k].sup /\ ~child[k].over
    /\ child' = [child EXCEPT ![k].over = TRUE]
    /\ UNCHANGED <<links, disk, par, home, luck>>
ChildLeaves(k) ==
    /\ child[k].sup /\ (IF child[k].over THEN UNCHANGED luck ELSE Use("death"))
    /\ child' = [child EXCEPT ![k].sup = FALSE, ![k].died = @ \/ ~child[k].over]
    /\ UNCHANGED <<links, disk, par, home>>

-----------------------------------------------------------------------------
(* Faulty variant: pid 0 is taken over as if it were a process. *)
repaired_not(spawned) == [k \in Children |-> IF spawned[k] = "zero" THEN "pid" ELSE spawned[k]]
(* quarantine_corrupt_persisted_children and the repair after it: what does *)
(* not name a process is dropped.                                           *)
repaired(spawned) == [k \in Children |-> IF spawned[k] = "zero" THEN "no" ELSE spawned[k]]

(* reseed_child_spawns: a child that is neither confirmed nor ended is      *)
(* being started again, as far as anybody knows.                            *)
reseed_child_spawns(spawned) ==
    [k \in Children |-> IF k \in Linked /\ spawned[k] = "no" /\ ~child[k].over
                        THEN [st |-> "starting", n |-> 1] ELSE Idle]

(* Tails come from the node projections, not from the state file. *)
ParentBoots ==
    /\ par.at = "down" /\ home /\ Use("launch")
    /\ LET spawned == repaired(disk.spawned) IN
       par' = [Down EXCEPT !.at = "tick", !.own = disk.own, !.spawned = spawned,
                           !.tails = Linked, !.start = reseed_child_spawns(spawned)]
    /\ UNCHANGED <<links, child, disk, home>>

ParentDies ==
    /\ par.at # "down" /\ Use("crash") /\ par' = Down
    /\ UNCHANGED <<links, child, disk, home>>

HomeVanishes ==
    /\ home /\ Use("vanish") /\ home' = FALSE
    /\ UNCHANGED <<links, child, disk, par>>

(* At most one fork of a tick fails: the child's directory is missing, or   *)
(* the fork itself fails.                                                   *)
Misses(ks, bad) == /\ bad \subseteq ks /\ Cardinality(bad) <= 1
                   /\ IF bad = {} THEN UNCHANGED luck ELSE Use("fork")

(* Loop 1, for each child.spawned not read before: a tail in any case, and  *)
(* a fork unless the child is confirmed or being started.                   *)
ForkNew ==
    LET new  == par.own + 1 .. links
        todo == {k \in new : par.spawned[k] = "no" /\ par.start[k].st = "no"} IN
    /\ par.at = "tick" /\ home
    /\ \E bad \in SUBSET todo :
         /\ Misses(todo, bad)
         /\ child' = Forked(todo \ bad)
         /\ par' = [par EXCEPT !.at = "reconcile", !.own = links, !.missing = 0,
              !.tails = @ \cup new,
              !.start = [k \in Children |-> IF k \in todo
                 THEN [st |-> IF k \in bad THEN "failed" ELSE "starting", n |-> 1]
                 ELSE @[k]]]
    /\ UNCHANGED <<links, disk, home>>

(* Faulty variant: a child that was given up on is not looked at again. *)
child_spawn_action_late(st, live, due) ==
    CASE st.st = "starting" /\ live             -> "confirm"
      [] st.st = "starting" /\ ~live /\ due     -> "mark"
      [] st.st = "failed" /\ st.n < MaxTries /\ due -> "retry"
      [] OTHER                                  -> "wait"
(* What to do with a child: an identified live process always wins; the     *)
(* deadline of a boot, and the backoff after a failed one, may have passed  *)
(* ("due") or not.                                                          *)
child_spawn_action(st, live, due) ==
    CASE live                                   -> "confirm"
      [] ~live /\ st.st = "starting" /\ due     -> "mark"
      [] ~live /\ st.st = "failed" /\ st.n < MaxTries /\ due -> "retry"
      [] OTHER                                  -> "wait"

Tracked == {k \in Children : par.start[k].st # "no"}
(* reconcile_child_spawns, with the clock having passed what it has passed. *)
Reconcile(due) ==
    LET does(a) == {k \in Tracked :
                      child_spawn_action(par.start[k], child[k].sup, k \in due) = a} IN
    /\ par.at = "reconcile" /\ home
    /\ \E bad \in SUBSET does("retry") :
         /\ Misses(does("retry"), bad)
         /\ child' = Forked(does("retry") \ bad)
         /\ par' = [par EXCEPT !.at = "save",
              !.spawned = [k \in Children |-> IF k \in does("confirm") THEN "pid" ELSE @[k]],
              !.start = [k \in Children |->
                CASE k \in does("confirm") -> Idle
                  [] k \in does("mark")    -> [@[k] EXCEPT !.st = "failed"]
                  [] k \in does("retry")   -> [st |-> IF k \in bad THEN "failed" ELSE "starting",
                                               n |-> @[k].n + 1]
                  [] OTHER                 -> @[k]]]
    /\ UNCHANGED <<links, disk, home>>
ReconcileSome == \E due \in SUBSET Tracked : Reconcile(due)

(* The rest of the tick (module Supervisor) and the save at its end. *)
SaveTick ==
    /\ par.at = "save" /\ home
    /\ disk' = [own |-> par.own, spawned |-> par.spawned]
    /\ par' = [par EXCEPT !.at = "tick"]
    /\ UNCHANGED <<links, child, home, luck>>

(* signal_children_term: the confirmed children and those with a tail.      *)
signalled == Confirmed(par) \cup par.tails

(* The directory stays away for some ticks: the process leaves, and stops   *)
(* the child supervisors it finds alive.                                    *)
Vanished ==
    /\ par.at # "down" /\ ~home
    /\ IF par.at # "tick" THEN par' = [par EXCEPT !.at = "tick"] /\ UNCHANGED child
       ELSE IF par.missing + 1 < GoneTicks
       THEN par' = [par EXCEPT !.missing = @ + 1] /\ UNCHANGED child
       ELSE /\ par' = Down
            /\ child' = [k \in Children |-> IF k \in signalled
                           THEN [child[k] EXCEPT !.sup = FALSE] ELSE child[k]]
    /\ UNCHANGED <<links, disk, home, luck>>

NobodyHome == par.at = "down" /\ UNCHANGED startup_vars

ParentSteps == ForkNew \/ ReconcileSome \/ SaveTick \/ Vanished
StartupNext ==
    \/ NobodyHome
    \/ ChildLinked \/ ParentBoots \/ ParentDies \/ HomeVanishes \/ ParentSteps
    \/ \E k \in Children : ChildBoots(k) \/ ChildEnds(k) \/ ChildLeaves(k)

(* The loop of a live process goes on; the clock passes every deadline.     *)
StartupFairness ==
    /\ WF_startup_vars(ParentSteps)
    /\ SF_startup_vars(Reconcile(Tracked))
    /\ \A k \in Children : WF_startup_vars(ChildBoots(k))

StartupSpec == StartupInit /\ [][StartupNext]_startup_vars /\ StartupFairness

-----------------------------------------------------------------------------
(* The values the model moves through; a boot is tried a bounded number of  *)
(* times.                                                                   *)
StartupTypeOK ==
    /\ links \in 0 .. Cardinality(Children)
    /\ par.at \in {"down", "tick", "reconcile", "save"} /\ par.own <= links
    /\ \A k \in Children :
         /\ par.start[k].st \in {"no", "starting", "failed"} /\ par.start[k].n <= MaxTries
         /\ {par.spawned[k], disk.spawned[k]} \subseteq {"no", "zero", "pid"}
         /\ par.spawned[k] # "no" => par.start[k] = Idle
    /\ home \in BOOLEAN

(* A child is recorded as started only while its own pid file names a live  *)
(* process: never on the strength of the fork, never at pid 0.              *)
RecordedIsRunning ==
    \A k \in Children : par.at # "down" /\ par'.spawned[k] # par.spawned[k] =>
      par'.at = "down" \/ (par'.spawned[k] = "pid" /\ child[k].sup)

(* A child supervisor that is up is adopted, never forked a second time by  *)
(* the reconcile pass, even one that comes up after it was given up on.     *)
AdoptsRunningChild ==
    \A k \in Children : par.at = "reconcile" /\ child'[k].boots > child[k].boots =>
      ~child[k].sup

(* The child.spawned of a child that a restarted supervisor has reseeded is *)
(* read again without a second fork.                                        *)
ReseededNotForkedAgain ==
    \A k \in Children : par.at = "tick" /\ child'[k].boots > child[k].boots =>
      par.start[k].st = "no" /\ par.spawned[k] # "pid"

(* A supervisor that finds its run directory gone takes the running child   *)
(* supervisors with it, also those of a dead predecessor.                   *)
VanishTakesChildren ==
    par.at = "tick" /\ par'.at = "down" /\ ~home /\ luck' = luck =>
      \A k \in Children : ~child'[k].sup

(* Under a supervisor that stays, each linked child is confirmed, ends, or  *)
(* uses up its attempts; also after an upgrade from a version that recorded *)
(* unconfirmed children.                                                    *)
StartupSettles ==
    []<>(\A k \in Linked :
           \/ par.at = "down" \/ child[k].over \/ child[k].sup
           \/ par.spawned[k] = "pid" /\ child[k].died
           \/ par.start[k] = [st |-> "failed", n |-> MaxTries])

\* A child gets one supervisor: it is forked only when none is up, counted
\* only when one is, and taken along when the run is gone, also by a parent
\* that was restarted in between.
OneForkPerChild ==
    [][ /\ StartupTypeOK' /\ RecordedIsRunning /\ AdoptsRunningChild
        /\ ReseededNotForkedAgain /\ VanishTakesChildren ]_startup_vars

=============================================================================
