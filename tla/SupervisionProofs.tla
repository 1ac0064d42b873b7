-------------------------- MODULE SupervisionProofs ---------------------------
(***************************************************************************)
(* Proofs about those who look after a run: the parent that starts child   *)
(* supervisors (ChildStartup) and those who watch a run (Observers).       *)
(*                                                                         *)
(* The parent: what it knows of a child, recorded, starting or failed, is  *)
(* never behind what runs, as it follows the log of every child that runs  *)
(* or boots (OneEach).                                                     *)
(*                                                                         *)
(* The observers: a run that a wait counted has ended for good or left its *)
(* signal in the verdict that the wait keeps; the log is half lines and    *)
(* their rests in turn, of which the follower has read so many; a page is  *)
(* fired once more than it was lost exactly while it is marked or about to *)
(* be (Attentive).                                                         *)
(***************************************************************************)
EXTENDS ChildStartup, Observers, SequenceTheorems, TLAPS

-------------------------------------------------------------------------------
(* The startup of child supervisors.                                       *)

ChildSet == [sup : BOOLEAN, boots : Nat, over : BOOLEAN, died : BOOLEAN]
StartSet == [st : {"no", "starting", "failed"}, n : 0 .. MaxTries]
ParFields == {"at", "own", "spawned", "tails", "start", "missing"}

\* The variables have their types; what the parent has read of its log is in
\* it; a child recorded as running is not being started.
StartTyped ==
  /\ links \in 0 .. Cardinality(Children) /\ home \in BOOLEAN
  /\ child \in [Children -> ChildSet]
  /\ disk = [x \in {"own", "spawned"} |-> disk[x]]
  /\ disk.own \in 0 .. links /\ disk.spawned \in [Children -> {"no", "zero", "pid"}]
  /\ par = [x \in ParFields |-> par[x]]
  /\ par.at \in {"down", "tick", "reconcile", "save"} /\ par.own \in 0 .. links
  /\ par.spawned \in [Children -> {"no", "pid"}] /\ par.start \in [Children -> StartSet]
  /\ \A k \in Children : par.spawned[k] # "no" => par.start[k] = Idle
  /\ luck \in [Troubles -> Nat]

\* A child supervisor that runs or boots belongs to a linked child, and a
\* parent that is up follows the log of that child.
Followed ==
  /\ \A k \in Children : child[k].sup \/ child[k].boots > 0 => k <= links
  /\ par.at # "down" => \A k \in Children :
       /\ child[k].sup \/ child[k].boots > 0 => k \in par.tails
       /\ par.start[k].st # "no" => k \in par.tails /\ k <= links

OneEach == StartTyped /\ Followed

(* What the steps make of the record of a child is such a record. *)
LEMMA ChildEdits ==
  ASSUME NEW c \in ChildSet
  PROVE  /\ [c EXCEPT !.boots = @ + 1] \in ChildSet
         /\ [c EXCEPT !.boots = @ + 1].sup = c.sup
         /\ c.boots > 0 => [c EXCEPT !.boots = @ - 1] \in ChildSet
         /\ c.boots > 0 => [c EXCEPT !.boots = @ - 1, !.sup = TRUE] \in ChildSet
         /\ [c EXCEPT !.over = TRUE] \in ChildSet
         /\ [c EXCEPT !.sup = FALSE] \in ChildSet
<1>1. c.boots + 1 \in Nat /\ (c.boots > 0 => c.boots - 1 \in Nat)
  BY SMTT(60) DEF ChildSet
<1> QED
  BY Zenon, <1>1 DEF ChildSet

(* A supervisor that leaves a child whose end it did not see died early. *)
LEMMA ChildLeft ==
  ASSUME NEW c \in ChildSet
  PROVE  [c EXCEPT !.sup = FALSE, !.died = c.died \/ ~c.over] \in ChildSet
BY Zenon DEF ChildSet

(* What is spent is spent. *)
LEMMA UseTyped ==
  ASSUME luck \in [Troubles -> Nat], NEW kind \in Troubles, Use(kind)
  PROVE  luck' \in [Troubles -> Nat] /\ luck'[kind] # luck[kind]
<1>1. luck[kind] \in Nat /\ luck[kind] > 0
  BY Zenon DEF Use
<1>2. luck[kind] - 1 \in Nat /\ luck[kind] - 1 # luck[kind]
  BY SMTT(60), <1>1
<1> QED
  BY Zenon, <1>2 DEF Use

(* Forks count a boot more for each child forked. *)
LEMMA ForkedTyped ==
  ASSUME child \in [Children -> ChildSet], NEW ks
  PROVE  /\ Forked(ks) \in [Children -> ChildSet]
         /\ \A k \in Children : Forked(ks)[k].sup = child[k].sup
         /\ \A k \in Children : k \notin ks => Forked(ks)[k] = child[k]
<1>1. \A k \in Children : child[k] \in ChildSet
  BY Zenon
<1>2. Forked(ks) = [k \in Children |-> IF k \in ks THEN [child[k] EXCEPT !.boots = @ + 1] ELSE child[k]]
  BY Zenon DEF Forked
<1>3. \A k \in Children : Forked(ks)[k] = IF k \in ks THEN [child[k] EXCEPT !.boots = @ + 1] ELSE child[k]
  BY Zenon, <1>2
<1>4. \A k \in Children : Forked(ks)[k] \in ChildSet /\ Forked(ks)[k].sup = child[k].sup
  BY Zenon, <1>1, <1>3, ChildEdits
<1> QED
  BY Zenon, <1>2, <1>3, <1>4

(* The start of a child is one of: idle, the first attempt, the next one,  *)
(* a failed attempt.                                                       *)
LEMMA StartEdits ==
  /\ Idle \in StartSet
  /\ \A st \in {"starting", "failed"} : [st |-> st, n |-> 1] \in StartSet
  /\ \A a \in StartSet : [a EXCEPT !.st = "failed"] \in StartSet
  /\ \A a \in StartSet : a.n < MaxTries =>
       \A st \in {"starting", "failed"} : [st |-> st, n |-> a.n + 1] \in StartSet
<1>1. 0 \in 0 .. MaxTries /\ 1 \in 0 .. MaxTries
  BY SMTT(60), StartupAssumption
<1>2. \A a \in StartSet : a.n < MaxTries => a.n + 1 \in 0 .. MaxTries
  BY SMTT(60), StartupAssumption DEF StartSet
<1> QED
  BY Zenon, <1>1, <1>2 DEF Idle, StartSet

(* A process that is down has no memory. *)
LEMMA DownRecord ==
  /\ Down = [x \in ParFields |-> Down[x]] /\ Down.at = "down" /\ Down.own = 0
  /\ Down.spawned \in [Children -> {"no", "pid"}] /\ Down.start \in [Children -> StartSet]
  /\ \A k \in Children : Down.spawned[k] = "no" /\ Down.start[k] = Idle /\ Down.start[k].st = "no"
BY Zenon, StartEdits DEF Down, ParFields, Unrecorded, Idle

(* A fresh run, and one taken over from an older version, are in order. *)
LEMMA OneEachInit == StartupInit => OneEach
<1> SUFFICES ASSUME StartupInit PROVE OneEach
  BY Zenon
<1>1. 0 \in 0 .. Cardinality(Children) /\ 1 \in 0 .. Cardinality(Children) /\ 1 \in 0 .. 1
      /\ 0 \in 0 .. 0 /\ 0 \in 0 .. 1 /\ ~(0 > 0) /\ 1 \in Children /\ 0 \in Nat
  BY SMTT(60), StartupAssumption
<1>2. /\ child \in [Children -> ChildSet]
      /\ \A k \in Children : ~child[k].sup /\ ~(child[k].boots > 0)
  BY Zenon, <1>1 DEF StartupInit, ChildSet
<1>3. luck \in [Troubles -> Nat] /\ home \in BOOLEAN
  BY Zenon, StartupAssumption DEF StartupInit
<1>4. CASE links = 0 /\ disk = [own |-> 0, spawned |-> Unrecorded] /\ par = [Down EXCEPT !.at = "tick"]
  <2>1. /\ disk = [x \in {"own", "spawned"} |-> disk[x]] /\ disk.own = 0
        /\ disk.spawned \in [Children -> {"no", "zero", "pid"}]
    BY Zenon, <1>4 DEF Unrecorded
  <2>2. /\ par = [x \in ParFields |-> par[x]] /\ par.at = "tick" /\ par.own = Down.own
        /\ par.spawned = Down.spawned /\ par.start = Down.start
    BY Zenon, <1>4, DownRecord DEF ParFields
  <2>3. /\ par.own = 0 /\ par.spawned \in [Children -> {"no", "pid"}]
        /\ par.start \in [Children -> StartSet]
        /\ \A k \in Children : par.spawned[k] = "no" /\ par.start[k].st = "no"
    BY Zenon, <2>2, DownRecord
  <2>4. StartTyped
    BY Zenon, <1>1, <1>2, <1>3, <1>4, <2>1, <2>2, <2>3 DEF StartTyped
  <2>5. Followed
    BY Zenon, <1>2, <2>3 DEF Followed
  <2> QED
    BY Zenon, <2>4, <2>5 DEF OneEach
<1>5. CASE links = 1 /\ disk = [own |-> 1, spawned |-> [Unrecorded EXCEPT ![1] = "zero"]] /\ par = Down
  <2>1. /\ disk = [x \in {"own", "spawned"} |-> disk[x]] /\ disk.own = 1
        /\ disk.spawned \in [Children -> {"no", "zero", "pid"}]
    BY Zenon, <1>5 DEF Unrecorded
  <2>2. StartTyped
    BY Zenon, <1>1, <1>2, <1>3, <1>5, <2>1, DownRecord DEF StartTyped
  <2>3. Followed
    BY Zenon, <1>2, <1>5, DownRecord DEF Followed
  <2> QED
    BY Zenon, <2>2, <2>3 DEF OneEach
<1> QED
  BY Zenon, <1>4, <1>5 DEF StartupInit

(* A step of a child that forks nothing is none of the parent's business. *)
LEMMA ChildAlone ==
  ASSUME OneEach, UNCHANGED <<links, disk, par, home>>,
         child' \in [Children -> ChildSet], luck' \in [Troubles -> Nat],
         \A k \in Children : child'[k].sup \/ child'[k].boots > 0 =>
                             child[k].sup \/ child[k].boots > 0
  PROVE  OneEach'
<1>1. StartTyped'
  BY Zenon DEF OneEach, StartTyped
<1>2. Followed'
  BY Zenon DEF OneEach, Followed
<1> QED
  BY Zenon, <1>1, <1>2 DEF OneEach

(* A parent that goes down forgets. *)
LEMMA GoesDown ==
  ASSUME OneEach, UNCHANGED <<links, disk, home>>, par' = Down,
         child' \in [Children -> ChildSet], luck' \in [Troubles -> Nat],
         \A k \in Children : child'[k].sup \/ child'[k].boots > 0 =>
                             child[k].sup \/ child[k].boots > 0
  PROVE  OneEach'
<1>1. 0 \in 0 .. links
  BY SMTT(60) DEF OneEach, StartTyped
<1>2. StartTyped'
  BY Zenon, <1>1, DownRecord DEF OneEach, StartTyped
<1>3. Followed'
  BY Zenon, DownRecord DEF OneEach, Followed
<1> QED
  BY Zenon, <1>2, <1>3 DEF OneEach

(* Every step of the children, of the parent and of their surroundings     *)
(* keeps the books in order.                                               *)
LEMMA OneEachStep == OneEach /\ [StartupNext]_startup_vars => OneEach'
<1> SUFFICES ASSUME OneEach, [StartupNext]_startup_vars PROVE OneEach'
  BY Zenon
<1>0. /\ child \in [Children -> ChildSet] /\ luck \in [Troubles -> Nat]
      /\ \A k \in Children : child[k] \in ChildSet
  BY Zenon DEF OneEach, StartTyped
<1>1. CASE UNCHANGED startup_vars
  BY Zenon, <1>0, <1>1, ChildAlone DEF startup_vars
<1>2. CASE ChildLinked
  <2>1. /\ links' \in 0 .. Cardinality(Children) /\ disk.own \in 0 .. links'
        /\ par.own \in 0 .. links'
    BY SMTT(60), <1>2, StartupAssumption DEF ChildLinked, OneEach, StartTyped
  <2>2. \A k \in Children : k <= links => k <= links'
    BY SMTT(60), <1>2, StartupAssumption DEF ChildLinked, OneEach, StartTyped
  <2>3. StartTyped'
    BY Zenon, <1>2, <2>1 DEF ChildLinked, OneEach, StartTyped
  <2>4. Followed'
    BY Zenon, <1>2, <2>2 DEF ChildLinked, OneEach, Followed
  <2> QED
    BY Zenon, <2>3, <2>4 DEF OneEach
<1>3. ASSUME NEW k \in Children, ChildBoots(k) PROVE OneEach'
  <2>1. child' \in [Children -> ChildSet]
    BY ZenonT(60), <1>0, <1>3, ChildEdits DEF ChildBoots
  <2>2. luck' \in [Troubles -> Nat]
    BY Zenon, <1>0, <1>3, UseTyped DEF ChildBoots, Troubles
  <2>3. \A j \in Children \ {k} : child'[j] = child[j]
    BY Zenon, <1>0, <1>3 DEF ChildBoots
  <2> QED
    BY Zenon, <1>3, <2>1, <2>2, <2>3, ChildAlone DEF ChildBoots
<1>4. ASSUME NEW k \in Children, ChildEnds(k) PROVE OneEach'
  <2>1. child' \in [Children -> ChildSet]
    BY Zenon, <1>0, <1>4, ChildEdits DEF ChildEnds
  <2>2. \A j \in Children \ {k} : child'[j] = child[j]
    BY Zenon, <1>0, <1>4 DEF ChildEnds
  <2> QED
    BY Zenon, <1>0, <1>4, <2>1, <2>2, ChildAlone DEF ChildEnds
<1>5. ASSUME NEW k \in Children, ChildLeaves(k) PROVE OneEach'
  <2>1. child' = [child EXCEPT ![k] = [child[k] EXCEPT !.sup = FALSE, !.died = child[k].died \/ ~child[k].over]]
    BY Zenon, <1>0, <1>5 DEF ChildLeaves
  <2>2. child' \in [Children -> ChildSet]
    BY Zenon, <1>0, <2>1, ChildLeft
  <2>3. luck' \in [Troubles -> Nat]
    BY Zenon, <1>0, <1>5, UseTyped DEF ChildLeaves, Troubles
  <2>4. \A j \in Children \ {k} : child'[j] = child[j]
    BY Zenon, <1>0, <2>1
  <2> QED
    BY Zenon, <1>5, <2>2, <2>3, <2>4, ChildAlone DEF ChildLeaves
<1>6. CASE ParentDies
  <2>1. luck' \in [Troubles -> Nat]
    BY Zenon, <1>0, <1>6, UseTyped DEF ParentDies, Troubles
  <2> QED
    BY Zenon, <1>0, <1>6, <2>1, GoesDown DEF ParentDies
<1>7. CASE HomeVanishes
  <2>1. luck' \in [Troubles -> Nat]
    BY Zenon, <1>0, <1>7, UseTyped DEF HomeVanishes, Troubles
  <2> QED
    BY Zenon, <1>7, <2>1 DEF HomeVanishes, OneEach, StartTyped, Followed
<1>8. CASE ParentBoots
  <2> DEFINE spawned == repaired(disk.spawned)
  <2>1. /\ par' = [Down EXCEPT !.at = "tick", !.own = disk.own, !.spawned = spawned,
                               !.tails = Linked, !.start = reseed_child_spawns(spawned)]
        /\ UNCHANGED <<links, child, disk, home>>
    BY Zenon, <1>8 DEF ParentBoots
  <2>2. /\ par' = [x \in ParFields |-> par'[x]] /\ par'.at = "tick" /\ par'.own = disk.own
        /\ par'.spawned = spawned /\ par'.tails = Linked
        /\ par'.start = reseed_child_spawns(spawned)
    BY Zenon, <2>1, DownRecord DEF ParFields
  <2>3. spawned \in [Children -> {"no", "pid"}]
    BY Zenon DEF repaired, OneEach, StartTyped
  <2>4. /\ reseed_child_spawns(spawned) \in [Children -> StartSet]
        /\ \A k \in Children : spawned[k] # "no" => reseed_child_spawns(spawned)[k] = Idle
        /\ \A k \in Children : reseed_child_spawns(spawned)[k].st # "no" => k \in Linked
    BY Zenon, <2>3, StartEdits DEF reseed_child_spawns, Idle
  <2>5. luck' \in [Troubles -> Nat]
    BY Zenon, <1>0, <1>8, UseTyped DEF ParentBoots, Troubles
  <2>6. StartTyped'
    BY Zenon, <2>1, <2>2, <2>3, <2>4, <2>5 DEF OneEach, StartTyped
  <2>7. \A k \in Children : k <= links <=> k \in Linked
    BY SMTT(60), StartupAssumption DEF Linked, OneEach, StartTyped
  <2>8. Followed'
    BY Zenon, <2>1, <2>2, <2>4, <2>7 DEF OneEach, Followed
  <2> QED
    BY Zenon, <2>6, <2>8 DEF OneEach
<1>9. CASE ForkNew
  <2> DEFINE new  == par.own + 1 .. links
             todo == {k \in new : par.spawned[k] = "no" /\ par.start[k].st = "no"}
  <2>1. PICK bad \in SUBSET todo :
         /\ Misses(todo, bad)
         /\ child' = Forked(todo \ bad)
         /\ par' = [par EXCEPT !.at = "reconcile", !.own = links, !.missing = 0,
              !.tails = @ \cup new,
              !.start = [k \in Children |-> IF k \in todo
                 THEN [st |-> IF k \in bad THEN "failed" ELSE "starting", n |-> 1]
                 ELSE @[k]]]
    BY Zenon, <1>9 DEF ForkNew
  <2>2. /\ par' = [x \in ParFields |-> par'[x]] /\ par'.at = "reconcile" /\ par'.own = links
        /\ par'.spawned = par.spawned /\ par'.tails = par.tails \cup new
        /\ par'.start = [k \in Children |-> IF k \in todo
                 THEN [st |-> IF k \in bad THEN "failed" ELSE "starting", n |-> 1]
                 ELSE par.start[k]]
    BY Zenon, <2>1 DEF OneEach, StartTyped, ParFields
  <2>3. luck' \in [Troubles -> Nat]
    BY Zenon, <1>0, <2>1, UseTyped DEF Misses, Troubles
  <2>4. child' \in [Children -> ChildSet]
        /\ (\A k \in Children : child'[k].sup = child[k].sup)
        /\ (\A k \in Children : k \notin todo => child'[k] = child[k])
    BY Zenon, <1>0, <2>1, ForkedTyped
  <2>5. \A k \in Children : k \in todo => k \in new /\ k <= links /\ par.spawned[k] = "no"
    BY SMTT(60) DEF OneEach, StartTyped
  <2>6. /\ par'.start \in [Children -> StartSet]
        /\ \A k \in Children : par'.spawned[k] # "no" => par'.start[k] = Idle
        /\ \A k \in Children : par'.start[k].st # "no" => k \in todo \/ par.start[k].st # "no"
    <3>1. /\ \A k \in Children : par.start[k] \in StartSet
          /\ \A k \in Children : par.spawned[k] # "no" => par.start[k] = Idle
      BY Zenon DEF OneEach, StartTyped
    <3>2. \A k \in Children : k \notin todo => par'.start[k] = par.start[k]
      BY Zenon, <2>2
    <3>3. \A k \in Children : k \in todo => par'.start[k] \in StartSet
      BY Zenon, <2>2, StartEdits
    <3>4. \A k \in Children : par'.start[k] \in StartSet
      BY Zenon, <3>1, <3>2, <3>3
    <3>5. par'.start \in [Children -> StartSet]
      BY Zenon, <2>2, <3>4
    <3> QED
      BY Zenon, <2>2, <2>5, <3>1, <3>2, <3>5
  <2>7. links \in 0 .. links
    BY SMTT(60) DEF OneEach, StartTyped
  <2>8. UNCHANGED <<links, disk, home>> /\ par.at # "down"
    BY Zenon, <1>9 DEF ForkNew
  <2>9. StartTyped'
    BY Zenon, <2>2, <2>3, <2>4, <2>6, <2>7, <2>8 DEF OneEach, StartTyped
  <2>10. Followed'
    BY Zenon, <2>2, <2>4, <2>5, <2>6, <2>8 DEF OneEach, Followed
  <2> QED
    BY Zenon, <2>9, <2>10 DEF OneEach
<1>10. CASE ReconcileSome
  <2>1. PICK due \in SUBSET Tracked : Reconcile(due)
    BY Zenon, <1>10 DEF ReconcileSome
  <2> DEFINE does(a) == {k \in Tracked :
                      child_spawn_action(par.start[k], child[k].sup, k \in due) = a}
  <2>2. PICK bad \in SUBSET does("retry") :
         /\ Misses(does("retry"), bad)
         /\ child' = Forked(does("retry") \ bad)
         /\ par' = [par EXCEPT !.at = "save",
              !.spawned = [k \in Children |-> IF k \in does("confirm") THEN "pid" ELSE @[k]],
              !.start = [k \in Children |->
                CASE k \in does("confirm") -> Idle
                  [] k \in does("mark")    -> [@[k] EXCEPT !.st = "failed"]
                  [] k \in does("retry")   -> [st |-> IF k \in bad THEN "failed" ELSE "starting",
                                               n |-> @[k].n + 1]
                  [] OTHER                 -> @[k]]]
    BY Zenon, <2>1 DEF Reconcile
  <2>3. /\ par' = [x \in ParFields |-> par'[x]] /\ par'.at = "save" /\ par'.own = par.own
        /\ par'.spawned = [k \in Children |-> IF k \in does("confirm") THEN "pid" ELSE par.spawned[k]]
        /\ par'.tails = par.tails
        /\ par'.start = [k \in Children |->
                CASE k \in does("confirm") -> Idle
                  [] k \in does("mark")    -> [par.start[k] EXCEPT !.st = "failed"]
                  [] k \in does("retry")   -> [st |-> IF k \in bad THEN "failed" ELSE "starting",
                                               n |-> par.start[k].n + 1]
                  [] OTHER                 -> par.start[k]]
    BY Zenon, <2>2 DEF OneEach, StartTyped, ParFields
  <2>4. luck' \in [Troubles -> Nat]
    BY Zenon, <1>0, <2>2, UseTyped DEF Misses, Troubles
  <2>5. child' \in [Children -> ChildSet]
        /\ (\A k \in Children : child'[k].sup = child[k].sup)
        /\ (\A k \in Children : k \notin does("retry") => child'[k] = child[k])
    BY Zenon, <1>0, <2>2, ForkedTyped
  <2>6. \A a : \A k \in does(a) : k \in Children /\ par.start[k].st # "no"
    BY Zenon DEF Tracked
  <2>7. \A k \in does("retry") : par.start[k].n < MaxTries
    BY Zenon DEF child_spawn_action
  <2>8. /\ \A k \in does("confirm") : par'.start[k] = Idle
        /\ \A k \in does("mark") \ does("confirm") : par'.start[k] = [par.start[k] EXCEPT !.st = "failed"]
        /\ \A k \in does("retry") \ (does("confirm") \cup does("mark")) :
             par'.start[k] = [st |-> IF k \in bad THEN "failed" ELSE "starting", n |-> par.start[k].n + 1]
        /\ \A k \in Children \ (does("confirm") \cup does("mark") \cup does("retry")) :
             par'.start[k] = par.start[k]
    BY ZenonT(60), <2>3, <2>6
  <2>9. \A k \in Children : par.start[k] \in StartSet
    BY Zenon DEF OneEach, StartTyped
  <2>10. ASSUME NEW k \in Children PROVE par'.start[k] \in StartSet
    <3>1. par.start[k] \in StartSet
      BY Zenon, <2>9
    <3>2. CASE k \in does("confirm")
      BY Zenon, <2>8, <3>1, <3>2, StartEdits
    <3>3. CASE k \in does("mark") \ does("confirm")
      BY Zenon, <2>8, <3>1, <3>3, StartEdits
    <3>4. CASE k \in does("retry") \ (does("confirm") \cup does("mark"))
      BY ZenonT(60), <2>7, <2>8, <3>1, <3>4, StartEdits
    <3>5. CASE k \in Children \ (does("confirm") \cup does("mark") \cup does("retry"))
      BY Zenon, <2>8, <3>1, <3>5
    <3> HIDE DEF does
    <3> QED
      BY Zenon, <3>2, <3>3, <3>4, <3>5
  <2>11. par'.start \in [Children -> StartSet]
    BY Zenon, <2>3, <2>10
  <2>12. par'.spawned \in [Children -> {"no", "pid"}]
    <3>1. \A k \in Children : par.spawned[k] \in {"no", "pid"}
      BY Zenon DEF OneEach, StartTyped
    <3>2. \A k \in Children : par'.spawned[k] \in {"no", "pid"}
      BY Zenon, <2>3, <3>1
    <3> QED
      BY Zenon, <2>3, <3>2
  <2>13. Idle.st = "no"
    BY Zenon DEF Idle
  <2>14. \A k \in Children : par'.spawned[k] # "no" => par'.start[k] = Idle
    <3>1. \A k \in Children : par.spawned[k] # "no" => par.start[k] = Idle
      BY Zenon DEF OneEach, StartTyped
    <3>2. \A k \in Children : k \notin does("confirm") => par'.spawned[k] = par.spawned[k]
      BY Zenon, <2>3
    <3>3. \A k \in Children : par.spawned[k] # "no" => \A a : k \notin does(a)
      BY Zenon, <2>6, <2>13, <3>1
    <3>4. \A k \in Children : par.spawned[k] # "no" => par'.start[k] = par.start[k]
      BY Zenon, <2>8, <3>3
    <3> QED
      BY Zenon, <2>8, <3>1, <3>2, <3>4
  <2>15. \A k \in Children : par'.start[k].st # "no" => par.start[k].st # "no"
    BY Zenon, <2>6, <2>8, <2>13
  <2>16. UNCHANGED <<links, disk, home>> /\ par.at # "down"
    BY Zenon, <2>1 DEF Reconcile
  <2>17. StartTyped'
    BY Zenon, <2>3, <2>4, <2>5, <2>11, <2>12, <2>14, <2>16 DEF OneEach, StartTyped
  <2>18. \A k \in does("retry") : k \in par.tails /\ k <= links
    BY Zenon, <2>6, <2>16 DEF OneEach, Followed
  <2>19. Followed'
    BY Zenon, <2>3, <2>5, <2>15, <2>16, <2>18 DEF OneEach, Followed
  <2> QED
    BY Zenon, <2>17, <2>19 DEF OneEach
<1>11. CASE SaveTick
  <2>1. /\ par' = [x \in ParFields |-> par'[x]] /\ par'.at = "tick" /\ par.at # "down"
        /\ \A x \in ParFields \ {"at"} : par'[x] = par[x]
    BY Zenon, <1>11 DEF OneEach, StartTyped, ParFields, SaveTick
  <2>2. /\ par'.own = par.own /\ par'.spawned = par.spawned /\ par'.tails = par.tails
        /\ par'.start = par.start
    BY Zenon, <2>1 DEF ParFields
  <2>3. /\ disk' = [x \in {"own", "spawned"} |-> disk'[x]] /\ disk'.own = par.own
        /\ disk'.spawned = par.spawned
    BY Zenon, <1>11 DEF SaveTick
  <2>4. par.spawned \in [Children -> {"no", "zero", "pid"}]
    BY Zenon DEF OneEach, StartTyped
  <2>5. StartTyped'
    BY ZenonT(60), <1>11, <2>1, <2>2, <2>3, <2>4 DEF SaveTick, OneEach, StartTyped
  <2>6. Followed'
    BY Zenon, <1>11, <2>1, <2>2 DEF SaveTick, OneEach, Followed
  <2> QED
    BY Zenon, <2>5, <2>6 DEF OneEach
<1>12. CASE Vanished
  <2>1. /\ UNCHANGED <<links, disk, home, luck>> /\ par.at # "down"
        /\ \/ par' = [par EXCEPT !.at = "tick"] /\ child' = child
           \/ par' = [par EXCEPT !.missing = @ + 1] /\ child' = child
           \/ /\ par' = Down
              /\ child' = [k \in Children |-> IF k \in signalled
                           THEN [child[k] EXCEPT !.sup = FALSE] ELSE child[k]]
    BY Zenon, <1>12 DEF Vanished
  <2>2. CASE /\ child' = child
             /\ par' = [par EXCEPT !.at = "tick"] \/ par' = [par EXCEPT !.missing = @ + 1]
    <3>1. /\ par' = [x \in ParFields |-> par'[x]] /\ par'.at \in {par.at, "tick"}
          /\ par'.own = par.own /\ par'.spawned = par.spawned /\ par'.tails = par.tails
          /\ par'.start = par.start
      BY Zenon, <2>2 DEF OneEach, StartTyped, ParFields
    <3>2. StartTyped'
      BY Zenon, <2>1, <2>2, <3>1 DEF OneEach, StartTyped
    <3>3. Followed'
      BY Zenon, <2>1, <2>2, <3>1 DEF OneEach, Followed
    <3> QED
      BY Zenon, <3>2, <3>3 DEF OneEach
  <2>3. CASE /\ par' = Down
             /\ child' = [k \in Children |-> IF k \in signalled
                           THEN [child[k] EXCEPT !.sup = FALSE] ELSE child[k]]
    <3>1. \A k \in Children : child'[k] = child[k] \/ child'[k] = [child[k] EXCEPT !.sup = FALSE]
      BY Zenon, <2>3
    <3>2. \A k \in Children : child'[k] \in ChildSet
      BY Zenon, <1>0, <3>1, ChildEdits
    <3>3. child' \in [Children -> ChildSet]
      BY Zenon, <2>3, <3>2
    <3>4. \A k \in Children : child'[k].sup \/ child'[k].boots > 0 => child[k].sup \/ child[k].boots > 0
      <4>1. \A k \in Children : [child[k] EXCEPT !.sup = FALSE].sup = FALSE
               /\ [child[k] EXCEPT !.sup = FALSE].boots = child[k].boots
        BY Zenon, <1>0 DEF ChildSet
      <4> QED
        BY Zenon, <3>1, <4>1
    <3> QED
      BY Zenon, <1>0, <2>1, <2>3, <3>3, <3>4, GoesDown
  <2> QED
    BY Zenon, <2>1, <2>2, <2>3
<1> QED
  BY Zenon, <1>1, <1>2, <1>3, <1>4, <1>5, <1>6, <1>7, <1>8, <1>9, <1>10, <1>11, <1>12
     DEF StartupNext, ParentSteps, NobodyHome

(* A parent that is in order follows every child supervisor there is. *)
LEMMA FollowsAll ==
  ASSUME OneEach, par.at # "down"
  PROVE  \A k \in Children : child[k].sup => k \in signalled
BY Zenon DEF OneEach, Followed, signalled

(* The books in order are the types. *)
LEMMA OneEachTypes == OneEach => StartupTypeOK
<1> SUFFICES ASSUME OneEach PROVE StartupTypeOK
  BY Zenon
<1>1. par.own <= links
  BY SMTT(60) DEF OneEach, StartTyped
<1>2. \A k \in Children : /\ par.start[k].st \in {"no", "starting", "failed"}
                          /\ par.start[k].n <= MaxTries
  BY SMTT(60), StartupAssumption DEF OneEach, StartTyped, StartSet
<1>3. \A k \in Children : {par.spawned[k], disk.spawned[k]} \subseteq {"no", "zero", "pid"}
  BY Zenon DEF OneEach, StartTyped
<1> QED
  BY Zenon, <1>1, <1>2, <1>3 DEF StartupTypeOK, OneEach, StartTyped

(* Forks come from ForkNew, for children neither recorded nor being        *)
(* started, and from Reconcile, for children that are not up.              *)
LEMMA ForkedWhen ==
  ASSUME OneEach, StartupNext, NEW k \in Children, child'[k].boots > child[k].boots
  PROVE  \/ par.at = "tick" /\ par.start[k].st = "no" /\ par.spawned[k] = "no"
         \/ par.at = "reconcile" /\ ~child[k].sup
<1>0. /\ child \in [Children -> ChildSet] /\ child[k] \in ChildSet
      /\ ~(child[k].boots > child[k].boots) /\ ~(child[k].boots - 1 > child[k].boots)
  <2>1. child \in [Children -> ChildSet] /\ child[k] \in ChildSet
    BY Zenon DEF OneEach, StartTyped
  <2>2. child[k].boots \in Nat
    BY Zenon, <2>1 DEF ChildSet
  <2> QED
    BY SMTT(60), <2>1, <2>2
<1>1. child'[k] # child[k]
  BY Zenon, <1>0
<1>2. CASE ForkNew
  <2> DEFINE new  == par.own + 1 .. links
             todo == {j \in new : par.spawned[j] = "no" /\ par.start[j].st = "no"}
  <2>1. PICK bad \in SUBSET todo : child' = Forked(todo \ bad)
    BY Zenon, <1>2 DEF ForkNew
  <2>2. k \in todo \ bad
    BY Zenon, <1>0, <1>1, <2>1, ForkedTyped
  <2> QED
    BY Zenon, <1>2, <2>2 DEF ForkNew
<1>3. CASE ReconcileSome
  <2>1. PICK due \in SUBSET Tracked : Reconcile(due)
    BY Zenon, <1>3 DEF ReconcileSome
  <2> DEFINE does(a) == {j \in Tracked :
                      child_spawn_action(par.start[j], child[j].sup, j \in due) = a}
  <2>2. PICK bad \in SUBSET does("retry") : child' = Forked(does("retry") \ bad)
    BY Zenon, <2>1 DEF Reconcile
  <2>3. k \in does("retry")
    BY Zenon, <1>0, <1>1, <2>2, ForkedTyped
  <2>4. ~child[k].sup
    BY Zenon, <2>3 DEF child_spawn_action
  <2> QED
    BY Zenon, <2>1, <2>4 DEF Reconcile
<1>4. CASE \E j \in Children : ChildBoots(j) \/ ChildEnds(j) \/ ChildLeaves(j)
  <2>1. PICK j \in Children : ChildBoots(j) \/ ChildEnds(j) \/ ChildLeaves(j)
    BY Zenon, <1>4
  <2>2. j = k
    BY Zenon, <1>0, <1>1, <2>1 DEF ChildBoots, ChildEnds, ChildLeaves
  <2>3. CASE ChildBoots(k)
    <3>1. child'[k].boots = child[k].boots - 1
      BY Zenon, <1>0, <2>3 DEF ChildBoots, ChildSet
    <3> QED
      BY Zenon, <1>0, <3>1
  <2>4. CASE ChildEnds(k) \/ ChildLeaves(k)
    <3>1. child'[k].boots = child[k].boots
      BY ZenonT(60), <1>0, <2>4 DEF ChildEnds, ChildLeaves, ChildSet
    <3> QED
      BY Zenon, <1>0, <3>1
  <2> QED
    BY Zenon, <2>1, <2>2, <2>3, <2>4
<1>5. CASE Vanished
  <2>1. child'[k] = [child[k] EXCEPT !.sup = FALSE]
    BY Zenon, <1>1, <1>5 DEF Vanished
  <2>2. child'[k].boots = child[k].boots
    BY Zenon, <1>0, <2>1 DEF ChildSet
  <2> QED
    BY Zenon, <1>0, <2>2
<1>6. CASE UNCHANGED child
  BY Zenon, <1>1, <1>6
<1> QED
  BY Zenon, <1>2, <1>3, <1>4, <1>5, <1>6
     DEF StartupNext, ParentSteps, NobodyHome, startup_vars, ChildLinked, ParentBoots,
         ParentDies, HomeVanishes, SaveTick

(* A parent's record of its children changes when Reconcile finds one up,  *)
(* and when the process ends.                                              *)
LEMMA RecordedWhen ==
  ASSUME OneEach, StartupNext, NEW k \in Children, par.at # "down",
         par'.spawned[k] # par.spawned[k], par'.at # "down"
  PROVE  par'.spawned[k] = "pid" /\ child[k].sup
<1>1. CASE ReconcileSome
  <2>1. PICK due \in SUBSET Tracked : Reconcile(due)
    BY Zenon, <1>1 DEF ReconcileSome
  <2> DEFINE does(a) == {j \in Tracked :
                      child_spawn_action(par.start[j], child[j].sup, j \in due) = a}
  <2>2. par'.spawned = [j \in Children |-> IF j \in does("confirm") THEN "pid" ELSE par.spawned[j]]
    BY Zenon, <2>1 DEF Reconcile, OneEach, StartTyped, ParFields
  <2>3. k \in does("confirm") /\ par'.spawned[k] = "pid"
    BY Zenon, <2>2
  <2>4. child[k].sup
    BY Zenon, <2>3 DEF child_spawn_action
  <2> QED
    BY Zenon, <2>3, <2>4
<1>2. CASE ForkNew \/ SaveTick \/ Vanished
  BY ZenonT(60), <1>2, DownRecord DEF ForkNew, SaveTick, Vanished, OneEach, StartTyped, ParFields
<1>3. CASE par' = par \/ par' = Down
  BY Zenon, <1>3, DownRecord
<1> QED
  BY Zenon, <1>1, <1>2, <1>3
     DEF StartupNext, ParentSteps, NobodyHome, startup_vars, ChildLinked, ParentBoots,
         ParentDies, HomeVanishes, ChildBoots, ChildEnds, ChildLeaves

(* A parent that goes down without a crash stops every child supervisor. *)
LEMMA TakesAlong ==
  ASSUME OneEach, StartupNext, par.at = "tick", par'.at = "down", luck' = luck
  PROVE  \A k \in Children : ~child'[k].sup
<1>1. par' # par
  BY Zenon
<1>2. ~ParentDies
  BY Zenon, UseTyped DEF ParentDies, Troubles, OneEach, StartTyped
<1>3. ~ForkNew /\ ~ReconcileSome /\ ~SaveTick
  BY Zenon DEF ForkNew, ReconcileSome, Reconcile, SaveTick, OneEach, StartTyped, ParFields
<1>4. Vanished
  BY Zenon, <1>1, <1>2, <1>3
     DEF StartupNext, ParentSteps, NobodyHome, startup_vars, ChildLinked, ParentBoots,
         HomeVanishes, ChildBoots, ChildEnds, ChildLeaves
<1>5. /\ child' = [k \in Children |-> IF k \in signalled
                           THEN [child[k] EXCEPT !.sup = FALSE] ELSE child[k]]
  BY Zenon, <1>4 DEF Vanished, OneEach, StartTyped, ParFields
<1>6. \A k \in Children : child[k] \in ChildSet
  BY Zenon DEF OneEach, StartTyped
<1>7. \A k \in Children : child[k].sup => k \in signalled
  BY Zenon, FollowsAll
<1> QED
  BY Zenon, <1>5, <1>6, <1>7 DEF ChildSet

(* fork_child_supervisor, reconcile_child_spawns, reseed_child_spawns and  *)
(* signal_children_term, for any number of children, attempts, crashes of  *)
(* the parent and failing forks: a child supervisor is forked only when    *)
(* none is known to be up or starting, recorded only when it runs, and     *)
(* taken along when the run directory is gone.                             *)
THEOREM ChildStartupSafe == StartupSpec => OneForkPerChild
<1> DEFINE Step == /\ StartupTypeOK' /\ RecordedIsRunning /\ AdoptsRunningChild
                   /\ ReseededNotForkedAgain /\ VanishTakesChildren
<1>1. ASSUME OneEach, [StartupNext]_startup_vars, ~UNCHANGED startup_vars PROVE Step
  <2>1. StartupTypeOK'
    BY Zenon, <1>1, OneEachStep, OneEachTypes, PTL
  <2>2. StartupNext
    BY Zenon, <1>1
  <2>3. RecordedIsRunning
    BY Zenon, <1>1, <2>2, RecordedWhen DEF RecordedIsRunning
  <2>4. AdoptsRunningChild /\ ReseededNotForkedAgain
    BY Zenon, <1>1, <2>2, ForkedWhen DEF AdoptsRunningChild, ReseededNotForkedAgain
  <2>5. VanishTakesChildren
    BY Zenon, <1>1, <2>2, TakesAlong DEF VanishTakesChildren
  <2> QED
    BY Zenon, <2>1, <2>3, <2>4, <2>5
<1>2. OneEach /\ [StartupNext]_startup_vars => [Step]_startup_vars
  BY Zenon, <1>1
<1> QED
  BY <1>2, OneEachInit, OneEachStep, PTL DEF StartupSpec, OneForkPerChild

-------------------------------------------------------------------------------
(* The observers.                                                          *)

RunFields == {"status", "node", "nodes", "sup", "fresh", "exit", "ask", "ripe", "round",
              "overdue", "gens", "pi", "merged", "kept"}
Statuses == {"pending", "done", "failed", "cancelled"}
RunTyped(u) ==
  /\ u = [x \in RunFields |-> u[x]]
  /\ u.status \in Statuses /\ u.node \in Statuses \cup {"blocked"}
  /\ u.sup \in {"alive", "dead", "unreadable"}
  /\ u.ask \in 0..MaxGen /\ u.round \in 0..MaxGen /\ u.gens \in 0..MaxGen

\* What is to be seen: the runs, and what the behaviour may still do to them.
Stage ==
  /\ world = [r \in ORuns |-> world[r]] /\ \A r \in ORuns : RunTyped(world[r])
  /\ scenery = [x \in SceneFields |-> scenery[x]] /\ scenery.busy \subseteq ORuns

\* A verdict that settles a run of a wait that is not terminal-only.
Signal(v) == v.stall \/ v.attention \/ v.ask # 0 \/ v.caller \/ v.round # 0
WaitFields == {"pc", "ask", "at", "elapsed", "latch", "settled", "stop", "told", "exit"}
AskedSet == [any : BOOLEAN, terminal : BOOLEAN, fail : BOOLEAN, timeout : Nat, check : Nat]

\* The summary of a run that a poll counted as settled carries the reason.
Reasoned(me, r) ==
  /\ me.told[r].status \in Statuses
  /\ r \in me.settled /\ me.stop = "condition-met" =>
       /\ Explained(me.told[r])
       /\ is_terminal(me.told[r].status) \/ ~me.ask.terminal

\* Met, exit_code and the order of the deadlines, of the record of a call.
MetBy(me) == IF me.ask.any THEN me.settled # {} ELSE me.settled = ORuns
ErrorIn(me) ==
  \E r \in ORuns :
     LET o == me.told[r]
     IN  /\ me.ask.terminal => is_terminal(o.status)
         /\ \/ o.status \in {"failed", "cancelled"} \/ o.stalled \/ o.attention
            \/ o.awaiting \/ o.caller \/ o.leftover
ExitOf(me) ==
  CASE me.stop = "timed-out" -> 2
    [] me.stop = "check-in" -> 4
    [] me.ask.fail /\ ErrorIn(me) -> 3
    [] OTHER -> 0
Deadlined(me) ==
  /\ me.stop = "timed-out" => me.ask.check = 0 \/ me.ask.timeout <= me.ask.check
  /\ me.stop = "check-in" => me.ask.timeout = 0 \/ me.ask.check < me.ask.timeout
  /\ me.stop \in {"timed-out", "check-in"} => ~MetBy(me)

\* What is right about a call at each place.
Waiting(me) ==
  /\ me = [x \in WaitFields |-> me[x]]
  /\ me.pc \in {"home", "poll", "outcome", "said"}
  /\ me.at \in 1..LastRun + 1 /\ me.settled \subseteq ORuns
  /\ me.ask \in AskedSet /\ me.elapsed \in Nat
  /\ me.latch = [r \in ORuns |-> me.latch[r]] /\ me.told = [r \in ORuns |-> me.told[r]]
  /\ me.pc \in {"home", "poll"} => me.stop = "none" /\ \A r \in me.settled : r < me.at
  /\ me.stop = "condition-met" => MetBy(me)
  /\ Deadlined(me)
  /\ me.pc = "outcome" => \A r \in ORuns : r < me.at => Reasoned(me, r)
  /\ me.pc = "said" => me.exit = ExitOf(me) /\ \A r \in ORuns : Reasoned(me, r)

\* A run that it counted has ended, which is for good, or the verdict it keeps
\* says why.
Grounded(me) ==
  \A r \in me.settled :
     is_terminal(world[r].status) \/ (~me.ask.terminal /\ Signal(me.latch[r]))

WaitSound ==
  /\ waits = [w \in Waiters |-> waits[w]]
  /\ \A w \in Waiters : Waiting(waits[w]) /\ Grounded(waits[w])

\* A half line and its rest, in turn, numbered from 1.
HalfSet == [seq : Nat, id : Nat, half : {1, 2}]
Halves(L) ==
  /\ L \in Seq(HalfSet)
  /\ \A n \in 0..Len(L) :
       /\ 2 * n + 1 <= Len(L) => L[2 * n + 1].half = 1 /\ L[2 * n + 1].seq = n + 1
       /\ 2 * n + 2 <= Len(L) => /\ L[2 * n + 2].half = 2 /\ L[2 * n + 2].seq = n + 1
                                 /\ L[2 * n + 2].id = L[2 * n + 1].id
LogShape ==
  /\ feed = [x \in {"there", "lines", "ids", "writer"} |-> feed[x]]
  /\ Halves(feed.lines) /\ feed.ids \in Nat
  /\ feed.writer = "mid" => Torn

\* The follower has read `last` whole lines and perhaps half of the next ...
TailFields == {"pc", "follow", "from", "open", "pos", "buf", "last", "out", "torn", "cancel"}
TailTyped(t) ==
  /\ t = [x \in TailFields |-> t[x]]
  /\ t.pc \in {"off", "drain", "sleep", "result", "cancelled", "failed"}
  /\ t.from \in Nat \ {0} /\ t.pos \in Nat /\ t.last \in Nat /\ t.torn \in BOOLEAN
  /\ t.buf \in Seq(HalfSet) /\ Len(t.buf) <= 1
  /\ t.out \in Seq([seq : Nat, id : Nat])
  /\ t.pc # "failed" => /\ t.pos = 2 * t.last + Len(t.buf)
                        /\ Len(t.buf) = 1 => t.buf[1].seq = t.last + 1

\* ... and unless that half was cut off, it has it as the log L has it.
TailShows(t, L) ==
  ~t.torn =>
    /\ t.pc # "failed" /\ t.pos <= Len(L)
    /\ Len(t.buf) = 1 => t.buf[1] = L[t.pos]
    /\ t.last < t.from => Len(t.out) = 0
    /\ t.last >= t.from => Len(t.out) = t.last - t.from + 1
    /\ \A i \in 1..Len(t.out) :
         t.out[i].seq = t.from + i - 1 /\ t.out[i].id = L[2 * (t.from + i - 1)].id

TailSound == TailTyped(tail) /\ TailShows(tail, feed.lines)

\* A page is about what is open, and counted: fired, lost with its marker, or
\* marked.
PagerFields == {"pc", "page", "told", "marked", "fired", "slips"}
Marking(p, s, g) == p.pc = "mark" /\ p.page.signal = s /\ p.page.gen = g
Counted(p) ==
  \A s \in Signals, g \in Gens :
     /\ Marking(p, s, g) => g \notin p.marked[s]
     /\ Marking(p, s, g) \/ g \in p.marked[s] => p.fired[s][g] = p.slips[s][g] + 1
     /\ ~Marking(p, s, g) /\ g \notin p.marked[s] => p.fired[s][g] = p.slips[s][g]
PagerTyped(p) ==
  /\ p = [x \in PagerFields |-> p[x]]
  /\ p.pc \in {"idle", "fire", "mark"}
  /\ p.page \in [signal : Signals, gen : 0..MaxGen]
  /\ p.pc # "idle" => p.page.gen \in Gens
  /\ p.told = [s \in Signals |-> p.told[s]]
  /\ p.marked \in [Signals -> SUBSET Gens]
  /\ p.fired \in [Signals -> [Gens -> Nat]] /\ p.slips \in [Signals -> [Gens -> Nat]]
PagerSound == PagerTyped(pager) /\ Counted(pager) /\ PageIsCurrent

Attentive == Stage /\ WaitSound /\ LogShape /\ TailSound /\ PagerSound

(* Zero is a generation that no question has; the next one is within the   *)
(* bound.                                                                  *)
LEMMA GenEdits == 0 \in 0..MaxGen /\ \A g \in 0..MaxGen : g < MaxGen => g + 1 \in 0..MaxGen
BY SMTT(60), ObserversAssumption

(* A budget that is spent leaves the rest of the scene. *)
LEMMA TallyTyped ==
  ASSUME Stage, NEW kind \in Limits, Tally(kind)
  PROVE  /\ scenery' = [x \in SceneFields |-> scenery'[x]]
         /\ scenery'.busy = scenery.busy /\ scenery'.kind = scenery.kind
BY Zenon DEF Stage, Tally, Limits, SceneFields

\* What somebody may make of a run: an end stays an end, and while a page is
\* recorded what it is about stays as it is.
Moved(r, u) ==
  /\ RunTyped(u)
  /\ is_terminal(world[r].status) => is_terminal(u.status)
  /\ ~Unlocked(r) => /\ u.ask = world[r].ask /\ u.round = world[r].round
                     /\ u.node = world[r].node /\ u.exit = world[r].exit
                     /\ world[r].ripe => u.ripe

(* Every step of the others is such a move. *)
LEMMA MovesOnly ==
  ASSUME Stage, NEW r \in ORuns, WorldMoves(r)
  PROVE  \E u : World(r, u) /\ Moved(r, u)
<1>1. /\ RunTyped(world[r]) /\ world[r] = [x \in RunFields |-> world[r][x]]
  BY Zenon DEF Stage, RunTyped
<1>2. CASE NodeAppears(r)
  <2> DEFINE u == [world[r] EXCEPT !.nodes = 1, !.fresh = TRUE]
  <2>1. World(r, u)
    BY Zenon, <1>2 DEF NodeAppears
  <2>2. Moved(r, u)
    BY Zenon, <1>1, <1>2, GenEdits DEF NodeAppears, Moved, RunTyped, RunFields, is_terminal, Statuses
  <2> QED
    BY Zenon, <2>1, <2>2
<1>3. CASE Asks(r)
  <2> DEFINE u == [world[r] EXCEPT !.gens = @ + 1, !.ask = world[r].gens + 1, !.ripe = FALSE]
  <2>1. World(r, u)
    BY Zenon, <1>3 DEF Asks
  <2>2. Moved(r, u)
    BY Zenon, <1>1, <1>3, GenEdits DEF Asks, Moved, RunTyped, RunFields, is_terminal, Statuses, Open
  <2> QED
    BY Zenon, <2>1, <2>2
<1>4. CASE Resolved(r)
  <2> DEFINE u == [world[r] EXCEPT !.ask = 0, !.ripe = FALSE]
  <2>1. World(r, u)
    BY Zenon, <1>4 DEF Resolved
  <2>2. Moved(r, u)
    BY Zenon, <1>1, <1>4, GenEdits DEF Resolved, Moved, RunTyped, RunFields, is_terminal, Statuses
  <2> QED
    BY Zenon, <2>1, <2>2
<1>5. CASE CallerMoves(r)
  <2> DEFINE u == [world[r] EXCEPT !.pi = IF @ = "started" THEN "stopped" ELSE "started"]
  <2>1. World(r, u)
    BY Zenon, <1>5 DEF CallerMoves
  <2>2. Moved(r, u)
    BY Zenon, <1>1, <1>5, GenEdits DEF CallerMoves, Moved, RunTyped, RunFields, is_terminal, Statuses, Open
  <2> QED
    BY Zenon, <2>1, <2>2
<1>6. CASE RoundReported(r)
  <2> DEFINE u == [world[r] EXCEPT !.gens = @ + 1, !.round = world[r].gens + 1,
                                  !.ask = 0, !.ripe = FALSE]
  <2>1. World(r, u)
    BY Zenon, <1>6 DEF RoundReported
  <2>2. Moved(r, u)
    BY Zenon, <1>1, <1>6, GenEdits DEF RoundReported, Moved, RunTyped, RunFields, is_terminal, Statuses, Open
  <2> QED
    BY Zenon, <2>1, <2>2
<1>7. CASE Messaged(r)
  <2> DEFINE u == [world[r] EXCEPT !.round = 0, !.exit = "none", !.overdue = FALSE,
                                  !.ask = 0, !.ripe = FALSE]
  <2>1. World(r, u)
    BY Zenon, <1>7 DEF Messaged
  <2>2. Moved(r, u)
    BY Zenon, <1>1, <1>7, GenEdits DEF Messaged, Moved, RunTyped, RunFields, is_terminal, Statuses, Open
  <2> QED
    BY Zenon, <2>1, <2>2
<1>8. CASE IdleExpires(r)
  <2> DEFINE u == [world[r] EXCEPT !.overdue = TRUE]
  <2>1. World(r, u)
    BY Zenon, <1>8 DEF IdleExpires
  <2>2. Moved(r, u)
    BY Zenon, <1>1, <1>8, GenEdits DEF IdleExpires, Moved, RunTyped, RunFields, is_terminal, Statuses, Open
  <2> QED
    BY Zenon, <2>1, <2>2
<1>9. CASE Blocks(r)
  <2> DEFINE u == [world[r] EXCEPT !.node = "blocked"]
  <2>1. World(r, u)
    BY Zenon, <1>9 DEF Blocks
  <2>2. Moved(r, u)
    BY Zenon, <1>1, <1>9, GenEdits DEF Blocks, Moved, RunTyped, RunFields, is_terminal, Statuses, Open
  <2> QED
    BY Zenon, <2>1, <2>2
<1>10. CASE LateMerge(r)
  <2> DEFINE u == [world[r] EXCEPT !.node = "done", !.merged = TRUE]
  <2>1. World(r, u)
    BY Zenon, <1>10 DEF LateMerge
  <2>2. Moved(r, u)
    BY Zenon, <1>1, <1>10, GenEdits DEF LateMerge, Moved, RunTyped, RunFields, is_terminal, Statuses
  <2> QED
    BY Zenon, <2>1, <2>2
<1>11. CASE RollsUp(r)
  <2> DEFINE u == [world[r] EXCEPT !.status = world[r].node, !.fresh = TRUE]
  <2>1. World(r, u)
    BY Zenon, <1>11 DEF RollsUp
  <2>2. Moved(r, u)
    BY Zenon, <1>1, <1>11, GenEdits DEF RollsUp, Moved, RunTyped, RunFields, is_terminal, Statuses
  <2> QED
    BY Zenon, <2>1, <2>2
<1>12. CASE Cancelled(r)
  <2> DEFINE u == [world[r] EXCEPT !.node = IF is_terminal(@) THEN @ ELSE "cancelled",
                                  !.status = "cancelled", !.ask = 0, !.ripe = FALSE]
  <2>1. World(r, u)
    BY Zenon, <1>12 DEF Cancelled
  <2>2. Moved(r, u)
    BY Zenon, <1>1, <1>12, GenEdits DEF Cancelled, Moved, RunTyped, RunFields, is_terminal, Statuses
  <2> QED
    BY Zenon, <2>1, <2>2
<1>13. CASE CleanedUp(r)
  <2> DEFINE u == [world[r] EXCEPT !.kept = FALSE]
  <2>1. World(r, u)
    BY Zenon, <1>13 DEF CleanedUp
  <2>2. Moved(r, u)
    BY Zenon, <1>1, <1>13, GenEdits DEF CleanedUp, Moved, RunTyped, RunFields, is_terminal, Statuses
  <2> QED
    BY Zenon, <2>1, <2>2
<1>14. CASE Ripens(r)
  <2> DEFINE u == [world[r] EXCEPT !.ripe = TRUE]
  <2>1. World(r, u)
    BY Zenon, <1>14 DEF Ripens
  <2>2. Moved(r, u)
    BY Zenon, <1>1, <1>14, GenEdits DEF Ripens, Moved, RunTyped, RunFields, is_terminal, Statuses
  <2> QED
    BY Zenon, <2>1, <2>2
<1>15. CASE GrowsStale(r)
  <2> DEFINE u == [world[r] EXCEPT !.fresh = FALSE]
  <2>1. World(r, u)
    BY Zenon, <1>15 DEF GrowsStale
  <2>2. Moved(r, u)
    BY Zenon, <1>1, <1>15, GenEdits DEF GrowsStale, Moved, RunTyped, RunFields, is_terminal, Statuses
  <2> QED
    BY Zenon, <2>1, <2>2
<1>16. CASE SupervisorDies(r)
  <2> DEFINE u == [world[r] EXCEPT !.sup = "dead"]
  <2>1. World(r, u)
    BY Zenon, <1>16 DEF SupervisorDies
  <2>2. Moved(r, u)
    BY Zenon, <1>1, <1>16, GenEdits DEF SupervisorDies, Moved, RunTyped, RunFields, is_terminal, Statuses
  <2> QED
    BY Zenon, <2>1, <2>2
<1>17. CASE Revived(r)
  <2> DEFINE u == [world[r] EXCEPT !.sup = "alive"]
  <2>1. World(r, u)
    BY Zenon, <1>17 DEF Revived
  <2>2. Moved(r, u)
    BY Zenon, <1>1, <1>17, GenEdits DEF Revived, Moved, RunTyped, RunFields, is_terminal, Statuses
  <2> QED
    BY Zenon, <2>1, <2>2
<1>18. CASE RecordBlurs(r)
  <2> DEFINE u == [world[r] EXCEPT !.sup = IF @ = "alive" THEN "unreadable" ELSE "alive"]
  <2>1. World(r, u)
    BY Zenon, <1>18 DEF RecordBlurs
  <2>2. Moved(r, u)
    BY Zenon, <1>1, <1>18, GenEdits DEF RecordBlurs, Moved, RunTyped, RunFields, is_terminal, Statuses
  <2> QED
    BY Zenon, <2>1, <2>2
<1>19. CASE ExitTold(r)
  <2>1. PICK how \in {"clean", "failing"} :
          World(r, [world[r] EXCEPT !.exit = how, !.ask = 0, !.ripe = FALSE])
    BY Zenon, <1>19 DEF ExitTold
  <2>2. Moved(r, [world[r] EXCEPT !.exit = how, !.ask = 0, !.ripe = FALSE])
    BY Zenon, <1>1, <1>19, GenEdits DEF ExitTold, Moved, RunTyped, RunFields, is_terminal, Statuses, Open
  <2> QED
    BY Zenon, <2>1, <2>2
<1>20. CASE Reports(r)
  <2>1. PICK how \in {"done", "failed"}, merged \in BOOLEAN :
          World(r, [world[r] EXCEPT !.node = how, !.merged = merged, !.ask = 0, !.ripe = FALSE])
    BY Zenon, <1>20 DEF Reports
  <2>2. Moved(r, [world[r] EXCEPT !.node = how, !.merged = merged, !.ask = 0, !.ripe = FALSE])
    BY Zenon, <1>1, <1>20, GenEdits DEF Reports, Moved, RunTyped, RunFields, is_terminal, Statuses, Open
  <2> QED
    BY Zenon, <2>1, <2>2
<1> QED
  BY ZenonT(60), <1>2, <1>3, <1>4, <1>5, <1>6, <1>7, <1>8, <1>9, <1>10, <1>11, <1>12, <1>13, <1>14, <1>15, <1>16, <1>17, <1>18, <1>19, <1>20
     DEF WorldMoves

(* ... so that the runs keep their types. *)
LEMMA MoveKeeps ==
  ASSUME Stage, NEW r \in ORuns, WorldMoves(r)
  PROVE  /\ Stage'
         /\ \A q \in ORuns : is_terminal(world[q].status) => is_terminal(world'[q].status)
         /\ \A q \in ORuns \ {r} : world'[q] = world[q]
         /\ Moved(r, world'[r])
         /\ UNCHANGED <<waits, feed, tail>>
         /\ UNCHANGED pager \/ SupervisorDies(r)
<1>1. PICK u : World(r, u) /\ Moved(r, u)
  BY Zenon, MovesOnly
<1>2. /\ world' = [q \in ORuns |-> world'[q]] /\ world'[r] = u
      /\ \A q \in ORuns \ {r} : world'[q] = world[q]
  BY Zenon, <1>1 DEF Stage, World
<1>3. UNCHANGED scenery \/ \E kind \in Limits : Tally(kind)
  BY Zenon DEF WorldMoves, NodeAppears, Asks, Resolved, ExitTold, CallerMoves, RoundReported,
     Messaged, IdleExpires, Blocks, Reports, LateMerge, RollsUp, Cancelled, CleanedUp, Ripens,
     GrowsStale, SupervisorDies, Revived, RecordBlurs, Limits
<1>4. scenery' = [x \in SceneFields |-> scenery'[x]] /\ scenery'.busy = scenery.busy
  BY Zenon, <1>3, TallyTyped DEF Stage
<1>5. \A q \in ORuns : RunTyped(world'[q])
  BY Zenon, <1>1, <1>2 DEF Stage, Moved
<1>6. Stage'
  BY Zenon, <1>2, <1>4, <1>5 DEF Stage, RunTyped
<1>7. UNCHANGED <<waits, feed, tail>> /\ (UNCHANGED pager \/ SupervisorDies(r))
  BY Zenon DEF WorldMoves, NodeAppears, Asks, Resolved, ExitTold, CallerMoves, RoundReported,
     Messaged, IdleExpires, Blocks, Reports, LateMerge, RollsUp, Cancelled, CleanedUp, Ripens,
     GrowsStale, SupervisorDies, Revived, RecordBlurs, Others
<1> QED
  BY Zenon, <1>1, <1>2, <1>6, <1>7 DEF Moved

(* An answer under way stays right while others move: a run that has ended *)
(* has ended for good.                                                     *)
LEMMA WaitKept ==
  ASSUME WaitSound, UNCHANGED waits,
         \A q \in ORuns : is_terminal(world[q].status) => is_terminal(world'[q].status)
  PROVE  WaitSound'
<1>1. \A w \in Waiters : waits[w].settled \subseteq ORuns
  BY Zenon DEF WaitSound, Waiting
<1>2. ASSUME NEW w \in Waiters, NEW r \in waits[w].settled
      PROVE  is_terminal(world'[r].status) \/ (~waits[w].ask.terminal /\ Signal(waits[w].latch[r]))
  BY Zenon, <1>1, <1>2 DEF WaitSound, Grounded
<1> QED
  BY Zenon, <1>2 DEF WaitSound, Grounded

(* A step of one call leaves the others alone. *)
LEMMA OneCall ==
  ASSUME WaitSound, NEW w \in Waiters, NEW new, Waits(w, new), UNCHANGED world,
         Waiting(new), Grounded(new)
  PROVE  WaitSound'
<1>1. /\ waits' = [v \in Waiters |-> waits'[v]] /\ waits'[w] = new
      /\ \A v \in Waiters \ {w} : waits'[v] = waits[v]
  BY Zenon DEF WaitSound, Waits
<1>2. ASSUME NEW v \in Waiters PROVE Waiting(waits'[v]) /\ Grounded(waits'[v])
  BY Zenon, <1>1 DEF WaitSound
<1> QED
  BY Zenon, <1>1, <1>2 DEF WaitSound, Grounded

(* A call that has not begun is in order. *)
LEMMA AtRest ==
  ASSUME NEW ask \in AskedSet, NEW pc \in {"home", "poll"}
  PROVE  /\ Waiting([NotWaiting EXCEPT !.pc = pc, !.ask = ask])
         /\ Grounded([NotWaiting EXCEPT !.pc = pc, !.ask = ask])
         /\ NotWaiting.ask \in AskedSet /\ NotWaiting.pc = "home"
         /\ NotWaiting = [NotWaiting EXCEPT !.pc = NotWaiting.pc, !.ask = NotWaiting.ask]
<1> DEFINE new == [NotWaiting EXCEPT !.pc = pc, !.ask = ask]
<1>1. 1 \in 1..LastRun + 1 /\ 0 \in Nat
  BY SMTT(60), ObserversAssumption
<1>2. /\ new = [x \in WaitFields |-> new[x]] /\ new.pc = pc /\ new.ask = ask /\ new.at = 1
      /\ new.elapsed = 0 /\ new.settled = {} /\ new.stop = "none"
      /\ new.latch = [r \in ORuns |-> NoVerdict] /\ new.told = [r \in ORuns |-> NoOutcome]
  BY Zenon DEF NotWaiting, WaitFields
<1> HIDE DEF new
<1>3. new.latch = [r \in ORuns |-> new.latch[r]] /\ new.told = [r \in ORuns |-> new.told[r]]
  BY Zenon, <1>2
<1>4. Waiting(new)
  BY Zenon, <1>1, <1>2, <1>3 DEF Waiting, Deadlined
<1>5. Grounded(new)
  BY Zenon, <1>2 DEF Grounded
<1>6. NotWaiting.ask \in AskedSet /\ NotWaiting.pc = "home"
  BY Zenon, <1>1 DEF NotWaiting, AskedSet
<1>7. NotWaiting = [NotWaiting EXCEPT !.pc = NotWaiting.pc, !.ask = NotWaiting.ask]
  BY Zenon DEF NotWaiting
<1> QED
  BY Zenon, <1>4, <1>5, <1>6, <1>7 DEF new

(* `run wait` begins with nothing counted ... *)
LEMMA WaitStarts ==
  ASSUME WaitSound, NEW w \in Waiters, NEW ask \in Errands, StartWait(w, ask)
  PROVE  WaitSound'
<1>1. ask \in AskedSet
  BY Zenon, ObserversAssumption DEF AskedSet
<1> QED
  BY Zenon, <1>1, AtRest, OneCall DEF StartWait

(* ... and ends. *)
LEMMA WaitLeaves ==
  ASSUME WaitSound, NEW w \in Waiters, LeaveWait(w)
  PROVE  WaitSound'
<1>1. NotWaiting.ask \in AskedSet /\ NotWaiting.pc \in {"home", "poll"}
  <2>1. NotWaiting.ask \in AskedSet /\ NotWaiting.pc = "home"
    <3>1. 0 \in Nat
      OBVIOUS
    <3> QED
      BY Zenon, <3>1 DEF NotWaiting, AskedSet
  <2> QED
    BY Zenon, <2>1
<1>2. Waiting(NotWaiting) /\ Grounded(NotWaiting)
  BY Zenon, <1>1, AtRest
<1> QED
  BY Zenon, <1>2, OneCall DEF LeaveWait

(* A poll notes what it saw of the next run. *)
LEMMA WaitPolls ==
  ASSUME WaitSound, NEW w \in Waiters, PollRun(w)
  PROVE  WaitSound'
<1> DEFINE me == waits[w]
           r == me.at
           v == current_settle(r)
           counted == Counts(world[r].status, v, me.ask.terminal)
           new == [me EXCEPT !.at = r + 1, !.latch[r] = v,
                             !.settled = IF counted THEN @ \cup {r} ELSE @]
<1>1. Waiting(me) /\ Grounded(me) /\ me.pc = "poll" /\ r \in ORuns /\ Waits(w, new) /\ UNCHANGED world
  BY Zenon DEF WaitSound, PollRun, Place
<1>2. /\ new = [x \in WaitFields |-> new[x]] /\ new.at = r + 1 /\ new.latch = [me.latch EXCEPT ![r] = v]
      /\ new.settled = IF counted THEN me.settled \cup {r} ELSE me.settled
      /\ new.pc = "poll" /\ new.ask = me.ask /\ new.elapsed = me.elapsed /\ new.stop = me.stop
      /\ new.told = me.told
  BY Zenon, <1>1 DEF Waiting, WaitFields
<1>8. counted => is_terminal(world[r].status) \/ (~me.ask.terminal /\ Signal(v))
  BY Zenon DEF Counts, Signal
<1> HIDE DEF new, v, counted, r
<1>10. r = me.at
  BY Zenon DEF r
<1>3. /\ r + 1 \in 1..LastRun + 1 /\ r < r + 1 /\ \A q \in ORuns : q < r => q < r + 1 /\ q # r
  BY SMTT(60), <1>1, ObserversAssumption DEF ORuns
<1>4. /\ new.latch = [q \in ORuns |-> new.latch[q]] /\ new.latch[r] = v
      /\ \A q \in ORuns \ {r} : new.latch[q] = me.latch[q]
  BY Zenon, <1>1, <1>2 DEF Waiting
<1>5. new.settled \subseteq ORuns /\ \A q \in new.settled : q = r \/ q \in me.settled
  BY ZenonT(60), <1>1, <1>2 DEF Waiting
<1>6. \A q \in me.settled : q # r /\ q < r + 1
  BY Zenon, <1>1, <1>3, <1>10 DEF Waiting
<1>7. Waiting(new)
  BY ZenonT(60), <1>1, <1>2, <1>3, <1>4, <1>5, <1>6 DEF Waiting, Deadlined
<1>9. Grounded(new)
  BY Zenon, <1>1, <1>2, <1>4, <1>5, <1>6, <1>8 DEF Grounded, Waiting
<1> QED
  BY Zenon, <1>1, <1>7, <1>9, OneCall

(* The end of a poll stops for a reason or begins another. *)
LEMMA WaitDecides ==
  ASSUME WaitSound, NEW w \in Waiters, Decide(w)
  PROVE  WaitSound'
<1> DEFINE me == waits[w]
           stop == IF Met(w) THEN "condition-met" ELSE deadline_stop(me.ask, me.elapsed)
<1>1. Waiting(me) /\ Grounded(me) /\ me.pc = "poll" /\ UNCHANGED world /\ me.stop = "none"
      /\ (Met(w) <=> MetBy(me))
  BY Zenon DEF WaitSound, Decide, Waiting, Met, MetBy
<1>2. 1 \in 1..LastRun + 1 /\ \A q \in ORuns : ~(q < 1)
  BY SMTT(60), ObserversAssumption DEF ORuns
<1>3. CASE stop # "none"
  <2> DEFINE new == [me EXCEPT !.pc = "outcome", !.at = 1, !.stop = stop]
  <2>1. Waits(w, new)
    BY Zenon, <1>3 DEF Decide
  <2>2. /\ new = [x \in WaitFields |-> new[x]] /\ new.at = 1 /\ new.latch = me.latch
        /\ new.settled = me.settled /\ new.pc = "outcome" /\ new.ask = me.ask
        /\ new.elapsed = me.elapsed /\ new.stop = stop /\ new.told = me.told
    BY Zenon, <1>1 DEF Waiting, WaitFields
  <2> HIDE DEF new
  <2>3. MetBy(new) <=> MetBy(me)
    BY Zenon, <2>2 DEF MetBy
  <2>4. new.stop = "condition-met" => MetBy(new)
    <3>1. deadline_stop(me.ask, me.elapsed) # "condition-met"
      BY Zenon DEF deadline_stop
    <3> QED
      BY Zenon, <1>1, <2>2, <2>3, <3>1
  <2>5. me.ask.timeout \in Nat /\ me.ask.check \in Nat /\ me.elapsed \in Nat
    BY Zenon, <1>1 DEF Waiting, AskedSet
  <2>6. /\ deadline_stop(me.ask, me.elapsed) = "timed-out" =>
             me.ask.check = 0 \/ me.ask.timeout <= me.ask.check
        /\ deadline_stop(me.ask, me.elapsed) = "check-in" =>
             me.ask.timeout = 0 \/ me.ask.check < me.ask.timeout
    BY SMTT(60), <2>5 DEF deadline_stop
  <2>10. /\ stop = "condition-met" => Met(w)
         /\ stop # "condition-met" => stop = deadline_stop(me.ask, me.elapsed)
         /\ stop \in {"timed-out", "check-in"} => ~Met(w)
    <3>1. deadline_stop(me.ask, me.elapsed) # "condition-met"
      BY Zenon DEF deadline_stop
    <3> QED
      BY Zenon, <3>1
  <2> HIDE DEF stop
  <2>7. Deadlined(new)
    BY Zenon, <1>1, <2>2, <2>3, <2>6, <2>10 DEF Deadlined
  <2>8. Waiting(new)
    BY Zenon, <1>1, <1>2, <2>2, <2>4, <2>7 DEF Waiting
  <2>9. Grounded(new)
    BY Zenon, <1>1, <2>2 DEF Grounded
  <2> QED
    BY Zenon, <1>1, <2>1, <2>8, <2>9, OneCall
<1>4. CASE stop = "none"
  <2>1. PICK t \in me.elapsed..(IF me.ask.timeout + me.ask.check = 0 THEN 0 ELSE 3) :
          Waits(w, [me EXCEPT !.at = 1, !.elapsed = t, !.settled = {}, !.latch = NotWaiting.latch])
    BY Zenon, <1>4 DEF Decide
  <2> DEFINE new == [me EXCEPT !.at = 1, !.elapsed = t, !.settled = {}, !.latch = NotWaiting.latch]
  <2>2. /\ new = [x \in WaitFields |-> new[x]] /\ new.at = 1 /\ new.latch = NotWaiting.latch
        /\ new.settled = {} /\ new.pc = "poll" /\ new.ask = me.ask
        /\ new.elapsed = t /\ new.stop = "none" /\ new.told = me.told
    BY Zenon, <1>1 DEF Waiting, WaitFields
  <2> HIDE DEF new
  <2>3. t \in Nat
    <3>1. me.elapsed \in Nat
      BY Zenon, <1>1 DEF Waiting
    <3> QED
      BY SMTT(60), <3>1
  <2>4. new.latch = [q \in ORuns |-> new.latch[q]]
    BY Zenon, <2>2 DEF NotWaiting
  <2>5. Waiting(new)
    BY Zenon, <1>1, <1>2, <2>2, <2>3, <2>4 DEF Waiting, Deadlined
  <2>6. Grounded(new)
    BY Zenon, <2>2 DEF Grounded
  <2> QED
    BY Zenon, <1>1, <2>1, <2>5, <2>6, OneCall DEF new
<1> QED
  BY Zenon, <1>3, <1>4

(* The summary of a run is the verdict kept, unless the run has ended. *)
LEMMA WaitReads ==
  ASSUME Stage, WaitSound, NEW w \in Waiters, ReadOutcome(w)
  PROVE  WaitSound'
<1> DEFINE me == waits[w]
           r == me.at
           o == read_outcome(w, r)
           new == [me EXCEPT !.at = @ + 1, !.told[r] = o]
<1>1. /\ Waiting(me) /\ Grounded(me) /\ me.pc = "outcome" /\ r \in ORuns /\ Waits(w, new)
      /\ UNCHANGED world
  BY Zenon DEF WaitSound, ReadOutcome, Place
<1>2. /\ new = [x \in WaitFields |-> new[x]] /\ new.at = r + 1 /\ new.told = [me.told EXCEPT ![r] = o]
      /\ new.settled = me.settled /\ new.latch = me.latch
      /\ new.pc = "outcome" /\ new.ask = me.ask /\ new.elapsed = me.elapsed /\ new.stop = me.stop
  BY Zenon, <1>1 DEF Waiting, WaitFields
<1>3. world[r].status \in Statuses
  BY Zenon, <1>1 DEF Stage, RunTyped
<1>4. o.status = world[r].status
  BY Zenon DEF read_outcome
<1>5. r \in me.settled => Explained(o) /\ (is_terminal(o.status) \/ ~me.ask.terminal)
  <2>1. CASE is_terminal(world[r].status)
    BY Zenon, <1>4, <2>1 DEF Explained
  <2>2. ASSUME r \in me.settled, ~is_terminal(world[r].status)
        PROVE  Explained(o) /\ ~me.ask.terminal
    <3>1. ~me.ask.terminal /\ Signal(me.latch[r])
      BY Zenon, <1>1, <2>2 DEF Grounded
    <3>2. /\ o.attention = (TRUE /\ me.latch[r].attention)
          /\ o.stalled = (~me.latch[r].attention /\ me.latch[r].stall)
          /\ o.awaiting = (me.latch[r].ask # 0)
          /\ o.caller = (TRUE /\ me.latch[r].caller) /\ o.round = (me.latch[r].round # 0)
      BY Zenon, <2>2, <3>1 DEF read_outcome
    <3> QED
      BY Zenon, <3>1, <3>2 DEF Explained, Signal
  <2> QED
    BY Zenon, <2>1, <2>2
<1> HIDE DEF new, o, r
<1>6. r = me.at
  BY Zenon DEF r
<1>7. /\ r + 1 \in 1..LastRun + 1 /\ \A q \in ORuns : q < r + 1 => q = r \/ q < r
  BY SMTT(60), <1>1, ObserversAssumption DEF ORuns
<1>8. /\ new.told = [q \in ORuns |-> new.told[q]] /\ new.told[r] = o
      /\ \A q \in ORuns \ {r} : new.told[q] = me.told[q]
  BY Zenon, <1>1, <1>2 DEF Waiting
<1>9. \A q \in ORuns : q < r + 1 => Reasoned(new, q)
  BY ZenonT(60), <1>1, <1>2, <1>3, <1>4, <1>5, <1>6, <1>7, <1>8 DEF Waiting, Reasoned
<1>10. (MetBy(new) <=> MetBy(me)) /\ (Deadlined(me) => Deadlined(new))
  BY Zenon, <1>2 DEF MetBy, Deadlined
<1>11. Waiting(new)
  BY ZenonT(60), <1>1, <1>2, <1>7, <1>8, <1>9, <1>10 DEF Waiting
<1>12. Grounded(new)
  BY Zenon, <1>1, <1>2 DEF Grounded
<1> QED
  BY Zenon, <1>1, <1>11, <1>12, OneCall

(* The answer is given once every summary is there. *)
LEMMA WaitAnswers ==
  ASSUME WaitSound, NEW w \in Waiters, AnswerWait(w)
  PROVE  WaitSound'
<1> DEFINE me == waits[w]
           new == [me EXCEPT !.pc = "said", !.exit = exit_code(w)]
<1>1. /\ Waiting(me) /\ Grounded(me) /\ me.pc = "outcome" /\ me.at = LastRun + 1 /\ Waits(w, new)
      /\ UNCHANGED world
  BY Zenon DEF WaitSound, AnswerWait, Place
<1>2. /\ new = [x \in WaitFields |-> new[x]] /\ new.at = me.at /\ new.told = me.told
      /\ new.settled = me.settled /\ new.latch = me.latch /\ new.exit = exit_code(w)
      /\ new.pc = "said" /\ new.ask = me.ask /\ new.elapsed = me.elapsed /\ new.stop = me.stop
  BY Zenon, <1>1 DEF Waiting, WaitFields
<1>3. any_settled_error(w) <=> ErrorIn(me)
  BY Zenon DEF any_settled_error, ErrorIn
<1>4. exit_code(w) = ExitOf(me)
  BY Zenon, <1>3 DEF exit_code, ExitOf
<1> HIDE DEF new
<1>5. ErrorIn(new) <=> ErrorIn(me)
  BY Zenon, <1>2 DEF ErrorIn
<1>6. ExitOf(new) = ExitOf(me)
  BY Zenon, <1>2, <1>5 DEF ExitOf
<1>7. \A q \in ORuns : q < me.at
  BY SMTT(60), <1>1, ObserversAssumption DEF ORuns
<1>8. \A q \in ORuns : Reasoned(new, q)
  BY Zenon, <1>1, <1>2, <1>7 DEF Waiting, Reasoned
<1>9. (MetBy(new) <=> MetBy(me)) /\ (Deadlined(me) => Deadlined(new))
  BY Zenon, <1>2 DEF MetBy, Deadlined
<1>10. Waiting(new)
  BY Zenon, <1>1, <1>2, <1>4, <1>6, <1>8, <1>9 DEF Waiting
<1>11. Grounded(new)
  BY Zenon, <1>1, <1>2 DEF Grounded
<1> QED
  BY Zenon, <1>1, <1>10, <1>11, OneCall

(* What a sound wait answers holds together. *)
LEMMA WaitAnswersRight ==
  ASSUME WaitSound
  PROVE  ConditionIsExplained /\ CleanExitIsClean /\ StopIsTheEarlierDeadline
<1>1. ASSUME NEW w \in Waiters, Said(w)
      PROVE  LET why == {r \in ORuns : Explained(waits[w].told[r])}
             IN  IF waits[w].ask.any THEN why # {} ELSE why = ORuns
  <2>1. Waiting(waits[w]) /\ MetBy(waits[w])
    BY Zenon, <1>1 DEF WaitSound, Waiting, Said
  <2>2. waits[w].settled \subseteq ORuns /\ \A r \in waits[w].settled : Explained(waits[w].told[r])
    BY Zenon, <1>1, <2>1 DEF Waiting, Reasoned, Said
  <2> QED
    BY Zenon, <2>1, <2>2 DEF MetBy
<1>2. ASSUME NEW w \in Waiters, Said(w), waits[w].ask.fail, ~waits[w].ask.any, waits[w].exit = 0,
             NEW r \in ORuns
      PROVE  LET o == waits[w].told[r]
             IN  \/ o.status = "done" /\ ~o.leftover
                 \/ o.status = "pending" /\ o.round /\ ~o.stalled /\ ~o.attention
  <2> DEFINE me == waits[w]
             o == me.told[r]
  <2>1. Waiting(me) /\ MetBy(me) /\ me.pc = "said" /\ me.stop = "condition-met"
    BY Zenon, <1>2 DEF WaitSound, Waiting, Said
  <2>2. me.settled = ORuns
    BY Zenon, <1>2, <2>1 DEF MetBy
  <2>3. /\ o.status \in Statuses /\ Explained(o)
        /\ is_terminal(o.status) \/ ~me.ask.terminal
    BY Zenon, <2>1, <2>2 DEF Waiting, Reasoned
  <2>4. 3 # 0
    OBVIOUS
  <2>5. ~ErrorIn(me)
    <3>1. me.exit = ExitOf(me)
      BY Zenon, <2>1 DEF Waiting
    <3>2. ErrorIn(me) => ExitOf(me) = 3
      BY Zenon, <1>2, <2>1 DEF ExitOf
    <3> QED
      BY Zenon, <1>2, <2>4, <3>1, <3>2
  <2>6. (me.ask.terminal => is_terminal(o.status)) =>
          /\ o.status \notin {"failed", "cancelled"} /\ ~o.stalled /\ ~o.attention
          /\ ~o.awaiting /\ ~o.caller /\ ~o.leftover
    BY Zenon, <2>5 DEF ErrorIn
  <2> QED
    BY Zenon, <2>3, <2>6 DEF Statuses, Explained, is_terminal
<1>3. ASSUME NEW w \in Waiters
      PROVE  LET me == waits[w]
             IN  /\ me.stop = "timed-out" => me.ask.check = 0 \/ me.ask.timeout <= me.ask.check
                 /\ me.stop = "check-in" => me.ask.timeout = 0 \/ me.ask.check < me.ask.timeout
                 /\ me.stop \in {"timed-out", "check-in"} => ~Met(w)
  BY Zenon DEF WaitSound, Waiting, Deadlined, Met, MetBy
<1>4. ConditionIsExplained
  BY Zenon, <1>1 DEF ConditionIsExplained
<1>5. CleanExitIsClean
  BY Zenon, <1>2 DEF CleanExitIsClean
<1>6. StopIsTheEarlierDeadline
  BY Zenon, <1>3 DEF StopIsTheEarlierDeadline
<1> QED
  BY Zenon, <1>4, <1>5, <1>6

-------------------------------------------------------------------------------

(* Pages are counted apart for each signal and generation. *)
OneMore(f, s, g) == [f EXCEPT ![s] = [f[s] EXCEPT ![g] = f[s][g] + 1]]

Recounted(e, f, s, g) ==
  /\ e \in [Signals -> [Gens -> Nat]] /\ e[s][g] = f[s][g] + 1
  /\ \A t \in Signals, h \in Gens : t # s \/ h # g => e[t][h] = f[t][h]

LEMMA CountEdits ==
  ASSUME NEW f \in [Signals -> [Gens -> Nat]], NEW s \in Signals, NEW g \in Gens
  PROVE  Recounted(OneMore(f, s, g), f, s, g)
<1> DEFINE row == [f[s] EXCEPT ![g] = f[s][g] + 1]
           e == [f EXCEPT ![s] = row]
<1>1. f[s] \in [Gens -> Nat] /\ f[s][g] \in Nat
  BY Zenon
<1>2. f[s][g] + 1 \in Nat
  BY SMTT(60), <1>1
<1>3. row \in [Gens -> Nat] /\ row[g] = f[s][g] + 1 /\ \A h \in Gens : h # g => row[h] = f[s][h]
  BY Zenon, <1>1, <1>2
<1>4. OneMore(f, s, g) = e
  BY Zenon DEF OneMore
<1> HIDE DEF row
<1>5. e \in [Signals -> [Gens -> Nat]] /\ e[s] = row /\ \A t \in Signals : t # s => e[t] = f[t]
  BY Zenon, <1>3
<1> HIDE DEF e
<1>6. Recounted(e, f, s, g)
  BY Zenon, <1>3, <1>5 DEF Recounted
<1> QED
  BY Zenon, <1>4, <1>6

(* A candidate is read. *)
LEMMA PageRead ==
  ASSUME Stage, PagerSound, NEW signal \in Signals, Candidate(signal)
  PROVE  PagerSound'
<1> DEFINE new == [pager EXCEPT !.pc = "fire", !.page = [signal |-> signal, gen |-> OpenGen(signal)]]
<1>1. pager' = new /\ OpenGen(signal) # 0 /\ pager.pc = "idle"
  BY Zenon DEF Candidate, Page
<1>2. OpenGen(signal) \in 0..MaxGen /\ OpenGen(signal) \in Gens
  <2>1. 1 \in ORuns
    BY SMTT(60), ObserversAssumption DEF ORuns
  <2>2. OpenGen(signal) \in 0..MaxGen
    BY Zenon, <2>1 DEF Stage, RunTyped, OpenGen
  <2>3. OpenGen(signal) \in Gens
    BY SMTT(60), <1>1, <2>2, ObserversAssumption DEF Gens
  <2> QED
    BY Zenon, <2>2, <2>3
<1>3. /\ new = [x \in PagerFields |-> new[x]] /\ new.pc = "fire"
      /\ new.page = [signal |-> signal, gen |-> OpenGen(signal)]
      /\ new.told = pager.told /\ new.marked = pager.marked /\ new.fired = pager.fired
      /\ new.slips = pager.slips
  BY Zenon DEF PagerSound, PagerTyped, PagerFields
<1> HIDE DEF new
<1>6. new.page \in [signal : Signals, gen : 0..MaxGen] /\ new.page.gen \in Gens
  BY SMTT(60), <1>2, <1>3
<1>4. PagerTyped(new)
  BY Zenon, <1>3, <1>6 DEF PagerSound, PagerTyped
<1>5. Counted(new)
  BY ZenonT(60), <1>1, <1>3 DEF PagerSound, Counted, Marking
<1> QED
  BY Zenon, <1>1, <1>3, <1>4, <1>5 DEF PagerSound, PageIsCurrent

(* A page that is not sent, or whose hook fails, changes no count. *)
LEMMA PageDropped ==
  ASSUME PagerSound, NEW new, pager' = new, pager.pc # "mark", new.pc = "idle",
         new = [x \in PagerFields |-> new[x]], new.page = NoPage,
         new.told = [s \in Signals |-> new.told[s]],
         new.marked = pager.marked, new.fired = pager.fired, new.slips = pager.slips
  PROVE  PagerSound'
<1>1. NoPage \in [signal : Signals, gen : 0..MaxGen]
  BY Zenon, GenEdits DEF NoPage, Signals
<1>2. PagerTyped(new)
  BY Zenon, <1>1 DEF PagerSound, PagerTyped
<1>3. Counted(new)
  BY SMTT(60) DEF PagerSound, Counted, Marking
<1> QED
  BY Zenon, <1>2, <1>3 DEF PagerSound, PageIsCurrent

(* A page is sent while its question is open, if nothing marks it yet. *)
LEMMA PageFires ==
  ASSUME PagerSound, FirePage
  PROVE  PagerSound'
<1> DEFINE page == pager.page
           send == still_open(page) /\ ~find_prior(page)
           sent == [pager EXCEPT !.pc = "mark", !.fired[page.signal][page.gen] = @ + 1]
<1>0. pager.pc = "fire" /\ page.signal \in Signals /\ page.gen \in Gens
      /\ UNCHANGED world
  BY Zenon DEF FirePage, PagerSound, PagerTyped, Page
<1>1. CASE pager' = Dismissed(pager)
  <2>1. /\ pager'.pc = "idle" /\ pager' = [x \in PagerFields |-> pager'[x]] /\ pager'.page = NoPage
        /\ pager'.told = [pager.told EXCEPT ![page.signal] = page.gen]
        /\ pager'.marked = pager.marked /\ pager'.fired = pager.fired /\ pager'.slips = pager.slips
    BY Zenon, <1>1 DEF Dismissed, PagerSound, PagerTyped, PagerFields
  <2>2. pager'.told = [s \in Signals |-> pager'.told[s]]
    BY Zenon, <2>1 DEF PagerSound, PagerTyped
  <2> QED
    BY Zenon, <1>0, <2>1, <2>2, PageDropped
<1>2. CASE pager' = [pager EXCEPT !.pc = "idle", !.page = NoPage]
  <2>1. /\ pager'.pc = "idle" /\ pager' = [x \in PagerFields |-> pager'[x]] /\ pager'.page = NoPage
        /\ pager'.told = pager.told
        /\ pager'.marked = pager.marked /\ pager'.fired = pager.fired /\ pager'.slips = pager.slips
    BY Zenon, <1>2 DEF PagerSound, PagerTyped, PagerFields
  <2>2. pager'.told = [s \in Signals |-> pager'.told[s]]
    BY Zenon, <2>1 DEF PagerSound, PagerTyped
  <2> QED
    BY Zenon, <1>0, <2>1, <2>2, PageDropped
<1>3. CASE send /\ pager' = sent
  <2>1. /\ pager' = [x \in PagerFields |-> pager'[x]] /\ pager'.pc = "mark" /\ pager'.page = page
        /\ pager'.told = pager.told /\ pager'.marked = pager.marked /\ pager'.slips = pager.slips
        /\ pager'.fired = [pager.fired EXCEPT ![page.signal] =
                             [pager.fired[page.signal] EXCEPT ![page.gen] =
                                pager.fired[page.signal][page.gen] + 1]]
    BY ZenonT(60), <1>3 DEF PagerSound, PagerTyped, PagerFields
  <2>2. /\ pager'.fired \in [Signals -> [Gens -> Nat]]
        /\ pager'.fired[page.signal][page.gen] = pager.fired[page.signal][page.gen] + 1
        /\ \A t \in Signals, h \in Gens : t # page.signal \/ h # page.gen =>
             pager'.fired[t][h] = pager.fired[t][h]
    <3>1. pager.fired \in [Signals -> [Gens -> Nat]]
      BY Zenon DEF PagerSound, PagerTyped
    <3>2. pager'.fired = OneMore(pager.fired, page.signal, page.gen)
      BY Zenon, <2>1 DEF OneMore
    <3>3. Recounted(OneMore(pager.fired, page.signal, page.gen), pager.fired, page.signal, page.gen)
      BY Zenon, <1>0, <3>1, CountEdits
    <3>4. Recounted(pager'.fired, pager.fired, page.signal, page.gen)
      BY ONLY <3>2, <3>3, Zenon
    <3> QED
      BY Zenon, <3>4 DEF Recounted
  <2>3. PagerTyped(pager')
    BY Zenon, <1>0, <2>1, <2>2 DEF PagerSound, PagerTyped
  <2>4. page.gen \notin pager.marked[page.signal]
    BY Zenon, <1>3 DEF find_prior
  <2>5. Counted(pager')
    <3>1. ASSUME NEW s \in Signals, NEW g \in Gens
          PROVE  /\ Marking(pager', s, g) => g \notin pager'.marked[s]
                 /\ Marking(pager', s, g) \/ g \in pager'.marked[s] =>
                      pager'.fired[s][g] = pager'.slips[s][g] + 1
                 /\ ~Marking(pager', s, g) /\ g \notin pager'.marked[s] =>
                      pager'.fired[s][g] = pager'.slips[s][g]
      <4>1. /\ ~Marking(pager, s, g)
            /\ g \in pager.marked[s] => pager.fired[s][g] = pager.slips[s][g] + 1
            /\ g \notin pager.marked[s] => pager.fired[s][g] = pager.slips[s][g]
        BY Zenon, <1>0 DEF PagerSound, Counted, Marking
      <4>2. CASE s = page.signal /\ g = page.gen
        BY ZenonT(60), <1>0, <2>1, <2>2, <2>4, <4>1, <4>2 DEF Marking
      <4>3. CASE s # page.signal \/ g # page.gen
        BY Zenon, <2>1, <2>2, <4>1, <4>3 DEF Marking
      <4> QED
        BY Zenon, <4>2, <4>3
    <3> QED
      BY Zenon, <3>1 DEF Counted
  <2>6. PageIsCurrent'
    BY Zenon, <1>0, <1>3, <2>1 DEF PageIsCurrent, still_open, OpenGen
  <2> QED
    BY Zenon, <2>3, <2>5, <2>6 DEF PagerSound
<1> QED
  BY Zenon, <1>1, <1>2, <1>3 DEF FirePage, Page

(* A page whose marker is lost may be repeated. *)
LEMMA PageLost ==
  ASSUME PagerSound, pager.pc = "mark", NEW new, pager' = new,
         new = [x \in PagerFields |-> new[x]], new.pc = "idle", new.page = NoPage,
         new.told = [s \in Signals |-> new.told[s]],
         new.marked = pager.marked, new.fired = pager.fired,
         new.slips = unmarked
  PROVE  PagerSound'
<1> DEFINE page == pager.page
<1>0. page.signal \in Signals /\ page.gen \in Gens
  BY Zenon DEF PagerSound, PagerTyped
<1>1. /\ new.slips \in [Signals -> [Gens -> Nat]]
      /\ new.slips[page.signal][page.gen] = pager.slips[page.signal][page.gen] + 1
      /\ \A t \in Signals, h \in Gens : t # page.signal \/ h # page.gen =>
             new.slips[t][h] = pager.slips[t][h]
  <2>1. pager.slips \in [Signals -> [Gens -> Nat]]
    BY Zenon DEF PagerSound, PagerTyped
  <2>2. new.slips = OneMore(pager.slips, page.signal, page.gen)
    BY ZenonT(60) DEF unmarked, OneMore
  <2>3. Recounted(OneMore(pager.slips, page.signal, page.gen), pager.slips, page.signal, page.gen)
    BY Zenon, <1>0, <2>1, CountEdits
  <2>4. Recounted(new.slips, pager.slips, page.signal, page.gen)
    BY ONLY <2>2, <2>3, Zenon
  <2> QED
    BY Zenon, <2>4 DEF Recounted
<1>2. NoPage \in [signal : Signals, gen : 0..MaxGen]
  BY Zenon, GenEdits DEF NoPage, Signals
<1>3. PagerTyped(new)
  BY Zenon, <1>1, <1>2 DEF PagerSound, PagerTyped
<1>4. Counted(new)
  <2>1. ASSUME NEW s \in Signals, NEW g \in Gens
        PROVE  /\ ~Marking(new, s, g)
               /\ g \in new.marked[s] => new.fired[s][g] = new.slips[s][g] + 1
               /\ g \notin new.marked[s] => new.fired[s][g] = new.slips[s][g]
    <3>1. CASE s = page.signal /\ g = page.gen
      <4>1. Marking(pager, s, g)
        BY Zenon, <3>1 DEF Marking
      <4>2. g \notin pager.marked[s] /\ pager.fired[s][g] = pager.slips[s][g] + 1
        BY Zenon, <4>1 DEF PagerSound, Counted
      <4> QED
        BY Zenon, <1>1, <3>1, <4>2 DEF Marking
    <3>2. CASE s # page.signal \/ g # page.gen
      <4>1. ~Marking(pager, s, g)
        BY Zenon, <3>2 DEF Marking
      <4>2. /\ g \in pager.marked[s] => pager.fired[s][g] = pager.slips[s][g] + 1
            /\ g \notin pager.marked[s] => pager.fired[s][g] = pager.slips[s][g]
        BY Zenon, <4>1 DEF PagerSound, Counted
      <4> QED
        BY Zenon, <1>1, <3>2, <4>2 DEF Marking
    <3> QED
      BY Zenon, <3>1, <3>2
  <2> QED
    BY Zenon, <2>1 DEF Counted
<1> QED
  BY Zenon, <1>3, <1>4 DEF PagerSound, PageIsCurrent

(* A page is marked, or its marker is lost. *)
LEMMA PageMarks ==
  ASSUME PagerSound, MarkPage
  PROVE  PagerSound'
<1> DEFINE page == pager.page
<1>0. pager.pc = "mark" /\ page.signal \in Signals /\ page.gen \in Gens
  BY Zenon DEF MarkPage, PagerSound, PagerTyped
<1>1. CASE pager' = [Dismissed(pager) EXCEPT !.marked[page.signal] = @ \cup {page.gen}]
  <2>1. /\ pager' = [x \in PagerFields |-> pager'[x]] /\ pager'.pc = "idle" /\ pager'.page = NoPage
        /\ pager'.told = [pager.told EXCEPT ![page.signal] = page.gen]
        /\ pager'.marked = [pager.marked EXCEPT ![page.signal] = pager.marked[page.signal] \cup {page.gen}]
        /\ pager'.fired = pager.fired /\ pager'.slips = pager.slips
    BY Zenon, <1>1 DEF Dismissed, PagerSound, PagerTyped, PagerFields
  <2>2. /\ pager'.told = [s \in Signals |-> pager'.told[s]]
        /\ pager'.marked \in [Signals -> SUBSET Gens]
        /\ \A s \in Signals, g \in Gens :
             g \in pager'.marked[s] <=> g \in pager.marked[s] \/ Marking(pager, s, g)
    <3>1. pager.told = [s \in Signals |-> pager.told[s]] /\ pager.marked \in [Signals -> SUBSET Gens]
      BY Zenon DEF PagerSound, PagerTyped
    <3>2. pager'.told = [s \in Signals |-> pager'.told[s]]
      BY Zenon, <2>1, <3>1
    <3>3. pager'.marked \in [Signals -> SUBSET Gens]
      BY SMTT(60), <1>0, <2>1, <3>1
    <3>4. \A s \in Signals : s # page.signal => pager'.marked[s] = pager.marked[s]
      BY Zenon, <2>1, <3>1
    <3>5. pager'.marked[page.signal] = pager.marked[page.signal] \cup {page.gen}
      BY Zenon, <1>0, <2>1, <3>1
    <3> QED
      BY Zenon, <1>0, <3>2, <3>3, <3>4, <3>5 DEF Marking
  <2>3. NoPage \in [signal : Signals, gen : 0..MaxGen]
    BY Zenon, GenEdits DEF NoPage, Signals
  <2>4. PagerTyped(pager')
    BY Zenon, <2>1, <2>2, <2>3 DEF PagerSound, PagerTyped
  <2>5. Counted(pager')
    BY SMTT(60), <2>1, <2>2 DEF PagerSound, Counted, Marking
  <2> QED
    BY Zenon, <2>1, <2>4, <2>5 DEF PagerSound, PageIsCurrent
<1>2. CASE pager' = [pager EXCEPT !.pc = "idle", !.page = NoPage, !.slips = unmarked]
  <2>1. /\ pager' = [x \in PagerFields |-> pager'[x]] /\ pager'.pc = "idle" /\ pager'.page = NoPage
        /\ pager'.told = pager.told /\ pager'.marked = pager.marked /\ pager'.fired = pager.fired
        /\ pager'.slips = unmarked
    BY Zenon, <1>2 DEF PagerSound, PagerTyped, PagerFields
  <2>2. pager'.told = [s \in Signals |-> pager'.told[s]]
    BY Zenon, <2>1 DEF PagerSound, PagerTyped
  <2> QED
    BY Zenon, <1>0, <2>1, <2>2, PageLost
<1> QED
  BY Zenon, <1>1, <1>2 DEF MarkPage, Page

(* What the others do is out of the way of a page, but for the death of    *)
(* the supervisor that sends it.                                           *)
LEMMA PageKept ==
  ASSUME Stage, PagerSound, NEW r \in ORuns, WorldMoves(r)
  PROVE  PagerSound'
<1>1. /\ \A q \in ORuns \ {r} : world'[q] = world[q]
      /\ Moved(r, world'[r]) /\ (UNCHANGED pager \/ SupervisorDies(r))
  BY Zenon, MoveKeeps
<1>2. 1 \in ORuns
  BY SMTT(60), ObserversAssumption DEF ORuns
<1>3. CASE UNCHANGED pager
  <2>1. pager.pc = "mark" =>
          /\ world'[1].ask = world[1].ask /\ world'[1].round = world[1].round
          /\ world'[1].node = world[1].node /\ world'[1].exit = world[1].exit
          /\ world[1].ripe => world'[1].ripe
    <3>1. CASE r = 1
      BY Zenon, <1>1, <3>1 DEF Moved, Unlocked
    <3>2. CASE r # 1
      BY Zenon, <1>1, <1>2, <3>2
    <3> QED
      BY Zenon, <3>1, <3>2
  <2>2. PageIsCurrent'
    BY Zenon, <1>3, <2>1 DEF PagerSound, PageIsCurrent, OpenGen, is_terminal
  <2> QED
    BY Zenon, <1>3, <2>2 DEF PagerSound
<1>4. CASE SupervisorDies(r) /\ r = 1
  <2> DEFINE slips == IF pager.pc = "mark" THEN unmarked ELSE pager.slips
  <2>1. pager' = [pager EXCEPT !.pc = "idle", !.page = NoPage, !.told = [s \in Signals |-> 0],
                        !.slips = slips]
    BY Zenon, <1>4 DEF SupervisorDies
  <2>2. (pager.pc = "mark" => slips = unmarked) /\ (pager.pc # "mark" => slips = pager.slips)
    BY Zenon
  <2> HIDE DEF slips
  <2>4. /\ pager' = [x \in PagerFields |-> pager'[x]] /\ pager'.pc = "idle" /\ pager'.page = NoPage
        /\ pager'.told = [s \in Signals |-> 0]
        /\ pager'.marked = pager.marked /\ pager'.fired = pager.fired /\ pager'.slips = slips
    BY Zenon, <2>1 DEF PagerSound, PagerTyped, PagerFields
  <2>5. pager'.told = [s \in Signals |-> pager'.told[s]]
    BY Zenon, <2>4
  <2>6. CASE pager.pc = "mark"
    BY Zenon, <2>2, <2>4, <2>5, <2>6, PageLost
  <2>7. CASE pager.pc # "mark"
    BY Zenon, <2>2, <2>4, <2>5, <2>7, PageDropped
  <2> QED
    BY Zenon, <2>6, <2>7
<1>5. CASE SupervisorDies(r) /\ r # 1
  BY Zenon, <1>3, <1>5 DEF SupervisorDies
<1> QED
  BY Zenon, <1>1, <1>3, <1>4, <1>5

(* A sound pager pages once. *)
LEMMA PagesOnce == PagerSound => PageIsCurrent /\ PagedOnce
<1> SUFFICES ASSUME PagerSound PROVE PageIsCurrent /\ PagedOnce
  BY Zenon
<1>1. ASSUME NEW s \in Signals, NEW g \in Gens PROVE pager.fired[s][g] <= 1 + pager.slips[s][g]
  <2>1. pager.slips[s][g] \in Nat
    BY Zenon DEF PagerSound, PagerTyped
  <2>2. pager.fired[s][g] = pager.slips[s][g] + 1 \/ pager.fired[s][g] = pager.slips[s][g]
    BY Zenon DEF PagerSound, Counted
  <2> QED
    BY SMTT(60), <2>1, <2>2
<1> QED
  BY Zenon, <1>1 DEF PagerSound, PagedOnce

(* What the shape of the log says of one line. *)
LEMMA LineOf ==
  ASSUME NEW L, Halves(L), NEW n \in Nat
  PROVE  /\ Len(L) \in Nat
         /\ 2 * n + 1 <= Len(L) => /\ L[2 * n + 1] \in HalfSet
                                   /\ L[2 * n + 1].half = 1 /\ L[2 * n + 1].seq = n + 1
         /\ 2 * n + 2 <= Len(L) => /\ L[2 * n + 2] \in HalfSet
                                   /\ L[2 * n + 2].half = 2 /\ L[2 * n + 2].seq = n + 1
                                   /\ L[2 * n + 2].id = L[2 * n + 1].id
<1>1. L \in Seq(HalfSet) /\ Len(L) \in Nat
  BY SMTT(60) DEF Halves
<1>2. \A i \in 1..Len(L) : L[i] \in HalfSet
  BY SMTT(60), <1>1
<1>3. 2 * n + 1 <= Len(L) => n \in 0..Len(L) /\ 2 * n + 1 \in 1..Len(L)
  BY SMTT(60), <1>1
<1>4. 2 * n + 2 <= Len(L) => n \in 0..Len(L) /\ 2 * n + 2 \in 1..Len(L)
  BY SMTT(60), <1>1
<1> QED
  BY Zenon, <1>1, <1>2, <1>3, <1>4 DEF Halves

(* Every place of the log is a first half or a rest. *)
LEMMA PlaceOf ==
  ASSUME NEW k \in Nat
  PROVE  \E n \in Nat : k = 2 * n \/ k = 2 * n + 1
<1>1. k = 2 * (k \div 2) \/ k = 2 * (k \div 2) + 1
  BY SMTT(60)
<1>2. k \div 2 \in Nat
  BY SMTT(60)
<1> QED
  BY Zenon, <1>1, <1>2

(* A log that ends in a first half is of odd length. *)
LEMMA TornIsOdd ==
  ASSUME Halves(feed.lines)
  PROVE  /\ Torn => \E n \in Nat : Len(feed.lines) = 2 * n + 1
         /\ ~Torn => \E n \in Nat : Len(feed.lines) = 2 * n
<1> DEFINE L == feed.lines
<1>1. Len(L) \in Nat /\ (L = <<>> => Len(L) = 0) /\ (L # <<>> => Len(L) > 0)
  BY SMTT(60) DEF Halves
<1>2. PICK n \in Nat : Len(L) = 2 * n \/ Len(L) = 2 * n + 1
  BY Zenon, <1>1, PlaceOf
<1>3. CASE Len(L) = 2 * n /\ L # <<>>
  <2>1. n - 1 \in Nat /\ 2 * (n - 1) + 2 = Len(L) /\ 2 * (n - 1) + 2 <= Len(L)
    BY SMTT(60), <1>1, <1>2, <1>3
  <2>2. L[2 * (n - 1) + 2].half = 2
    BY Zenon, <2>1, LineOf
  <2>3. L[Len(L)].half = 2 /\ 2 # 1
    BY SMTT(60), <2>1, <2>2
  <2> QED
    BY Zenon, <1>3, <2>3 DEF Torn
<1>4. CASE Len(L) = 2 * n + 1
  <2>1. 2 * n + 1 <= Len(L) /\ L # <<>>
    BY SMTT(60), <1>1, <1>4
  <2>2. L[2 * n + 1].half = 1
    BY Zenon, <2>1, LineOf
  <2> QED
    BY Zenon, <1>4, <2>1, <2>2 DEF Torn
<1>5. CASE L = <<>>
  <2>1. Len(L) = 2 * 0 /\ 0 \in Nat
    BY SMTT(60), <1>1, <1>5
  <2> QED
    BY Zenon, <1>5, <2>1 DEF Torn
<1> QED
  BY Zenon, <1>2, <1>3, <1>4, <1>5

(* A writer's first half goes onto whole lines ... *)
LEMMA HalfWritten ==
  ASSUME NEW L, Halves(L), NEW m \in Nat, Len(L) = 2 * m, NEW id \in Nat
  PROVE  Halves(Append(L, [seq |-> m + 1, id |-> id, half |-> 1]))
<1> DEFINE c == [seq |-> m + 1, id |-> id, half |-> 1]
           K == Append(L, c)
<1>1. c \in HalfSet /\ c.seq = m + 1 /\ c.half = 1
  BY SMTT(60) DEF HalfSet
<1> HIDE DEF c
<1>2. /\ K \in Seq(HalfSet) /\ Len(K) = 2 * m + 1 /\ K[2 * m + 1] = c
      /\ \A i \in 1..2 * m : K[i] = L[i]
  BY SMTT(60), <1>1 DEF Halves
<1> HIDE DEF K
<1>3. ASSUME NEW n \in 0..Len(K)
      PROVE  /\ 2 * n + 1 <= Len(K) => K[2 * n + 1].half = 1 /\ K[2 * n + 1].seq = n + 1
             /\ 2 * n + 2 <= Len(K) => /\ K[2 * n + 2].half = 2 /\ K[2 * n + 2].seq = n + 1
                                       /\ K[2 * n + 2].id = K[2 * n + 1].id
  <2>1. n \in Nat
    BY SMTT(60), <1>2
  <2>2. CASE n = m
    BY SMTT(60), <1>1, <1>2, <2>2
  <2>3. CASE n < m
    <3>1. /\ 2 * n + 1 \in 1..2 * m /\ 2 * n + 2 \in 1..2 * m
          /\ 2 * n + 1 <= Len(L) /\ 2 * n + 2 <= Len(L)
      BY SMTT(60), <2>1, <2>3
    <3>2. K[2 * n + 1] = L[2 * n + 1] /\ K[2 * n + 2] = L[2 * n + 2]
      BY Zenon, <1>2, <3>1
    <3>3. /\ L[2 * n + 1].half = 1 /\ L[2 * n + 1].seq = n + 1
          /\ L[2 * n + 2].half = 2 /\ L[2 * n + 2].seq = n + 1
          /\ L[2 * n + 2].id = L[2 * n + 1].id
      BY Zenon, <2>1, <3>1, LineOf
    <3> QED
      BY Zenon, <3>2, <3>3
  <2>4. CASE n > m
    BY SMTT(60), <1>2, <2>1, <2>4
  <2> QED
    BY SMTT(60), <2>1, <2>2, <2>3, <2>4
<1> QED
  BY Zenon, <1>2, <1>3 DEF Halves, K, c

(* ... its rest onto the half ... *)
LEMMA RestWritten ==
  ASSUME NEW L, Halves(L), NEW m \in Nat, Len(L) = 2 * m + 1
  PROVE  Halves(Append(L, [L[Len(L)] EXCEPT !.half = 2]))
<1> DEFINE c == [L[Len(L)] EXCEPT !.half = 2]
           K == Append(L, c)
<1>0. 2 * m + 1 <= Len(L)
  BY SMTT(60)
<1>4. /\ L[2 * m + 1] \in HalfSet /\ L[2 * m + 1].half = 1 /\ L[2 * m + 1].seq = m + 1
  BY Zenon, <1>0, LineOf
<1>1. c \in HalfSet /\ c.seq = m + 1 /\ c.half = 2 /\ c.id = L[2 * m + 1].id
  BY SMTT(60), <1>4 DEF HalfSet
<1> HIDE DEF c
<1>2. /\ K \in Seq(HalfSet) /\ Len(K) = 2 * m + 2 /\ K[2 * m + 2] = c
      /\ \A i \in 1..2 * m + 1 : K[i] = L[i]
  BY SMTT(60), <1>1 DEF Halves
<1> HIDE DEF K
<1>3. ASSUME NEW n \in 0..Len(K)
      PROVE  /\ 2 * n + 1 <= Len(K) => K[2 * n + 1].half = 1 /\ K[2 * n + 1].seq = n + 1
             /\ 2 * n + 2 <= Len(K) => /\ K[2 * n + 2].half = 2 /\ K[2 * n + 2].seq = n + 1
                                       /\ K[2 * n + 2].id = K[2 * n + 1].id
  <2>1. n \in Nat
    BY SMTT(60), <1>2
  <2>2. CASE n = m
    <3>1. 2 * m + 1 \in 1..2 * m + 1
      BY SMTT(60)
    <3> QED
      BY Zenon, <1>1, <1>2, <1>4, <2>2, <3>1
  <2>3. CASE n < m
    <3>1. /\ 2 * n + 1 \in 1..2 * m + 1 /\ 2 * n + 2 \in 1..2 * m + 1
          /\ 2 * n + 1 <= Len(L) /\ 2 * n + 2 <= Len(L)
      BY SMTT(60), <2>1, <2>3
    <3>2. K[2 * n + 1] = L[2 * n + 1] /\ K[2 * n + 2] = L[2 * n + 2]
      BY Zenon, <1>2, <3>1
    <3>3. /\ L[2 * n + 1].half = 1 /\ L[2 * n + 1].seq = n + 1
          /\ L[2 * n + 2].half = 2 /\ L[2 * n + 2].seq = n + 1
          /\ L[2 * n + 2].id = L[2 * n + 1].id
      BY Zenon, <2>1, <3>1, LineOf
    <3> QED
      BY Zenon, <3>2, <3>3
  <2>4. CASE n > m
    BY SMTT(60), <1>2, <2>1, <2>4
  <2> QED
    BY SMTT(60), <2>1, <2>2, <2>3, <2>4
<1> QED
  BY Zenon, <1>2, <1>3 DEF Halves, K, c

(* ... and a half that a crash left is cut off. *)
LEMMA HalfCut ==
  ASSUME NEW L, Halves(L), NEW m \in Nat, Len(L) = 2 * m + 1
  PROVE  LET K == SubSeq(L, 1, Len(L) - 1)
         IN  Halves(K) /\ Len(K) = 2 * m /\ \A i \in 1..2 * m : K[i] = L[i]
<1> DEFINE K == SubSeq(L, 1, Len(L) - 1)
<1>2. /\ K \in Seq(HalfSet) /\ Len(K) = 2 * m /\ \A i \in 1..2 * m : K[i] = L[i]
  BY SMTT(60) DEF Halves
<1> HIDE DEF K
<1>3. ASSUME NEW n \in 0..Len(K)
      PROVE  /\ 2 * n + 1 <= Len(K) => K[2 * n + 1].half = 1 /\ K[2 * n + 1].seq = n + 1
             /\ 2 * n + 2 <= Len(K) => /\ K[2 * n + 2].half = 2 /\ K[2 * n + 2].seq = n + 1
                                       /\ K[2 * n + 2].id = K[2 * n + 1].id
  <2>1. n \in Nat
    BY SMTT(60), <1>2
  <2>3. CASE n < m
    <3>1. /\ 2 * n + 1 \in 1..2 * m /\ 2 * n + 2 \in 1..2 * m
          /\ 2 * n + 1 <= Len(L) /\ 2 * n + 2 <= Len(L)
      BY SMTT(60), <2>1, <2>3
    <3>2. K[2 * n + 1] = L[2 * n + 1] /\ K[2 * n + 2] = L[2 * n + 2]
      BY Zenon, <1>2, <3>1
    <3>3. /\ L[2 * n + 1].half = 1 /\ L[2 * n + 1].seq = n + 1
          /\ L[2 * n + 2].half = 2 /\ L[2 * n + 2].seq = n + 1
          /\ L[2 * n + 2].id = L[2 * n + 1].id
      BY Zenon, <2>1, <3>1, LineOf
    <3> QED
      BY Zenon, <3>2, <3>3
  <2>4. CASE n >= m
    BY SMTT(60), <1>2, <2>1, <2>4
  <2> QED
    BY SMTT(60), <2>1, <2>3, <2>4
<1> QED
  BY Zenon, <1>2, <1>3 DEF Halves, K

(* The places of the lines that were emitted have been read. *)
LEMMA EmittedPlaces ==
  ASSUME NEW last \in Nat, NEW from \in Nat \ {0}, NEW b \in Nat, NEW len \in Nat,
         last < from => len = 0, last >= from => len = last - from + 1, NEW i \in 1..len
  PROVE  2 * (from + i - 1) \in 1..2 * last + b
<1>1. i \in Nat /\ i >= 1 /\ i <= len
  BY SMTT(60)
<1>2. last >= from /\ from + i - 1 <= last /\ from + i - 1 >= 1 /\ from + i - 1 \in Nat
  BY SMTT(60), <1>1
<1> QED
  BY SMTT(60), <1>2

(* The last of a sequence that has grown, or one of those before it. *)
LEMMA LastOrBefore ==
  ASSUME NEW m \in Nat, NEW j \in 1..m + 1
  PROVE  j = m + 1 \/ j \in 1..m
BY SMTT(60)

(* One line more, and what is out then. *)
LEMMA OneMoreOut ==
  ASSUME NEW last \in Nat, NEW from \in Nat \ {0}, NEW len \in Nat, last + 1 >= from,
         last < from => len = 0, last >= from => len = last - from + 1
  PROVE  /\ len + 1 = (last + 1) - from + 1 /\ from + (len + 1) - 1 = last + 1
         /\ 2 * (last + 1) = 2 * last + 2 /\ ~(last + 1 < from)
<1>1. len + 1 = (last + 1) - from + 1
  <2>1. CASE last < from
    BY SMTT(60), <2>1
  <2>2. CASE last >= from
    BY SMTT(60), <2>2
  <2> QED
    BY SMTT(60), <2>1, <2>2
<1> QED
  BY SMTT(60), <1>1

(* A follower has what the log has as long as the log keeps what it read. *)
LEMMA TailKept ==
  ASSUME NEW t, NEW L, NEW K, TailTyped(t), TailShows(t, L), Len(L) \in Nat, Len(K) \in Nat,
         ~t.torn => t.pos <= Len(K) /\ \A i \in 1..t.pos : K[i] = L[i]
  PROVE  TailShows(t, K)
<1> SUFFICES ASSUME ~t.torn PROVE TailShows(t, K)
  BY Zenon DEF TailShows
<1>1. /\ t.pc # "failed" /\ t.pos <= Len(K) /\ \A i \in 1..t.pos : K[i] = L[i]
      /\ t.pos \in Nat /\ t.last \in Nat /\ t.from \in Nat \ {0} /\ Len(t.buf) \in Nat
      /\ t.pos = 2 * t.last + Len(t.buf) /\ Len(t.out) \in Nat
  <2>1. Len(t.buf) \in Nat /\ Len(t.out) \in Nat
    BY SMTT(60) DEF TailTyped
  <2> QED
    BY Zenon, <2>1 DEF TailTyped, TailShows
<1>2. Len(t.buf) = 1 => t.pos \in 1..t.pos
  BY SMTT(60), <1>1
<1>3. ASSUME NEW i \in 1..Len(t.out) PROVE 2 * (t.from + i - 1) \in 1..t.pos
  <2>1. (t.last < t.from => Len(t.out) = 0) /\ (t.last >= t.from => Len(t.out) = t.last - t.from + 1)
    BY Zenon DEF TailShows
  <2>2. 2 * (t.from + i - 1) \in 1..2 * t.last + Len(t.buf)
    BY Zenon, <1>1, <2>1, EmittedPlaces
  <2> QED
    BY Zenon, <1>1, <2>2
<1> QED
  BY Zenon, <1>1, <1>2, <1>3 DEF TailShows

(* The log keeps its shape, and the follower what it read, whatever a      *)
(* writer does.                                                            *)
LEMMA LogWritten ==
  ASSUME LogShape, TailSound, RepairTail \/ WriteHalf \/ WriteRest \/ WriterDies
  PROVE  LogShape' /\ TailSound'
<1> DEFINE L == feed.lines
<1>0. /\ Halves(L) /\ Len(L) \in Nat /\ feed.ids \in Nat /\ TailTyped(tail) /\ TailShows(tail, L)
      /\ tail.pos \in Nat
  <2>1. Halves(L) /\ feed.ids \in Nat /\ TailTyped(tail) /\ TailShows(tail, L) /\ tail.pos \in Nat
    BY Zenon DEF LogShape, TailSound, TailTyped
  <2>2. 0 \in Nat
    OBVIOUS
  <2> QED
    BY Zenon, <2>1, <2>2, LineOf
<1>1. CASE RepairTail
  <2>1. PICK m \in Nat : Len(L) = 2 * m + 1
    BY Zenon, <1>0, <1>1, TornIsOdd DEF RepairTail
  <2> DEFINE K == SubSeq(L, 1, Len(L) - 1)
             new == [tail EXCEPT !.torn = @ \/ tail.pos >= Len(L)]
  <2>2. Halves(K) /\ Len(K) = 2 * m /\ \A i \in 1..2 * m : K[i] = L[i]
    BY Zenon, <1>0, <2>1, HalfCut
  <2>3. /\ feed' = [x \in {"there", "lines", "ids", "writer"} |-> feed'[x]]
        /\ feed'.lines = K /\ feed'.ids = feed.ids /\ feed'.writer = "none" /\ tail' = new
    BY Zenon, <1>1 DEF RepairTail, Feed, LogShape
  <2>4. LogShape'
    BY Zenon, <1>0, <2>2, <2>3 DEF LogShape
  <2>5. /\ new = [x \in TailFields |-> new[x]] /\ new.pc = tail.pc /\ new.from = tail.from
        /\ new.pos = tail.pos /\ new.last = tail.last /\ new.buf = tail.buf /\ new.out = tail.out
        /\ new.torn = (tail.torn \/ tail.pos >= Len(L))
    BY Zenon, <1>0 DEF TailTyped, TailFields
  <2> HIDE DEF new, K
  <2>6. TailTyped(new)
    BY Zenon, <1>0, <2>5 DEF TailTyped
  <2>7. TailShows(new, L)
    BY Zenon, <1>0, <2>5 DEF TailShows
  <2>8. Len(K) \in Nat /\ (~new.torn => new.pos <= Len(K) /\ \A i \in 1..new.pos : K[i] = L[i])
    <3>1. ~new.torn => ~(tail.pos >= Len(L)) /\ new.pos = tail.pos
      BY Zenon, <2>5
    <3>2. ~(tail.pos >= Len(L)) => tail.pos <= 2 * m /\ \A i \in 1..tail.pos : i \in 1..2 * m
      BY SMTT(60), <1>0, <2>1
    <3>3. Len(K) \in Nat
      BY SMTT(60), <2>2
    <3> QED
      BY Zenon, <2>2, <3>1, <3>2, <3>3
  <2>9. TailShows(new, K)
    BY Zenon, <1>0, <2>6, <2>7, <2>8, TailKept
  <2> QED
    BY Zenon, <2>3, <2>4, <2>6, <2>9 DEF TailSound
<1>2. CASE WriteHalf
  <2>1. PICK m \in Nat : Len(L) = 2 * m
    BY Zenon, <1>0, <1>2, TornIsOdd DEF WriteHalf
  <2> DEFINE c == [seq |-> m + 1, id |-> feed.ids + 1, half |-> 1]
             K == Append(L, c)
  <2>2. Len(L) \div 2 + 1 = m + 1 /\ feed.ids + 1 \in Nat
    BY SMTT(60), <1>0, <2>1
  <2>3. Halves(K)
    BY Zenon, <1>0, <2>1, <2>2, HalfWritten
  <2>4. feed' = [there |-> TRUE, ids |-> feed.ids + 1, writer |-> "mid", lines |-> K]
    BY Zenon, <1>2, <2>2 DEF WriteHalf, Feed
  <2>5. /\ feed' = [x \in {"there", "lines", "ids", "writer"} |-> feed'[x]]
        /\ feed'.lines = K /\ feed'.ids = feed.ids + 1 /\ UNCHANGED tail
    BY Zenon, <1>2, <2>4 DEF WriteHalf
  <2>6. /\ Len(K) \in Nat /\ Len(L) <= Len(K) /\ \A i \in 1..Len(L) : K[i] = L[i]
        /\ K # <<>> /\ K[Len(K)].half = 1
    BY SMTT(60), <1>0, <2>2 DEF Halves
  <2> HIDE DEF K
  <2>7. LogShape'
    BY Zenon, <2>2, <2>3, <2>5, <2>6 DEF LogShape, Torn
  <2>8. ~tail.torn => tail.pos <= Len(K) /\ \A i \in 1..tail.pos : K[i] = L[i]
    <3>1. ~tail.torn => tail.pos <= Len(L)
      BY Zenon, <1>0 DEF TailShows
    <3> QED
      BY SMTT(60), <1>0, <2>6, <3>1
  <2>9. TailShows(tail, K)
    BY Zenon, <1>0, <2>6, <2>8, TailKept
  <2> QED
    BY Zenon, <1>0, <2>5, <2>7, <2>9 DEF TailSound
<1>3. CASE WriteRest
  <2>1. PICK m \in Nat : Len(L) = 2 * m + 1
    BY Zenon, <1>0, <1>3, TornIsOdd DEF WriteRest, LogShape
  <2> DEFINE K == Append(L, [L[Len(L)] EXCEPT !.half = 2])
  <2>3. Halves(K)
    BY Zenon, <1>0, <2>1, RestWritten
  <2>4. feed' = [feed EXCEPT !.writer = "none", !.lines = K]
    BY Zenon, <1>3 DEF WriteRest, Feed
  <2>5. /\ feed' = [x \in {"there", "lines", "ids", "writer"} |-> feed'[x]]
        /\ feed'.lines = K /\ feed'.ids = feed.ids /\ feed'.writer = "none" /\ UNCHANGED tail
    BY Zenon, <1>3, <2>4 DEF WriteRest, LogShape
  <2>6. Len(K) \in Nat /\ Len(L) <= Len(K) /\ \A i \in 1..Len(L) : K[i] = L[i]
    <3>1. L \in Seq(HalfSet) /\ Len(L) \in 1..Len(L)
      BY SMTT(60), <1>0, <2>1 DEF Halves
    <3>2. L[Len(L)] \in HalfSet
      BY SMTT(60), <3>1
    <3>3. [L[Len(L)] EXCEPT !.half = 2] \in HalfSet
      BY SMTT(60), <3>2 DEF HalfSet
    <3> QED
      BY SMTT(60), <3>1, <3>3
  <2> HIDE DEF K
  <2>7. LogShape'
    BY Zenon, <1>0, <2>3, <2>5 DEF LogShape
  <2>8. ~tail.torn => tail.pos <= Len(K) /\ \A i \in 1..tail.pos : K[i] = L[i]
    <3>1. ~tail.torn => tail.pos <= Len(L)
      BY Zenon, <1>0 DEF TailShows
    <3> QED
      BY SMTT(60), <1>0, <2>6, <3>1
  <2>9. TailShows(tail, K)
    BY Zenon, <1>0, <2>6, <2>8, TailKept
  <2> QED
    BY Zenon, <1>0, <2>5, <2>7, <2>9 DEF TailSound
<1>4. CASE WriterDies
  <2>1. /\ feed' = [x \in {"there", "lines", "ids", "writer"} |-> feed'[x]]
        /\ feed'.lines = L /\ feed'.ids = feed.ids /\ feed'.writer = "none" /\ UNCHANGED tail
    BY Zenon, <1>4 DEF WriterDies, Feed, LogShape
  <2> QED
    BY Zenon, <1>0, <2>1 DEF LogShape, TailSound
<1> QED
  BY Zenon, <1>1, <1>2, <1>3, <1>4

(* A whole line that is new is emitted when it is wanted, as the log has   *)
(* it unless a half of it was cut off.                                     *)
LEMMA LineEmitted ==
  ASSUME NEW t, NEW L, TailTyped(t), TailShows(t, L), t.pc # "failed", Len(L) \in Nat,
         NEW n \in Nat, t.pos + n = 2 * t.last + 2, NEW id \in Nat,
         ~t.torn => 2 * t.last + 2 <= Len(L) /\ L[2 * t.last + 2].id = id
  PROVE  LET new == Emitted([t EXCEPT !.pos = @ + n], [seq |-> t.last + 1, id |-> id])
         IN  TailTyped(new) /\ TailShows(new, L)
<1> DEFINE on == [t EXCEPT !.pos = @ + n]
           line == [seq |-> t.last + 1, id |-> id]
           new == Emitted(on, line)
           out == IF t.last + 1 >= t.from THEN Append(t.out, line) ELSE t.out
<1>1. t.last \in Nat /\ t.from \in Nat \ {0} /\ t.last + 1 \in Nat /\ t.last + 1 > t.last
  <2>1. t.last \in Nat /\ t.from \in Nat \ {0}
    BY Zenon DEF TailTyped
  <2> QED
    BY SMTT(60), <2>1
<1>2. /\ on = [x \in TailFields |-> on[x]] /\ on.pc = t.pc /\ on.from = t.from
      /\ on.pos = t.pos + n /\ on.last = t.last /\ on.buf = t.buf /\ on.out = t.out
      /\ on.torn = t.torn
  BY Zenon DEF TailTyped, TailFields
<1>3. line.seq = t.last + 1 /\ line.id = id /\ line \in [seq : Nat, id : Nat]
  BY SMTT(60), <1>1
<1> HIDE DEF on, line
<1>4. /\ new = [x \in TailFields |-> new[x]] /\ new.pc = t.pc /\ new.from = t.from
      /\ new.pos = 2 * t.last + 2 /\ new.last = t.last + 1 /\ new.buf = <<>> /\ new.out = out
      /\ new.torn = t.torn
  <2>1. new = [on EXCEPT !.buf = <<>>, !.last = t.last + 1, !.out = out]
    BY Zenon, <1>1, <1>2, <1>3 DEF Emitted
  <2> HIDE DEF new, out
  <2> QED
    BY Zenon, <1>2, <2>1 DEF TailFields
<1> HIDE DEF new
<1>5. t.out \in Seq([seq : Nat, id : Nat])
  BY Zenon DEF TailTyped
<1> DEFINE S == [seq : Nat, id : Nat]
<1>6. /\ out \in Seq(S) /\ Len(t.out) \in Nat /\ Len(out) \in Nat
      /\ t.last + 1 >= t.from => /\ Len(out) = Len(t.out) + 1 /\ out[Len(t.out) + 1] = line
                                 /\ \A j \in 1..Len(t.out) : out[j] = t.out[j]
      /\ ~(t.last + 1 >= t.from) => out = t.out
  <2>1. line \in S /\ t.out \in Seq(S)
    BY Zenon, <1>3, <1>5
  <2> HIDE DEF S
  <2> QED
    BY SMTT(60), <2>1
<1>7. TailTyped(new)
  <2>1. <<>> \in Seq(HalfSet) /\ Len(<<>>) = 0 /\ Len(<<>>) <= 1
    BY SMTT(60)
  <2>2. 2 * t.last + 2 \in Nat /\ 2 * t.last + 2 = 2 * (t.last + 1) + 0 /\ 0 # 1
    BY SMTT(60), <1>1
  <2> HIDE DEF out
  <2> QED
    BY Zenon, <1>1, <1>4, <1>6, <2>1, <2>2 DEF TailTyped
<1>8. ASSUME ~t.torn PROVE TailShows(new, L)
  <2>0. /\ 2 * t.last + 2 <= Len(L) /\ L[2 * t.last + 2].id = id
        /\ t.last < t.from => Len(t.out) = 0
        /\ t.last >= t.from => Len(t.out) = t.last - t.from + 1
        /\ \A j \in 1..Len(t.out) :
             t.out[j].seq = t.from + j - 1 /\ t.out[j].id = L[2 * (t.from + j - 1)].id
    BY Zenon, <1>8 DEF TailShows
  <2>1. Len(new.buf) # 1
    <3>1. Len(<<>>) # 1
      BY SMTT(60)
    <3> QED
      BY Zenon, <1>4, <3>1
  <2>2. CASE ~(t.last + 1 >= t.from)
    <3>1. t.last + 1 < t.from /\ t.last < t.from
      BY SMTT(60), <1>1, <2>2
    <3>2. Len(out) = 0 /\ 1..Len(out) = {}
      <4>1. 1..0 = {}
        BY SMTT(60)
      <4> QED
        BY Zenon, <1>6, <2>0, <2>2, <3>1, <4>1
    <3> HIDE DEF out
    <3> QED
      BY ZenonT(60), <1>4, <1>8, <2>0, <2>1, <2>2, <3>1, <3>2 DEF TailShows
  <2>3. CASE t.last + 1 >= t.from
    <3>1. Len(out) = (t.last + 1) - t.from + 1 /\ Len(t.out) + 1 = (t.last + 1) - t.from + 1
          /\ t.from + (Len(t.out) + 1) - 1 = t.last + 1 /\ 2 * (t.last + 1) = 2 * t.last + 2
          /\ ~(t.last + 1 < t.from)
      <4>1. Len(out) = Len(t.out) + 1 /\ Len(t.out) \in Nat
        BY Zenon, <1>6, <2>3
      <4>2. /\ t.last < t.from => Len(t.out) = 0
            /\ t.last >= t.from => Len(t.out) = t.last - t.from + 1
        BY Zenon, <2>0
      <4> HIDE DEF out
      <4>3. /\ Len(t.out) + 1 = (t.last + 1) - t.from + 1
            /\ t.from + (Len(t.out) + 1) - 1 = t.last + 1
            /\ 2 * (t.last + 1) = 2 * t.last + 2 /\ ~(t.last + 1 < t.from)
        BY ZenonT(60), <1>1, <2>3, <4>1, <4>2, OneMoreOut
      <4> QED
        BY Zenon, <4>1, <4>3
    <3>2. ASSUME NEW j \in 1..Len(out)
          PROVE  out[j].seq = t.from + j - 1 /\ out[j].id = L[2 * (t.from + j - 1)].id
      <4>1. j = Len(t.out) + 1 \/ j \in 1..Len(t.out)
        BY Zenon, <1>6, <2>3, LastOrBefore
      <4>2. CASE j = Len(t.out) + 1
        BY Zenon, <1>3, <1>6, <2>0, <2>3, <3>1, <4>2
      <4>3. CASE j \in 1..Len(t.out)
        BY Zenon, <1>6, <2>0, <2>3, <4>3
      <4> QED
        BY Zenon, <4>1, <4>2, <4>3
    <3>3. 2 * t.last + 2 <= Len(L) /\ new.pc # "failed"
      BY Zenon, <1>4, <2>0
    <3> HIDE DEF out
    <3> QED
      BY Zenon, <1>4, <2>1, <2>3, <3>1, <3>2, <3>3 DEF TailShows
  <2> QED
    BY Zenon, <2>2, <2>3
<1> QED
  BY Zenon, <1>4, <1>7, <1>8 DEF new, on, line, TailShows

(* A buffer and what is read onto it. *)
LEMMA Joined ==
  ASSUME NEW b \in Seq(HalfSet), NEW g \in Seq(HalfSet)
  PROVE  /\ b \o g \in Seq(HalfSet) /\ Len(b \o g) = Len(b) + Len(g)
         /\ Len(b) \in Nat /\ Len(g) \in Nat
         /\ Len(b) = 0 /\ Len(g) \in {1, 2} => (b \o g)[1] = g[1]
         /\ Len(b) = 0 /\ Len(g) = 2 => (b \o g)[2] = g[2]
         /\ Len(b) = 1 /\ Len(g) = 1 => (b \o g)[1] = b[1] /\ (b \o g)[2] = g[1] /\ b[1] \in HalfSet
<1>1. /\ b \o g \in Seq(HalfSet) /\ Len(b \o g) = Len(b) + Len(g)
      /\ \A i \in 1..Len(b) + Len(g) :
           (b \o g)[i] = IF i <= Len(b) THEN b[i] ELSE g[i - Len(b)]
  BY ConcatProperties
<1>2. Len(b) \in Nat /\ Len(g) \in Nat /\ \A i \in 1..Len(b) : b[i] \in HalfSet
  BY SMTT(60)
<1> DEFINE j == b \o g
<1>3. /\ Len(b) \in Nat /\ Len(g) \in Nat
      /\ \A i \in 1..Len(b) + Len(g) : j[i] = IF i <= Len(b) THEN b[i] ELSE g[i - Len(b)]
  BY Zenon, <1>1, <1>2
<1> HIDE DEF j
<1>4. Len(b) = 0 /\ Len(g) \in {1, 2} => j[1] = g[1]
  BY SMTT(60), <1>3
<1>5. Len(b) = 0 /\ Len(g) = 2 => j[2] = g[2]
  BY SMTT(60), <1>3
<1>6. Len(b) = 1 /\ Len(g) = 1 => j[1] = b[1] /\ j[2] = g[1] /\ b[1] \in HalfSet
  BY SMTT(60), <1>2, <1>3
<1> QED
  BY Zenon, <1>1, <1>2, <1>4, <1>5, <1>6 DEF j

\* What drain reads from place pos on.
Rest(L, pos) == SubSeq(L, pos + 1, Len(L))
Stops(L, pos) == {i \in 1..Len(Rest(L, pos)) : Rest(L, pos)[i].half = 2}
Upto(L, pos) == IF Stops(L, pos) = {} THEN Len(Rest(L, pos))
                ELSE CHOOSE i \in Stops(L, pos) : \A j \in Stops(L, pos) : i <= j
Got(L, pos) == SubSeq(Rest(L, pos), 1, Upto(L, pos))

(* Where a follower is that has something to read. *)
LEMMA ThreePlaces ==
  ASSUME NEW b \in Nat, b <= 1, NEW last \in Nat, NEW pos, pos = 2 * last + b,
         NEW len \in Nat, ~(len <= pos)
  PROVE  \/ b = 0 /\ pos = 2 * last /\ len = 2 * last + 1
         \/ b = 0 /\ pos = 2 * last /\ len >= 2 * last + 2
         \/ b = 1 /\ pos = 2 * last + 1 /\ len >= 2 * last + 2
BY SMTT(60)

(* What one read of the log finds from place pos on. *)
LEMMA LineRead ==
  ASSUME NEW L, Halves(L), NEW pos \in Nat, NEW n \in Nat
  PROVE  /\ Len(L) <= pos => Upto(L, pos) = 0
         /\ pos = 2 * n /\ Len(L) = 2 * n + 1 =>
              /\ Stops(L, pos) = {} /\ Upto(L, pos) = 1 /\ Got(L, pos) \in Seq(HalfSet)
              /\ Len(Got(L, pos)) = 1 /\ Got(L, pos)[1] = L[2 * n + 1]
         /\ pos = 2 * n /\ Len(L) >= 2 * n + 2 =>
              /\ Stops(L, pos) # {} /\ Upto(L, pos) = 2 /\ Got(L, pos) \in Seq(HalfSet)
              /\ Len(Got(L, pos)) = 2 /\ Got(L, pos)[1] = L[2 * n + 1]
              /\ Got(L, pos)[2] = L[2 * n + 2]
         /\ pos = 2 * n + 1 /\ Len(L) >= 2 * n + 2 =>
              /\ Stops(L, pos) # {} /\ Upto(L, pos) = 1 /\ Got(L, pos) \in Seq(HalfSet)
              /\ Len(Got(L, pos)) = 1 /\ Got(L, pos)[1] = L[2 * n + 2]
<1> DEFINE rest == SubSeq(L, pos + 1, Len(L))
           stop == {i \in 1..Len(rest) : rest[i].half = 2}
           first == CHOOSE i \in stop : \A j \in stop : i <= j
           upto == IF stop = {} THEN Len(rest) ELSE first
           got == SubSeq(rest, 1, upto)
<1>0. stop = Stops(L, pos) /\ upto = Upto(L, pos) /\ got = Got(L, pos)
  BY Zenon DEF Rest, Stops, Upto, Got
<1>1. L \in Seq(HalfSet) /\ Len(L) \in Nat
  BY SMTT(60) DEF Halves
<1>2. /\ rest \in Seq(HalfSet) /\ Len(rest) \in Nat
      /\ Len(L) <= pos => Len(rest) = 0
      /\ Len(L) > pos => Len(rest) = Len(L) - pos
      /\ \A i \in 1..Len(rest) : rest[i] = L[pos + i]
  <2>1. pos + 1 \in Int /\ Len(L) \in Int /\ \A i \in pos + 1..Len(L) : L[i] \in HalfSet
    BY SMTT(60), <1>1
  <2>2. /\ rest \in Seq(HalfSet)
        /\ Len(rest) = IF pos + 1 <= Len(L) THEN Len(L) - (pos + 1) + 1 ELSE 0
        /\ \A i \in 1..Len(L) - (pos + 1) + 1 : rest[i] = L[pos + 1 + i - 1]
    BY <2>1, SubSeqProperties
  <2> HIDE DEF rest
  <2>3. /\ Len(rest) \in Nat /\ (Len(L) <= pos => Len(rest) = 0)
        /\ (Len(L) > pos => Len(rest) = Len(L) - pos)
    BY SMTT(60), <1>1, <2>2
  <2>4. ASSUME NEW i \in 1..Len(rest) PROVE rest[i] = L[pos + i]
    <3>1. i \in 1..Len(L) - (pos + 1) + 1 /\ pos + 1 + i - 1 = pos + i
      BY SMTT(60), <1>1, <2>3
    <3> QED
      BY Zenon, <2>2, <3>1
  <2> QED
    BY Zenon, <2>2, <2>3, <2>4
<1>9. ASSUME NEW k \in 1..2, k <= Len(rest)
      PROVE  LET new == SubSeq(rest, 1, k)
             IN  new \in Seq(HalfSet) /\ Len(new) = k /\ \A i \in 1..k : new[i] = rest[i]
  <2> HIDE DEF rest
  <2>1. 1 \in Int /\ k \in Int /\ \A i \in 1..k : rest[i] \in HalfSet
    BY SMTT(60), <1>2, <1>9
  <2>2. /\ SubSeq(rest, 1, k) \in Seq(HalfSet)
        /\ Len(SubSeq(rest, 1, k)) = IF 1 <= k THEN k - 1 + 1 ELSE 0
        /\ \A i \in 1..k - 1 + 1 : SubSeq(rest, 1, k)[i] = rest[1 + i - 1]
    BY <2>1, SubSeqProperties
  <2>3. 1 <= k /\ k - 1 + 1 = k /\ \A i \in 1..k : 1 + i - 1 = i
    BY SMTT(60)
  <2> QED
    BY Zenon, <2>2, <2>3
<1>3. /\ 2 * n + 1 <= Len(L) => L[2 * n + 1].half = 1
      /\ 2 * n + 2 <= Len(L) => L[2 * n + 2].half = 2
  BY Zenon, LineOf
<1> HIDE DEF rest
<1>4. CASE Len(L) <= pos
  <2>1. Len(rest) = 0 /\ 1..Len(rest) = {}
    BY SMTT(60), <1>2, <1>4
  <2>2. upto = 0
    BY Zenon, <2>1
  <2>3. ~(pos = 2 * n /\ Len(L) = 2 * n + 1) /\ ~(pos = 2 * n /\ Len(L) >= 2 * n + 2)
        /\ ~(pos = 2 * n + 1 /\ Len(L) >= 2 * n + 2)
    BY SMTT(60), <1>1, <1>4
  <2> HIDE DEF stop, upto, got
  <2> QED
    BY Zenon, <1>0, <2>2, <2>3
<1>5. CASE pos = 2 * n /\ Len(L) = 2 * n + 1
  <2>1. Len(rest) = 1 /\ 1..Len(rest) = {1} /\ rest[1] = L[2 * n + 1] /\ 1 # 2
    BY SMTT(60), <1>1, <1>2, <1>5
  <2>2. 2 * n + 1 <= Len(L)
    BY SMTT(60), <1>1, <1>5
  <2>3. stop = {}
    BY Zenon, <1>3, <2>1, <2>2
  <2>4. upto = 1
    BY Zenon, <2>1, <2>3
  <2>5. got \in Seq(HalfSet) /\ Len(got) = 1 /\ got[1] = L[2 * n + 1]
    <3>1. 1 \in 1..2 /\ 1 \in 1..1 /\ 1 <= Len(rest)
      BY SMTT(60), <2>1
    <3> HIDE DEF upto
    <3> QED
      BY Zenon, <1>9, <2>1, <2>4, <3>1
  <2>6. ~(Len(L) <= pos) /\ ~(pos = 2 * n /\ Len(L) >= 2 * n + 2)
        /\ ~(pos = 2 * n + 1 /\ Len(L) >= 2 * n + 2)
    BY SMTT(60), <1>1, <1>5
  <2> HIDE DEF stop, upto, got
  <2> QED
    BY Zenon, <1>0, <2>3, <2>4, <2>5, <2>6
<1>6. CASE pos = 2 * n /\ Len(L) >= 2 * n + 2
  <2>1. /\ Len(rest) >= 2 /\ 1 \in 1..Len(rest) /\ 2 \in 1..Len(rest)
        /\ rest[1] = L[2 * n + 1] /\ rest[2] = L[2 * n + 2] /\ 1 # 2
    BY SMTT(60), <1>1, <1>2, <1>6
  <2>2. 2 * n + 1 <= Len(L) /\ 2 * n + 2 <= Len(L)
    BY SMTT(60), <1>1, <1>6
  <2>3. 2 \in stop /\ 1 \notin stop
    BY Zenon, <1>3, <2>1, <2>2
  <2>4. \A j \in stop : j \in Nat /\ 2 <= j
    <3>1. \A j \in stop : j \in 1..Len(rest) /\ j # 1
      BY Zenon, <2>3
    <3> HIDE DEF stop
    <3> QED
      BY SMTT(60), <1>2, <3>1
  <2>5. first \in stop /\ \A j \in stop : first <= j
    BY Zenon, <2>3, <2>4
  <2>6. first = 2
    <3> HIDE DEF first, stop
    <3> QED
      BY SMTT(60), <2>3, <2>4, <2>5
  <2>7. upto = 2 /\ stop # {}
    BY Zenon, <2>3, <2>6
  <2>8. got \in Seq(HalfSet) /\ Len(got) = 2 /\ got[1] = L[2 * n + 1] /\ got[2] = L[2 * n + 2]
    <3>1. 2 \in 1..2 /\ 1 \in 1..2 /\ 2 <= Len(rest)
      BY SMTT(60), <2>1
    <3> HIDE DEF upto
    <3> QED
      BY Zenon, <1>9, <2>1, <2>7, <3>1
  <2>9. ~(Len(L) <= pos) /\ ~(pos = 2 * n /\ Len(L) = 2 * n + 1)
        /\ ~(pos = 2 * n + 1 /\ Len(L) >= 2 * n + 2)
    BY SMTT(60), <1>1, <1>6
  <2> HIDE DEF stop, upto, got
  <2> QED
    BY Zenon, <1>0, <2>7, <2>8, <2>9
<1>7. CASE pos = 2 * n + 1 /\ Len(L) >= 2 * n + 2
  <2>1. /\ Len(rest) >= 1 /\ 1 \in 1..Len(rest) /\ rest[1] = L[2 * n + 2]
    BY SMTT(60), <1>1, <1>2, <1>7
  <2>2. 2 * n + 2 <= Len(L)
    BY SMTT(60), <1>1, <1>7
  <2>3. 1 \in stop
    BY Zenon, <1>3, <2>1, <2>2
  <2>4. \A j \in stop : j \in Nat /\ 1 <= j
    <3>1. \A j \in stop : j \in 1..Len(rest)
      BY Zenon
    <3> HIDE DEF stop
    <3> QED
      BY SMTT(60), <1>2, <3>1
  <2>5. first \in stop /\ \A j \in stop : first <= j
    BY Zenon, <2>3, <2>4
  <2>6. first = 1
    <3> HIDE DEF first, stop
    <3> QED
      BY SMTT(60), <2>3, <2>4, <2>5
  <2>7. upto = 1 /\ stop # {}
    BY Zenon, <2>3, <2>6
  <2>8. got \in Seq(HalfSet) /\ Len(got) = 1 /\ got[1] = L[2 * n + 2]
    <3>1. 1 \in 1..2 /\ 1 \in 1..1 /\ 1 <= Len(rest)
      BY SMTT(60), <2>1
    <3> HIDE DEF upto
    <3> QED
      BY Zenon, <1>9, <2>1, <2>7, <3>1
  <2>9. ~(Len(L) <= pos) /\ ~(pos = 2 * n /\ Len(L) = 2 * n + 1)
        /\ ~(pos = 2 * n /\ Len(L) >= 2 * n + 2)
    BY SMTT(60), <1>1, <1>7
  <2> HIDE DEF stop, upto, got
  <2> QED
    BY Zenon, <1>0, <2>7, <2>8, <2>9
<1> QED
  BY Zenon, <1>4, <1>5, <1>6, <1>7

(* A follower that only changes its place in the program, or looks at the  *)
(* file for the first time, has read what it had read.                     *)
LEMMA TailTurns ==
  ASSUME NEW t, NEW L, NEW new, TailTyped(t), TailShows(t, L), t.pc # "failed",
         new = [x \in TailFields |-> new[x]], new.from = t.from, new.pos = t.pos,
         new.buf = t.buf, new.last = t.last, new.out = t.out, new.torn = t.torn,
         new.pc \in {"off", "drain", "sleep", "result", "cancelled", "failed"},
         new.pc = "failed" => t.torn
  PROVE  TailTyped(new) /\ TailShows(new, L)
<1>1. TailTyped(new)
  BY Zenon DEF TailTyped
<1>2. TailShows(new, L)
  BY Zenon DEF TailShows
<1> QED
  BY Zenon, <1>1, <1>2

(* A half line is read and kept. *)
LEMMA HalfRead ==
  ASSUME NEW t, NEW L, Halves(L), TailTyped(t), TailShows(t, L), t.pc = "drain",
         NEW n \in Nat, t.last = n, t.pos = 2 * n, Len(L) = 2 * n + 1, Len(t.buf) = 0,
         NEW got \in Seq(HalfSet), Len(got) = 1, got[1] = L[2 * n + 1]
  PROVE  LET new == DrainEnds([t EXCEPT !.pos = t.pos + 1, !.buf = t.buf \o got])
         IN  TailTyped(new) /\ TailShows(new, L)
<1> DEFINE buf == t.buf \o got
           on == [t EXCEPT !.pos = t.pos + 1, !.buf = buf]
           new == DrainEnds(on)
<1>1. buf \in Seq(HalfSet) /\ Len(buf) = 1 /\ buf[1] = L[2 * n + 1]
  <2>1. t.buf \in Seq(HalfSet)
    BY Zenon DEF TailTyped
  <2>2. /\ buf \in Seq(HalfSet) /\ Len(buf) = Len(t.buf) + Len(got)
        /\ Len(t.buf) = 0 /\ Len(got) \in {1, 2} => buf[1] = got[1]
    BY Zenon, <2>1, Joined
  <2> HIDE DEF buf
  <2> QED
    BY SMTT(60), <2>2
<1> HIDE DEF buf
<1>2. /\ on = [x \in TailFields |-> on[x]] /\ on.pc = t.pc /\ on.from = t.from
      /\ on.pos = t.pos + 1 /\ on.last = t.last /\ on.buf = buf /\ on.out = t.out
      /\ on.torn = t.torn
  BY Zenon DEF TailTyped, TailFields
<1> HIDE DEF on
<1>3. /\ new = [x \in TailFields |-> new[x]] /\ new.pc \in {"sleep", "result"} /\ new.from = t.from
      /\ new.pos = t.pos + 1 /\ new.last = t.last /\ new.buf = buf /\ new.out = t.out
      /\ new.torn = t.torn
  BY Zenon, <1>2 DEF DrainEnds, TailFields
<1> HIDE DEF new
<1>4. /\ t.pos + 1 \in Nat /\ t.pos + 1 = 2 * t.last + Len(buf) /\ Len(buf) <= 1
      /\ t.pos + 1 = 2 * n + 1 /\ t.pos + 1 <= Len(L)
  BY SMTT(60), <1>1
<1>5. L[2 * n + 1].seq = n + 1
  <2>1. 2 * n + 1 <= Len(L)
    BY SMTT(60)
  <2> QED
    BY Zenon, <2>1, LineOf
<1>6. TailTyped(new)
  BY Zenon, <1>1, <1>3, <1>4, <1>5 DEF TailTyped
<1>7. TailShows(new, L)
  BY ZenonT(60), <1>1, <1>3, <1>4 DEF TailShows
<1> QED
  BY Zenon, <1>6, <1>7 DEF new, on, buf

(* One read of the log by a follower. *)
LEMMA Drained ==
  ASSUME LogShape, TailSound, tail.pc = "drain", NEW new \in drain(tail)
  PROVE  TailTyped(new) /\ TailShows(new, feed.lines)
<1> DEFINE L == feed.lines
           t == tail
           stop == Stops(L, t.pos)
           upto == Upto(L, t.pos)
           got  == Got(L, t.pos)
           buf  == t.buf \o got
           on   == [t EXCEPT !.pos = @ + upto]
           pure == \A c \in {buf[i] : i \in 1..Len(buf)} : c.id = buf[1].id
<1>1. /\ Halves(L) /\ TailTyped(t) /\ TailShows(t, L) /\ t.pc = "drain" /\ t.last \in Nat
      /\ t.pos \in Nat /\ t.pos = 2 * t.last + Len(t.buf) /\ t.buf \in Seq(HalfSet)
      /\ Len(t.buf) <= 1 /\ (Len(t.buf) = 1 => t.buf[1].seq = t.last + 1)
  BY Zenon DEF LogShape, TailSound, TailTyped
<1>2. new \in IF ~t.open \/ upto = 0 THEN {DrainEnds(t)}
              ELSE IF stop = {} THEN {DrainEnds([on EXCEPT !.buf = buf])}
              ELSE IF pure THEN {Emitted(on, [seq |-> buf[1].seq, id |-> buf[1].id])}
              ELSE {[on EXCEPT !.pc = "failed"], Emitted(on, [seq |-> buf[1].seq, id |-> 0])}
  BY Zenon DEF drain, Rest, Stops, Upto, Got
<1>3. /\ Len(L) <= t.pos => upto = 0
      /\ t.pos = 2 * t.last /\ Len(L) = 2 * t.last + 1 =>
           /\ stop = {} /\ upto = 1 /\ got \in Seq(HalfSet) /\ Len(got) = 1
           /\ got[1] = L[2 * t.last + 1]
      /\ t.pos = 2 * t.last /\ Len(L) >= 2 * t.last + 2 =>
           /\ stop # {} /\ upto = 2 /\ got \in Seq(HalfSet) /\ Len(got) = 2
           /\ got[1] = L[2 * t.last + 1] /\ got[2] = L[2 * t.last + 2]
      /\ t.pos = 2 * t.last + 1 /\ Len(L) >= 2 * t.last + 2 =>
           /\ stop # {} /\ upto = 1 /\ got \in Seq(HalfSet) /\ Len(got) = 1
           /\ got[1] = L[2 * t.last + 2]
  <2>1. Halves(L) /\ t.pos \in Nat /\ t.last \in Nat
    BY Zenon, <1>1
  <2>2. Len(L) <= t.pos => Upto(L, t.pos) = 0
    BY ZenonT(60), <2>1, LineRead
  <2>3. t.pos = 2 * t.last /\ Len(L) = 2 * t.last + 1 =>
           /\ stop = {} /\ upto = 1 /\ got \in Seq(HalfSet) /\ Len(got) = 1
           /\ got[1] = L[2 * t.last + 1]
    BY ZenonT(60), <2>1, LineRead
  <2>4. t.pos = 2 * t.last /\ Len(L) >= 2 * t.last + 2 =>
           /\ stop # {} /\ upto = 2 /\ got \in Seq(HalfSet) /\ Len(got) = 2
           /\ got[1] = L[2 * t.last + 1] /\ got[2] = L[2 * t.last + 2]
    BY ZenonT(60), <2>1, LineRead
  <2>5. t.pos = 2 * t.last + 1 /\ Len(L) >= 2 * t.last + 2 =>
           /\ stop # {} /\ upto = 1 /\ got \in Seq(HalfSet) /\ Len(got) = 1
           /\ got[1] = L[2 * t.last + 2]
    <3> SUFFICES ASSUME t.pos = 2 * t.last + 1, Len(L) >= 2 * t.last + 2
                 PROVE  /\ stop # {} /\ upto = 1 /\ got \in Seq(HalfSet) /\ Len(got) = 1
                        /\ got[1] = L[2 * t.last + 2]
      BY Zenon
    <3>1. /\ Stops(L, t.pos) # {} /\ Upto(L, t.pos) = 1 /\ Got(L, t.pos) \in Seq(HalfSet)
          /\ Len(Got(L, t.pos)) = 1 /\ Got(L, t.pos)[1] = L[2 * t.last + 2]
      BY SMTT(60), <2>1, LineRead
    <3> QED
      BY Zenon, <3>1
  <2> HIDE DEF upto, stop, got
  <2> QED
    BY Zenon, <2>2, <2>3, <2>4, <2>5 DEF upto
<1>4. Len(L) \in Nat /\ Len(t.buf) \in Nat
  <2>1. L \in Seq(HalfSet) /\ t.buf \in Seq(HalfSet)
    BY Zenon, <1>1 DEF Halves
  <2> QED
    BY SMTT(60), <2>1
<1> HIDE DEF upto, stop, got
<1>5. CASE ~t.open \/ upto = 0
  <2>1. new = DrainEnds(t)
    BY Zenon, <1>2, <1>5
  <2>2. /\ new = [x \in TailFields |-> new[x]] /\ new.pc \in {"sleep", "result"} /\ new.from = t.from
        /\ new.pos = t.pos /\ new.last = t.last /\ new.buf = t.buf /\ new.out = t.out
        /\ new.torn = t.torn
    BY Zenon, <1>1, <2>1 DEF DrainEnds, TailTyped, TailFields
  <2>3. /\ t.pc # "failed" /\ (new.pc = "failed" => t.torn)
        /\ new.pc \in {"off", "drain", "sleep", "result", "cancelled", "failed"}
    BY Zenon, <1>1, <2>2
  <2> QED
    BY Zenon, <1>1, <2>2, <2>3, TailTurns
<1>6. CASE t.open /\ upto # 0
  <2>1. \/ Len(t.buf) = 0 /\ t.pos = 2 * t.last /\ Len(L) = 2 * t.last + 1
        \/ Len(t.buf) = 0 /\ t.pos = 2 * t.last /\ Len(L) >= 2 * t.last + 2
        \/ Len(t.buf) = 1 /\ t.pos = 2 * t.last + 1 /\ Len(L) >= 2 * t.last + 2
    <3>1. ~(Len(L) <= t.pos)
      BY Zenon, <1>3, <1>6
    <3> QED
      <4>1. t.pos = 2 * t.last + Len(t.buf) /\ Len(t.buf) <= 1 /\ t.last \in Nat
        BY Zenon, <1>1
      <4> QED
        BY Zenon, <1>4, <3>1, <4>1, ThreePlaces
  <2>2. CASE Len(t.buf) = 0 /\ t.pos = 2 * t.last /\ Len(L) = 2 * t.last + 1
    <3>1. new = DrainEnds([on EXCEPT !.buf = buf]) /\ upto = 1
      BY Zenon, <1>2, <1>3, <1>6, <2>2
    <3>2. [on EXCEPT !.buf = buf] = [t EXCEPT !.pos = t.pos + 1, !.buf = t.buf \o got]
      BY Zenon, <1>1, <3>1 DEF TailTyped, TailFields
    <3>3. got \in Seq(HalfSet) /\ Len(got) = 1 /\ got[1] = L[2 * t.last + 1]
      BY ZenonT(60), <1>3, <2>2
    <3>4. /\ TailTyped(DrainEnds([t EXCEPT !.pos = t.pos + 1, !.buf = t.buf \o got]))
          /\ TailShows(DrainEnds([t EXCEPT !.pos = t.pos + 1, !.buf = t.buf \o got]), L)
      BY ZenonT(60), <1>1, <2>2, <3>3, HalfRead
    <3> QED
      BY Zenon, <3>1, <3>2, <3>4
  <2>3. CASE Len(t.buf) = 0 /\ t.pos = 2 * t.last /\ Len(L) >= 2 * t.last + 2
    <3>1. /\ stop # {} /\ upto = 2 /\ got \in Seq(HalfSet) /\ Len(got) = 2
          /\ got[1] = L[2 * t.last + 1] /\ got[2] = L[2 * t.last + 2]
      BY Zenon, <1>3, <2>3
    <3>2. Len(buf) = 2 /\ buf[1] = L[2 * t.last + 1] /\ buf[2] = L[2 * t.last + 2]
      <4>1. /\ Len(buf) = Len(t.buf) + Len(got)
            /\ Len(t.buf) = 0 /\ Len(got) \in {1, 2} => buf[1] = got[1]
            /\ Len(t.buf) = 0 /\ Len(got) = 2 => buf[2] = got[2]
        BY Zenon, <1>1, <3>1, Joined
      <4> HIDE DEF buf
      <4> QED
        BY SMTT(60), <2>3, <3>1, <4>1
    <3>3. /\ buf[1].seq = t.last + 1 /\ buf[1].id \in Nat /\ buf[2].id = buf[1].id
          /\ L[2 * t.last + 2].id = buf[1].id /\ 2 * t.last + 2 <= Len(L)
      <4>1. 2 * t.last + 1 <= Len(L) /\ 2 * t.last + 2 <= Len(L)
        BY SMTT(60), <1>1, <1>4, <2>3
      <4>2. /\ L[2 * t.last + 1] \in HalfSet /\ L[2 * t.last + 1].seq = t.last + 1
            /\ L[2 * t.last + 2].id = L[2 * t.last + 1].id
        BY Zenon, <1>1, <4>1, LineOf
      <4> QED
        BY Zenon, <3>2, <4>1, <4>2 DEF HalfSet
    <3>4. pure
      <4>1. \A i \in 1..2 : i = 1 \/ i = 2
        BY SMTT(60)
      <4> HIDE DEF buf
      <4> QED
        BY Zenon, <3>2, <3>3, <4>1
    <3>5. new = Emitted([t EXCEPT !.pos = @ + 2], [seq |-> t.last + 1, id |-> buf[1].id])
      <4> HIDE DEF buf
      <4> QED
        BY ZenonT(60), <1>2, <1>6, <3>1, <3>3, <3>4
    <3>6. t.pos + 2 = 2 * t.last + 2 /\ 2 \in Nat /\ t.pc # "failed"
      BY SMTT(60), <1>1, <2>3
    <3> HIDE DEF buf
    <3> QED
      BY ZenonT(60), <1>1, <1>4, <3>3, <3>5, <3>6, LineEmitted
  <2>4. CASE Len(t.buf) = 1 /\ t.pos = 2 * t.last + 1 /\ Len(L) >= 2 * t.last + 2
    <3>1. /\ stop # {} /\ upto = 1 /\ got \in Seq(HalfSet) /\ Len(got) = 1
          /\ got[1] = L[2 * t.last + 2]
      BY Zenon, <1>3, <2>4
    <3>2. /\ Len(buf) = 2 /\ buf[1] = t.buf[1] /\ buf[2] = L[2 * t.last + 2]
          /\ t.buf[1] \in HalfSet
      <4>1. /\ Len(buf) = Len(t.buf) + Len(got)
            /\ buf[1] = t.buf[1] /\ buf[2] = got[1] /\ t.buf[1] \in HalfSet
        BY Zenon, <1>1, <2>4, <3>1, Joined
      <4> HIDE DEF buf
      <4> QED
        BY SMTT(60), <2>4, <3>1, <4>1
    <3>3. /\ buf[1].seq = t.last + 1 /\ buf[1].id \in Nat /\ 0 \in Nat /\ 2 * t.last + 2 <= Len(L)
      <4>1. buf[1].seq = t.last + 1 /\ buf[1].id \in Nat
        BY Zenon, <1>1, <2>4, <3>2 DEF HalfSet
      <4>2. 0 \in Nat /\ 2 * t.last + 2 <= Len(L)
        BY SMTT(60), <1>1, <1>4, <2>4
      <4> QED
        BY Zenon, <4>1, <4>2
    <3>6. t.pos + 1 = 2 * t.last + 2 /\ 1 \in Nat /\ t.pc # "failed"
      BY SMTT(60), <1>1, <2>4
    <3>7. ~t.torn => buf[1] = L[2 * t.last + 1] /\ L[2 * t.last + 2].id = buf[1].id
      <4>1. 2 * t.last + 1 <= Len(L) /\ 2 * t.last + 2 <= Len(L)
        BY SMTT(60), <1>1, <1>4, <2>4
      <4>2. L[2 * t.last + 2].id = L[2 * t.last + 1].id
        BY Zenon, <1>1, <4>1, LineOf
      <4>3. ~t.torn => t.buf[1] = L[t.pos]
        BY Zenon, <1>1, <2>4 DEF TailShows
      <4> QED
        BY Zenon, <2>4, <3>2, <4>2, <4>3
    <3>8. CASE pure
      <4>1. new = Emitted([t EXCEPT !.pos = @ + 1], [seq |-> t.last + 1, id |-> buf[1].id])
        <5> HIDE DEF buf
        <5> QED
          BY Zenon, <1>2, <1>6, <3>1, <3>3, <3>8
      <4> HIDE DEF buf
      <4> QED
        BY ZenonT(60), <1>1, <1>4, <3>3, <3>6, <3>7, <4>1, LineEmitted
    <3>9. CASE ~pure
      <4>1. t.torn
        <5>1. \A i \in 1..2 : i = 1 \/ i = 2
          BY SMTT(60)
        <5> HIDE DEF buf
        <5> QED
          BY Zenon, <3>2, <3>7, <3>9, <5>1
      <4>2. \/ new = [on EXCEPT !.pc = "failed"]
            \/ new = Emitted([t EXCEPT !.pos = @ + 1], [seq |-> t.last + 1, id |-> 0])
        <5> HIDE DEF buf
        <5> QED
          BY Zenon, <1>2, <1>6, <3>1, <3>3, <3>9
      <4>3. CASE new = Emitted([t EXCEPT !.pos = @ + 1], [seq |-> t.last + 1, id |-> 0])
        BY ZenonT(60), <1>1, <1>4, <3>3, <3>6, <4>1, <4>3, LineEmitted
      <4>4. CASE new = [on EXCEPT !.pc = "failed"]
        <5>1. /\ new = [x \in TailFields |-> new[x]] /\ new.pc = "failed" /\ new.from = t.from
              /\ new.pos = t.pos + 1 /\ new.last = t.last /\ new.buf = t.buf /\ new.out = t.out
              /\ new.torn = t.torn
          BY Zenon, <1>1, <3>1, <4>4 DEF TailTyped, TailFields
        <5>2. t.pos + 1 \in Nat
          BY SMTT(60), <1>1
        <5> QED
          BY Zenon, <1>1, <4>1, <5>1, <5>2 DEF TailTyped, TailShows
      <4> QED
        BY Zenon, <4>2, <4>3, <4>4
    <3> QED
      BY Zenon, <3>8, <3>9
  <2> QED
    BY Zenon, <2>1, <2>2, <2>3, <2>4
<1> QED
  BY Zenon, <1>5, <1>6

(* A follower that has read nothing is in order. *)
LEMMA TailBegins ==
  ASSUME NEW new, NEW L, Len(L) \in Nat, new = [x \in TailFields |-> new[x]],
         new.from \in Nat \ {0}, new.pos = 0, new.buf = <<>>, new.last = 0, new.out = <<>>,
         new.torn = FALSE, new.pc \in {"off", "drain"}
  PROVE  TailTyped(new) /\ TailShows(new, L)
<1>1. /\ 0 \in Nat /\ <<>> \in Seq(HalfSet) /\ Len(<<>>) = 0 /\ Len(<<>>) <= 1 /\ 0 # 1
      /\ <<>> \in Seq([seq : Nat, id : Nat]) /\ 0 = 2 * 0 + 0 /\ 0 <= Len(L) /\ 1..0 = {}
      /\ ~(0 >= new.from)
  BY SMTT(60)
<1>2. TailTyped(new)
  BY Zenon, <1>1 DEF TailTyped
<1>3. TailShows(new, L)
  BY Zenon, <1>1 DEF TailShows
<1> QED
  BY Zenon, <1>2, <1>3

(* The steps of the follower. *)
LEMMA TailMoves ==
  ASSUME LogShape, TailSound,
         \/ \E follow \in BOOLEAN, from \in 1..2 : StartTail(follow, from)
         \/ Interrupt \/ Drain \/ PollTail
  PROVE  TailSound'
<1>0. Halves(feed.lines) /\ Len(feed.lines) \in Nat /\ TailTyped(tail) /\ TailShows(tail, feed.lines)
  <2>1. Halves(feed.lines) /\ TailTyped(tail) /\ TailShows(tail, feed.lines)
    BY Zenon DEF LogShape, TailSound
  <2>2. 0 \in Nat
    OBVIOUS
  <2> QED
    BY Zenon, <2>1, <2>2, LineOf
<1>1. ASSUME NEW follow \in BOOLEAN, NEW from \in 1..2, StartTail(follow, from) PROVE TailSound'
  <2> DEFINE new == [NoTail EXCEPT !.pc = "drain", !.follow = follow, !.from = from,
                                   !.open = feed.there]
  <2>1. tail' = new /\ UNCHANGED feed
    BY Zenon, <1>1 DEF StartTail, Follow
  <2>2. /\ new = [x \in TailFields |-> new[x]] /\ new.from = from /\ new.pos = 0 /\ new.buf = <<>>
        /\ new.last = 0 /\ new.out = <<>> /\ new.torn = FALSE /\ new.pc = "drain"
    BY Zenon DEF NoTail, TailFields
  <2> HIDE DEF new
  <2>3. from \in Nat \ {0}
    BY SMTT(60)
  <2>4. TailTyped(new) /\ TailShows(new, feed.lines)
    BY Zenon, <1>0, <2>2, <2>3, TailBegins
  <2> QED
    BY Zenon, <2>1, <2>4 DEF TailSound
<1>2. ASSUME tail.pc # "failed", UNCHANGED feed,
             tail' = [x \in TailFields |-> tail'[x]], tail'.from = tail.from, tail'.pos = tail.pos,
             tail'.buf = tail.buf, tail'.last = tail.last, tail'.out = tail.out,
             tail'.torn = tail.torn,
             tail'.pc \in {"off", "drain", "sleep", "result", "cancelled", "failed"},
             tail'.pc = "failed" => tail.torn
      PROVE  TailSound'
  <2>1. TailTyped(tail') /\ TailShows(tail', feed.lines)
    BY Zenon, <1>0, <1>2, TailTurns
  <2> QED
    BY Zenon, <1>2, <2>1 DEF TailSound
<1>3. CASE Interrupt
  <2>1. /\ tail' = [tail EXCEPT !.cancel = TRUE] /\ tail.pc \in {"drain", "sleep"} /\ UNCHANGED feed
    BY Zenon, <1>3 DEF Interrupt, Follow
  <2>2. /\ tail' = [x \in TailFields |-> tail'[x]] /\ tail'.from = tail.from /\ tail'.pos = tail.pos
        /\ tail'.buf = tail.buf /\ tail'.last = tail.last /\ tail'.out = tail.out
        /\ tail'.torn = tail.torn /\ tail'.pc = tail.pc
    BY Zenon, <1>0, <2>1 DEF TailTyped, TailFields
  <2> QED
    BY Zenon, <1>2, <2>1, <2>2
<1>4. CASE (Drain \/ PollTail) /\ tail' = [tail EXCEPT !.pc = "cancelled"]
  <2>1. tail.pc \in {"drain", "sleep"} /\ UNCHANGED feed
    BY Zenon, <1>4 DEF Drain, PollTail, Follow
  <2>2. /\ tail' = [x \in TailFields |-> tail'[x]] /\ tail'.from = tail.from /\ tail'.pos = tail.pos
        /\ tail'.buf = tail.buf /\ tail'.last = tail.last /\ tail'.out = tail.out
        /\ tail'.torn = tail.torn /\ tail'.pc = "cancelled"
    BY Zenon, <1>0, <1>4 DEF TailTyped, TailFields
  <2> QED
    BY Zenon, <1>2, <2>1, <2>2
<1>5. CASE Drain /\ tail' \in drain(tail)
  <2>1. tail.pc = "drain" /\ UNCHANGED feed
    BY Zenon, <1>5 DEF Drain, Follow
  <2>2. PICK new \in drain(tail) : tail' = new
    BY Zenon, <1>5
  <2>3. TailTyped(new) /\ TailShows(new, feed.lines)
    BY Zenon, <2>1, Drained
  <2> QED
    BY Zenon, <2>1, <2>2, <2>3 DEF TailSound
<1>6. CASE PollTail /\ tail' = tail
  <2>1. UNCHANGED feed
    BY Zenon, <1>6 DEF PollTail, Follow
  <2> QED
    BY Zenon, <1>6, <2>1 DEF TailSound
<1>7. CASE PollTail /\ tail' = [tail EXCEPT !.pc = "failed"] /\ Len(feed.lines) < tail.pos
  <2>1. tail.pc = "sleep" /\ UNCHANGED feed
    BY Zenon, <1>7 DEF PollTail, Follow
  <2>2. /\ tail' = [x \in TailFields |-> tail'[x]] /\ tail'.from = tail.from /\ tail'.pos = tail.pos
        /\ tail'.buf = tail.buf /\ tail'.last = tail.last /\ tail'.out = tail.out
        /\ tail'.torn = tail.torn /\ tail'.pc = "failed"
    BY Zenon, <1>0, <1>7 DEF TailTyped, TailFields
  <2>3. tail.torn
    <3>1. ~(tail.pos <= Len(feed.lines))
      <4>1. tail.pos \in Nat
        BY Zenon, <1>0 DEF TailTyped
      <4> QED
        BY SMTT(60), <1>0, <1>7, <4>1
    <3> QED
      BY Zenon, <1>0, <3>1 DEF TailShows
  <2> QED
    BY Zenon, <1>2, <2>1, <2>2, <2>3
<1>8. CASE PollTail /\ tail' = [tail EXCEPT !.pc = "drain", !.open = TRUE]
  <2>1. tail.pc = "sleep" /\ UNCHANGED feed
    BY Zenon, <1>8 DEF PollTail, Follow
  <2>2. /\ tail' = [x \in TailFields |-> tail'[x]] /\ tail'.from = tail.from /\ tail'.pos = tail.pos
        /\ tail'.buf = tail.buf /\ tail'.last = tail.last /\ tail'.out = tail.out
        /\ tail'.torn = tail.torn /\ tail'.pc = "drain"
    BY Zenon, <1>0, <1>8 DEF TailTyped, TailFields
  <2> QED
    BY Zenon, <1>2, <2>1, <2>2
<1>9. Drain => tail' = [tail EXCEPT !.pc = "cancelled"] \/ tail' \in drain(tail)
  BY Zenon DEF Drain, Follow
<1>10. PollTail => \/ tail' = [tail EXCEPT !.pc = "cancelled"] \/ tail' = tail
                   \/ tail' = [tail EXCEPT !.pc = "failed"] /\ Len(feed.lines) < tail.pos
                   \/ tail' = [tail EXCEPT !.pc = "drain", !.open = TRUE]
  BY Zenon DEF PollTail, Follow
<1> QED
  BY ZenonT(60), <1>1, <1>3, <1>4, <1>5, <1>6, <1>7, <1>8, <1>9, <1>10

(* A sound follower shows the log. *)
LEMMA TailShowsLog == LogShape /\ TailSound => FollowerFaithful
<1> SUFFICES ASSUME LogShape, TailSound, ~tail.torn PROVE FollowerFaithful
  BY Zenon DEF FollowerFaithful
<1> DEFINE L == feed.lines
<1>1. /\ Halves(L) /\ tail.pc # "failed" /\ tail.pos <= Len(L) /\ tail.pos \in Nat
      /\ tail.last \in Nat /\ tail.from \in Nat \ {0} /\ tail.pos = 2 * tail.last + Len(tail.buf)
      /\ tail.last < tail.from => Len(tail.out) = 0
      /\ tail.last >= tail.from => Len(tail.out) = tail.last - tail.from + 1
      /\ \A i \in 1..Len(tail.out) : /\ tail.out[i].seq = tail.from + i - 1
                                     /\ tail.out[i].id = L[2 * (tail.from + i - 1)].id
  BY Zenon DEF LogShape, TailSound, TailTyped, TailShows
<1>2. Len(tail.buf) \in Nat /\ Len(tail.out) \in Nat /\ Len(L) \in Nat
  <2>1. /\ tail.buf \in Seq(HalfSet) /\ tail.out \in Seq([seq : Nat, id : Nat])
        /\ L \in Seq(HalfSet)
    BY Zenon, <1>1 DEF TailSound, TailTyped, Halves
  <2> QED
    BY SMTT(60), <2>1
<1>3. ASSUME NEW i \in 1..Len(tail.out)
      PROVE  \E j \in 1..Len(L) :
               L[j] = [seq |-> tail.out[i].seq, id |-> tail.out[i].id, half |-> 2]
  <2> DEFINE k == tail.from + i - 1
  <2>1. 2 * k \in 1..2 * tail.last + Len(tail.buf)
    BY Zenon, <1>1, <1>2, EmittedPlaces
  <2>2. k \in Int
    BY SMTT(60), <1>1, <1>2
  <2>6. tail.out[i].seq = k /\ tail.out[i].id = L[2 * k].id
    BY Zenon, <1>1
  <2> HIDE DEF k
  <2>3. 2 * k \in 1..Len(L) /\ k - 1 \in Nat /\ 2 * (k - 1) + 2 = 2 * k /\ (k - 1) + 1 = k
        /\ 2 * (k - 1) + 2 <= Len(L)
    <3>1. tail.pos <= Len(L) /\ tail.pos = 2 * tail.last + Len(tail.buf) /\ tail.last \in Nat
      BY Zenon, <1>1
    <3> QED
      BY SMTT(60), <1>2, <2>1, <2>2, <3>1
  <2>4. /\ L[2 * (k - 1) + 2] \in HalfSet /\ L[2 * (k - 1) + 2].half = 2
        /\ L[2 * (k - 1) + 2].seq = (k - 1) + 1
    BY Zenon, <1>1, <2>3, LineOf
  <2>5. L[2 * k] \in HalfSet /\ L[2 * k].half = 2 /\ L[2 * k].seq = k
    BY Zenon, <2>3, <2>4
  <2>7. L[2 * k] = [seq |-> k, id |-> L[2 * k].id, half |-> 2]
    <3> DEFINE c == L[2 * k]
    <3>1. c \in HalfSet /\ c.half = 2 /\ c.seq = k
      BY Zenon, <2>5
    <3> HIDE DEF c
    <3>2. c = [seq |-> k, id |-> c.id, half |-> 2]
      BY SMTT(60), <3>1 DEF HalfSet
    <3> QED
      BY Zenon, <3>2 DEF c
  <2> QED
    BY Zenon, <2>3, <2>6, <2>7
<1> QED
  BY Zenon, <1>1, <1>3 DEF FollowerFaithful

(* Nothing was said when the behaviour begins. *)
LEMMA AttentiveInit == ObserversInit => Attentive
<1> SUFFICES ASSUME ObserversInit PROVE Attentive
  BY Zenon
<1>0. /\ 0 \in Nat /\ 0 \in 0..MaxGen /\ 0 = 0
  BY SMTT(60), ObserversAssumption
<1>1. Stage
  <2>1. scenery \in Sceneries
    BY Zenon DEF ObserversInit
  <2>2. scenery = [x \in SceneFields |-> scenery[x]] /\ scenery.busy \subseteq ORuns
    BY Zenon, <2>1, ObserversAssumption DEF ORuns
  <2>4. world = [r \in ORuns |-> world[r]]
    BY Zenon DEF ObserversInit
  <2>5. ASSUME NEW r \in ORuns PROVE RunTyped(world[r])
    <3> DEFINE st == IF r \in scenery.busy THEN "pending" ELSE "done"
               ns == IF r = 1 THEN scenery.first ELSE 1
    <3>1. world[r] = [status |-> st, node |-> st, nodes |-> ns,
                      sup |-> "alive", fresh |-> r \in scenery.busy, exit |-> "none",
                      ask |-> 0, ripe |-> FALSE, round |-> 0, overdue |-> FALSE, gens |-> 0,
                      pi |-> "started", merged |-> r \notin scenery.busy,
                      kept |-> r \in scenery.busy]
      BY Zenon DEF ObserversInit
    <3>2. st \in Statuses
      BY Zenon DEF Statuses
    <3> HIDE DEF st, ns
    <3> DEFINE u == world[r]
    <3>4. u = [status |-> st, node |-> st, nodes |-> ns,
               sup |-> "alive", fresh |-> r \in scenery.busy, exit |-> "none",
               ask |-> 0, ripe |-> FALSE, round |-> 0, overdue |-> FALSE, gens |-> 0,
               pi |-> "started", merged |-> r \notin scenery.busy, kept |-> r \in scenery.busy]
      BY Zenon, <3>1
    <3> HIDE DEF u
    <3>5. u = [x \in RunFields |-> u[x]]
      BY Zenon, <3>4 DEF RunFields
    <3>6. /\ u.status = st /\ u.node = st /\ u.sup = "alive"
          /\ u.ask = 0 /\ u.round = 0 /\ u.gens = 0
      BY Zenon, <3>4
    <3>3. /\ world[r] = [x \in RunFields |-> world[r][x]]
          /\ world[r].status = st /\ world[r].node = st /\ world[r].sup = "alive"
          /\ world[r].ask = 0 /\ world[r].round = 0 /\ world[r].gens = 0
      BY Zenon, <3>5, <3>6 DEF u
    <3> QED
      BY Zenon, <1>0, <3>2, <3>3 DEF RunTyped
  <2> QED
    BY Zenon, <2>2, <2>4, <2>5 DEF Stage
<1>2. WaitSound
  <2>1. NotWaiting.ask \in AskedSet /\ NotWaiting.pc \in {"home", "poll"}
    BY Zenon, <1>0 DEF NotWaiting, AskedSet
  <2>2. Waiting(NotWaiting) /\ Grounded(NotWaiting)
    BY Zenon, <2>1, AtRest
  <2> QED
    BY Zenon, <2>2 DEF ObserversInit, WaitSound
<1>3. LogShape
  <2>1. /\ feed = [x \in {"there", "lines", "ids", "writer"} |-> feed[x]]
        /\ feed.lines = <<>> /\ feed.ids = 0 /\ feed.writer = "none"
    BY Zenon DEF ObserversInit
  <2>2. Halves(<<>>)
    BY SMTT(60) DEF Halves
  <2> QED
    BY Zenon, <1>0, <2>1, <2>2 DEF LogShape
<1>4. TailSound
  <2>1. /\ tail = [x \in TailFields |-> tail[x]] /\ tail.from = 1 /\ tail.pos = 0 /\ tail.buf = <<>>
        /\ tail.last = 0 /\ tail.out = <<>> /\ tail.torn = FALSE /\ tail.pc = "off"
    BY Zenon DEF ObserversInit, NoTail, TailFields
  <2>2. 1 \in Nat \ {0}
    OBVIOUS
  <2>3. Len(feed.lines) \in Nat
    BY Zenon, <1>0, <1>3, LineOf DEF LogShape
  <2> QED
    BY Zenon, <2>1, <2>2, <2>3, TailBegins DEF TailSound
<1>5. PagerSound
  <2>1. /\ pager = [x \in PagerFields |-> pager[x]] /\ pager.pc = "idle" /\ pager.page = NoPage
        /\ pager.told = [s \in Signals |-> 0] /\ pager.marked = [s \in Signals |-> {}]
        /\ pager.fired = [s \in Signals |-> [g \in Gens |-> 0]]
        /\ pager.slips = [s \in Signals |-> [g \in Gens |-> 0]]
    BY Zenon DEF ObserversInit, PagerFields
  <2>2. /\ NoPage \in [signal : Signals, gen : 0..MaxGen]
        /\ pager.told = [s \in Signals |-> pager.told[s]]
    BY Zenon, <1>0, <2>1 DEF NoPage, Signals
  <2>3. pager.marked \in [Signals -> SUBSET Gens]
    BY Zenon, <2>1
  <2>4. pager.fired \in [Signals -> [Gens -> Nat]] /\ pager.slips \in [Signals -> [Gens -> Nat]]
    BY SMTT(60), <2>1
  <2>5. \A s \in Signals, g \in Gens :
          g \notin pager.marked[s] /\ pager.fired[s][g] = 0 /\ pager.slips[s][g] = 0
    BY SMTT(60), <2>1
  <2>6. PagerTyped(pager)
    BY Zenon, <2>1, <2>2, <2>3, <2>4 DEF PagerTyped
  <2>7. Counted(pager)
    BY Zenon, <2>1, <2>5 DEF Counted, Marking
  <2> QED
    BY Zenon, <2>1, <2>6, <2>7 DEF PagerSound, PageIsCurrent
<1> QED
  BY ZenonT(60), <1>1, <1>2, <1>3, <1>4, <1>5 DEF Attentive

(* Every step keeps it: `run wait` reads, the run moves, a writer or the   *)
(* follower of the log goes on, a page is sent.                            *)
LEMMA AttentiveStep == Attentive /\ [ObserversNext]_observer_vars => Attentive'
<1> SUFFICES ASSUME Attentive, [ObserversNext]_observer_vars PROVE Attentive'
  BY Zenon
<1>0. Stage /\ WaitSound /\ LogShape /\ TailSound /\ PagerSound
  BY Zenon DEF Attentive
<1>1. UNCHANGED <<world, scenery>> => Stage'
  BY Zenon, <1>0 DEF Stage
<1>2. UNCHANGED <<world, waits>> => WaitSound'
  BY Zenon, <1>0 DEF WaitSound, Grounded
<1>3. UNCHANGED feed => LogShape'
  BY Zenon, <1>0 DEF LogShape, Torn
<1>4. UNCHANGED <<feed, tail>> => TailSound'
  BY Zenon, <1>0 DEF TailSound
<1>5. UNCHANGED <<world, pager>> => PagerSound'
  BY Zenon, <1>0 DEF PagerSound, PageIsCurrent, OpenGen
<1>6. ASSUME UNCHANGED world, UNCHANGED scenery \/ \E kind \in Limits : Tally(kind) PROVE Stage'
  BY Zenon, <1>0, <1>1, <1>6, TallyTyped DEF Stage
<1>7. ASSUME NEW w \in Waiters,
             WaitSteps(w) \/ LeaveWait(w) \/ \E ask \in Errands : StartWait(w, ask)
      PROVE  Attentive'
  <2>1. /\ UNCHANGED <<world, feed, tail, pager>>
        /\ UNCHANGED scenery \/ \E kind \in Limits : Tally(kind)
    BY Zenon, <1>7 DEF WaitSteps, PollRun, Decide, ReadOutcome, AnswerWait, LeaveWait, StartWait,
       Limits
  <2>2. WaitSound'
    BY ZenonT(60), <1>0, <1>7, WaitPolls, WaitDecides, WaitReads, WaitAnswers, WaitLeaves, WaitStarts
       DEF WaitSteps
  <2> QED
    BY Zenon, <1>3, <1>4, <1>5, <1>6, <2>1, <2>2 DEF Attentive
<1>8. ASSUME NEW r \in scenery.busy, WorldMoves(r) PROVE Attentive'
  <2>1. r \in ORuns
    BY Zenon, <1>0 DEF Stage
  <2>2. /\ Stage' /\ UNCHANGED <<waits, feed, tail>>
        /\ \A q \in ORuns : is_terminal(world[q].status) => is_terminal(world'[q].status)
    BY Zenon, <1>0, <1>8, <2>1, MoveKeeps
  <2>3. WaitSound'
    BY Zenon, <1>0, <2>2, WaitKept
  <2>4. PagerSound'
    BY Zenon, <1>0, <1>8, <2>1, PageKept
  <2> QED
    BY Zenon, <1>3, <1>4, <2>2, <2>3, <2>4 DEF Attentive
<1>9. CASE RepairTail \/ WriteHalf \/ WriteRest \/ WriterDies
  <2>1. /\ UNCHANGED <<world, waits, pager>>
        /\ UNCHANGED scenery \/ \E kind \in Limits : Tally(kind)
    BY Zenon, <1>9 DEF RepairTail, WriteHalf, WriteRest, WriterDies, Feed, Limits
  <2>2. LogShape' /\ TailSound'
    BY Zenon, <1>0, <1>9, LogWritten
  <2> QED
    BY Zenon, <1>2, <1>5, <1>6, <2>1, <2>2 DEF Attentive
<1>10. CASE \/ \E follow \in BOOLEAN, from \in 1..2 : StartTail(follow, from)
            \/ Interrupt \/ Drain \/ PollTail
  <2>1. /\ UNCHANGED <<world, waits, feed, pager>>
        /\ UNCHANGED scenery \/ \E kind \in Limits : Tally(kind)
    BY Zenon, <1>10 DEF StartTail, Interrupt, Drain, PollTail, Follow, Limits
  <2>2. TailSound'
    BY Zenon, <1>0, <1>10, TailMoves
  <2> QED
    BY Zenon, <1>2, <1>3, <1>5, <1>6, <2>1, <2>2 DEF Attentive
<1>11. CASE (\E signal \in Signals : Candidate(signal)) \/ FirePage \/ MarkPage
  <2>1. /\ UNCHANGED <<world, waits, feed, tail>>
        /\ UNCHANGED scenery \/ \E kind \in Limits : Tally(kind)
    BY Zenon, <1>11 DEF Candidate, FirePage, MarkPage, Page, Limits
  <2>2. PagerSound'
    BY Zenon, <1>0, <1>11, PageRead, PageFires, PageMarks
  <2> QED
    BY ZenonT(60), <1>2, <1>3, <1>4, <1>6, <2>1, <2>2 DEF Attentive
<1>12. CASE UNCHANGED observer_vars
  BY Zenon, <1>1, <1>2, <1>3, <1>4, <1>5, <1>12 DEF observer_vars, Attentive
<1>13. CASE ObserversQuiet
  BY Zenon, <1>12, <1>13 DEF ObserversQuiet
<1> QED
  BY Zenon, <1>7, <1>8, <1>9, <1>10, <1>11, <1>12, <1>13 DEF ObserversNext

(* What is sound has its types. *)
LEMMA AttentiveTypes == Attentive => ObserversTypeOK
<1> SUFFICES ASSUME Attentive PROVE ObserversTypeOK
  BY Zenon
<1>1. ASSUME NEW w \in Waiters
      PROVE  /\ waits[w].pc \in {"home", "poll", "outcome", "said"}
             /\ waits[w].at \in 1..LastRun + 1 /\ waits[w].settled \subseteq ORuns
             /\ waits[w].pc = "said" => \A r \in ORuns : waits[w].told[r].status # "none"
  BY Zenon DEF Attentive, WaitSound, Waiting, Reasoned, Statuses
<1>2. ASSUME NEW r \in ORuns
      PROVE  /\ world[r].node \in {"pending", "blocked", "done", "failed", "cancelled"}
             /\ world[r].sup \in {"alive", "dead", "unreadable"}
             /\ {world[r].ask, world[r].round, world[r].gens} \subseteq 0..MaxGen
  BY Zenon DEF Attentive, Stage, RunTyped, Statuses
<1>3. /\ tail.pc \in {"off", "drain", "sleep", "result", "cancelled", "failed"}
      /\ Len(tail.buf) <= 1 /\ pager.pc \in {"idle", "fire", "mark"}
  BY Zenon DEF Attentive, TailSound, TailTyped, PagerSound, PagerTyped
<1> QED
  BY Zenon, <1>1, <1>2, <1>3 DEF ObserversTypeOK

(* `run wait` (wait.rs) answers honestly whatever happens to the runs      *)
(* between its polls and its summaries: the reason, the exit code and the  *)
(* summaries agree, and a deadline is only given as the reason when the    *)
(* last poll did not meet the condition.                                   *)
THEOREM WaitSafe == ObserversSpec => []WaitIsHonest
<1>1. Attentive => WaitIsHonest
  BY ZenonT(60), AttentiveTypes, WaitAnswersRight DEF Attentive, WaitIsHonest
<1> QED
  BY <1>1, AttentiveInit, AttentiveStep, PTL DEF ObserversSpec

(* `event tail` shows the log line by line through crashes and repairs of  *)
(* its writers, and the supervisor pages a question or a round once and    *)
(* only while it is open (escalation.rs), for logs and runs of any size.   *)
THEOREM ObserversTold == ObserversSpec => []ToldOnceInTime
<1>1. Attentive => ToldOnceInTime
  BY Zenon, TailShowsLog, PagesOnce DEF Attentive, ToldOnceInTime
<1> QED
  BY <1>1, AttentiveInit, AttentiveStep, PTL DEF ObserversSpec

===============================================================================
