----------------------------- MODULE CreateProofs -----------------------------
(***************************************************************************)
(* Creations under one idempotency key make one run and forget nothing, for *)
(* every set of clients and run ids and every number of kills and failures. *)
(*                                                                         *)
(* The key, the files of each run and the place of each creator are three  *)
(* records of one fact.  The invariant Keyed says how they agree: past its *)
(* reservation a creator's run is the one the key names, a run the key or  *)
(* anyone still mentions as stale is dead for good, and what a creator has *)
(* of its run depends on its place.                                        *)
(***************************************************************************)
EXTENDS Create, FiniteSetTheorems, WellFoundedInduction, TLAPS

RunRecord == [stage : {"none", "run", "node"}, add : BOOLEAN,
              tree : BOOLEAN, pane : {"none", "boot", "held", "free"},
              shake : BOOLEAN, pub : BOOLEAN, edges : 0..2,
              sup : BOOLEAN, lost : BOOLEAN]
MakerRecord == [at : Steps, id : Ids \cup {0}, seen : KeyRecord, stale : SUBSET Ids,
                rounds : 0..MaxRounds, keep : BOOLEAN,
                out : {"none", "failed", "conflict", "created", "replayed"}]

\* The places before anything of the run exists, and those past the
\* reservation of the key.
Early == {"lookup", "reserve", "look", "wait", "reclaim", "clean", "stage", "refuse", "replay"}
Past == {"clean", "stage", "launcher", "launch", "adding", "node", "publish", "tell",
         "undo", "unstage", "drop"}
Looking == {"look", "wait", "reclaim", "replay"}

Typed ==
  /\ key \in KeyRecord /\ runs \in [Ids -> RunRecord] /\ maker \in [Creators -> MakerRecord]
  /\ child \in BOOLEAN

\* What a creator at a place has of its run.
Fits(a, r) ==
  /\ a \in Early => ~r.add /\ ~r.tree /\ ~r.pub /\ r.stage = "none"
  /\ a \in {"launcher", "launch"} => ~r.add /\ ~r.tree /\ ~r.pub /\ r.stage # "none"
  /\ a = "adding" => ~r.pub /\ r.stage # "none"
  /\ a \in {"node", "publish", "undo"} => ~r.add /\ ~r.pub /\ r.stage # "none"
  /\ a = "unstage" => ~r.add /\ ~r.pub /\ (r.tree => r.lost)
  /\ a = "drop" => ~r.add /\ ~r.pub /\ (r.tree => r.lost) /\ r.stage = "none"
  /\ a = "tell" => ~r.add /\ r.pub

\* Each creator at work has a run id of its own, and nobody mentions an id
\* before its creator has looked at the key.
Apart ==
  /\ \A c \in Creators : Working(c) =>
       /\ maker[c].id \in Ids /\ maker[c].out = "none"
       /\ Fits(maker[c].at, runs[maker[c].id])
  /\ \A c, d \in Creators :
       Working(c) /\ Working(d) /\ maker[c].id = maker[d].id => c = d
  /\ \A c \in Creators : maker[c].at = "lookup" =>
       /\ maker[c].id # key.run /\ \A d \in Creators : maker[c].id # maker[d].seen.run
  /\ \A c \in Creators : maker[c].at \in Looking => maker[c].seen.run \in Ids
  /\ \A c \in Creators : maker[c].at = "replay" => runs[maker[c].seen.run].pub

\* Past its reservation a creator's run is the key's; so is a run that is
\* published, and one that `workmux add` is at work on.
Owned ==
  /\ key # NoKey => key.run \in Ids
  /\ \A c \in Creators : maker[c].at \in Past => key.run = maker[c].id
  /\ \A c \in Creators : maker[c].at \in Past \ {"clean"} => key.stale = {}
  /\ \A i \in Ids : runs[i].pub => key.run = i
  /\ \A i \in Ids : runs[i].add => key.run = i /\ ~runs[i].pub /\ runs[i].stage # "none"

Dead(i) == ~runs[i].pub /\ ~runs[i].add /\ \A c \in Creators : Working(c) => maker[c].id # i

\* A run that is to be reclaimed, or was, is dead for good.
Buried ==
  /\ \A i \in key.stale : Dead(i)
  /\ \A c \in Creators : \A i \in maker[c].seen.stale : Dead(i)
  /\ \A c \in Creators : maker[c].at = "reclaim" => Dead(maker[c].seen.run)
  /\ \A c \in Creators : maker[c].at = "clean" =>
       /\ \A i \in maker[c].stale : Dead(i)
       /\ \A i \in key.stale \ maker[c].stale :
            runs[i].stage = "none" /\ (runs[i].tree => runs[i].lost)

Keyed == Typed /\ Apart /\ Owned /\ Buried /\ NothingForgotten /\ AnswerIsWhole

\* Of every run a step keeps what creators rely on.
SameRuns ==
  \A i \in Ids :
    /\ runs'[i].stage = runs[i].stage /\ runs'[i].add = runs[i].add
    /\ runs'[i].tree = runs[i].tree /\ runs'[i].pub = runs[i].pub
    /\ runs'[i].lost = runs[i].lost
    /\ runs'[i].edges = runs[i].edges \/ runs'[i].edges = 1

(* A set of numbers that is not empty has a least one. *)
LEMMA Least == ASSUME NEW T \in SUBSET Nat, T # {} PROVE \E x \in T : \A y \in T : x <= y
<1>1. \E x \in T : \A y \in T : ~(<<y, x>> \in OpToRel(<, Nat))
  BY Zenon, NatLessThanWellFounded, WFMin
<1>2. \A x, y \in T : x <= y \/ <<y, x>> \in OpToRel(<, Nat)
  BY SMTT(60) DEF OpToRel
<1> QED
  BY Zenon, <1>1, <1>2

(* A new id is one that nobody uses. *)
LEMMA NewIdUnused == Unused # {} => NewId \in Unused
<1> SUFFICES ASSUME Unused # {} PROVE NewId \in Unused
  BY Zenon
<1>1. Unused \in SUBSET Nat
  BY Zenon, CreateAssumption DEF Unused
<1> QED
  BY Zenon, <1>1, Least DEF NewId

(* The records that the steps write are records of their types. *)
LEMMA RunEdits ==
  ASSUME NEW r \in RunRecord, NEW b \in BOOLEAN, 1 \in 0..2
  PROVE  /\ NoResources(r) \in RunRecord /\ NoStaging(r) \in RunRecord
         /\ Leftover(r) \in RunRecord
         /\ [r EXCEPT !.stage = "run"] \in RunRecord
         /\ [r EXCEPT !.stage = "node"] \in RunRecord
         /\ [r EXCEPT !.shake = FALSE] \in RunRecord
         /\ [r EXCEPT !.add = b] \in RunRecord
         /\ [r EXCEPT !.tree = TRUE] \in RunRecord
         /\ [r EXCEPT !.pane = "boot"] \in RunRecord
         /\ [r EXCEPT !.pane = "free"] \in RunRecord
         /\ [r EXCEPT !.pane = "none"] \in RunRecord
         /\ [r EXCEPT !.shake = ~r.pub, !.pane = "held"] \in RunRecord
         /\ [r EXCEPT !.stage = "none", !.shake = FALSE, !.pub = TRUE] \in RunRecord
         /\ [r EXCEPT !.edges = 1] \in RunRecord
         /\ [r EXCEPT !.sup = b] \in RunRecord
BY ZenonT(60) DEF RunRecord, NoResources, NoStaging, Leftover

LEMMA MakerEdits ==
  ASSUME NEW m \in MakerRecord, NEW p \in Steps, NEW k \in KeyRecord, NEW n \in 0..MaxRounds,
         NEW s \in SUBSET Ids, 0 \in 0..MaxRounds, NoKey \in KeyRecord
  PROVE  /\ [m EXCEPT !.at = p] \in MakerRecord
         /\ [m EXCEPT !.at = p, !.seen = k] \in MakerRecord
         /\ [m EXCEPT !.at = p, !.seen = NoKey, !.rounds = 0] \in MakerRecord
         /\ [m EXCEPT !.rounds = n, !.at = p] \in MakerRecord
         /\ [m EXCEPT !.at = p, !.seen = NoKey, !.rounds = 0,
                      !.keep = TRUE, !.stale = s] \in MakerRecord
         /\ [m EXCEPT !.stale = s] \in MakerRecord
         /\ [m EXCEPT !.at = p, !.keep = FALSE] \in MakerRecord
BY Zenon DEF MakerRecord

LEMMA AwayEdits ==
  ASSUME NEW i \in Ids, NEW o \in {"none", "failed", "conflict", "created", "replayed"},
         0 \in 0..MaxRounds, NoKey \in KeyRecord
  PROVE  /\ [Away EXCEPT !.out = o] \in MakerRecord
         /\ [Away EXCEPT !.at = "lookup", !.id = i] \in MakerRecord
<1>1. Away \in MakerRecord
  BY Zenon DEF MakerRecord, Away, Steps
<1>2. \A m \in MakerRecord : /\ [m EXCEPT !.out = o] \in MakerRecord
                             /\ [m EXCEPT !.at = "lookup", !.id = i] \in MakerRecord
  BY ZenonT(60) DEF MakerRecord, Steps
<1> QED
  BY Zenon, <1>1, <1>2

LEMMA KeyFacts ==
  /\ NoKey \in KeyRecord /\ 0 \in 0..MaxRounds /\ 1 \in 0..2
  /\ \A i \in Ids, s \in SUBSET Ids : Reservation(i, s) \in KeyRecord
  /\ \A k \in KeyRecord : [k EXCEPT !.stale = {}] \in KeyRecord
BY SMTT(60), CreateAssumption DEF NoKey, KeyRecord, Reservation

(* A key nobody reserved names no run and nothing to reclaim. *)
LEMMA Unreserved == NoKey.run = 0 /\ NoKey.stale = {}
BY Zenon DEF NoKey

(* A step of a creator changes its own record. *)
LEMMA SetEffect ==
  ASSUME Typed, NEW c \in Creators, NEW m \in MakerRecord, Set(c, m)
  PROVE  /\ maker' \in [Creators -> MakerRecord] /\ maker'[c] = m
         /\ \A d \in Creators \ {c} : maker'[d] = maker[d]
BY Zenon DEF Typed, Set

(* A step on a run changes its own record. *)
LEMMA RunEffect ==
  ASSUME Typed, NEW i \in Ids, NEW r \in RunRecord, runs' = [runs EXCEPT ![i] = r]
  PROVE  /\ runs' \in [Ids -> RunRecord] /\ runs'[i] = r
         /\ \A j \in Ids \ {i} : runs'[j] = runs[j]
BY Zenon DEF Typed

(* A creator goes on to a place that what it has of its run fits; it may   *)
(* have changed its own run, and that only past the reservation.           *)
LEMMA Advance ==
  ASSUME Keyed, NEW c \in Creators, Working(c),
         maker' \in [Creators -> MakerRecord], runs' \in [Ids -> RunRecord],
         UNCHANGED <<key, child>>,
         \A d \in Creators \ {c} : maker'[d] = maker[d],
         \A i \in Ids \ {maker[c].id} : runs'[i] = runs[i],
         maker'[c].id = maker[c].id, maker'[c].out = maker[c].out,
         maker'[c].at \notin {"idle", "lookup", "clean"},
         Fits(maker'[c].at, runs'[maker[c].id]),
         maker'[c].at \in Past => maker[c].at \in Past \ {"clean"},
         maker'[c].seen \in {maker[c].seen, key},
         maker'[c].at \in Looking => maker'[c].seen.run \in Ids,
         maker'[c].at = "replay" => runs[maker'[c].seen.run].pub,
         maker'[c].at = "reclaim" => Dead(maker'[c].seen.run),
         runs'[maker[c].id] = runs[maker[c].id] \/ maker[c].at \in Past,
         runs[maker[c].id].pub => runs'[maker[c].id].pub,
         runs'[maker[c].id].add =>
           ~runs'[maker[c].id].pub /\ runs'[maker[c].id].stage # "none",
         runs'[maker[c].id].edges = runs[maker[c].id].edges
  PROVE  Keyed'
<1> USE DEF Keyed
<1> DEFINE own == maker[c].id
<1>1. own \in Ids
  BY Zenon DEF Apart
<1>2. \A d \in Creators : Working(d)' <=> Working(d)
  BY Zenon DEF Working
<1>3. \A d \in Creators : maker'[d].id = maker[d].id /\ maker'[d].out = maker[d].out
  BY Zenon
<1>4. \A i \in Ids : Dead(i) => i # own /\ Dead(i)'
  BY Zenon, <1>1, <1>2, <1>3 DEF Dead
<1>5. Typed'
  BY Zenon DEF Typed
<1>6. key.stale \in SUBSET Ids /\ \A d \in Creators : maker[d].seen.stale \in SUBSET Ids
  BY Zenon DEF Typed, KeyRecord, MakerRecord
<1>7. Apart'
  <2>1. \A d \in Creators : Working(d)' =>
          /\ maker'[d].id \in Ids /\ maker'[d].out = "none"
          /\ Fits(maker'[d].at, runs'[maker'[d].id])
    BY SMTT(60), ZenonT(60), <1>1, <1>2, <1>3 DEF Apart
  <2>2. \A d, e \in Creators :
          Working(d)' /\ Working(e)' /\ maker'[d].id = maker'[e].id => d = e
    BY ZenonT(60), <1>2, <1>3 DEF Apart
  <2>3. \A d \in Creators : maker'[d].at = "lookup" =>
          /\ maker'[d].id # key.run /\ \A e \in Creators : maker'[d].id # maker'[e].seen.run
    BY SMTT(60), ZenonT(60) DEF Apart
  <2>4. \A d \in Creators : maker'[d].at \in Looking => maker'[d].seen.run \in Ids
    BY Zenon DEF Apart
  <2>5. \A d \in Creators : maker'[d].at = "replay" => runs'[maker'[d].seen.run].pub
    <3>1. \A i \in Ids : runs[i].pub => runs'[i].pub
      BY Zenon, <1>1
    <3>2. \A d \in Creators \ {c} : maker[d].at = "replay" => maker[d].seen.run \in Ids
      BY Zenon DEF Apart, Looking
    <3> QED
      BY Zenon, <3>1, <3>2 DEF Apart, Looking
  <2> QED
    BY Zenon, <2>1, <2>2, <2>3, <2>4, <2>5 DEF Apart
<1>8. maker[c].at \in Past => key.run = own
  BY Zenon DEF Owned
<1>9. Owned'
  <2>1. \A i \in Ids : runs'[i].pub => key.run = i
    BY Zenon, <1>1, <1>8 DEF Owned
  <2>2. \A i \in Ids : runs'[i].add => key.run = i /\ ~runs'[i].pub /\ runs'[i].stage # "none"
    BY ZenonT(60), <1>1, <1>8 DEF Owned
  <2>3. \A d \in Creators : maker'[d].at \in Past => key.run = maker'[d].id
    BY SMTT(60), ZenonT(60), <1>3 DEF Owned
  <2>4. \A d \in Creators : maker'[d].at \in Past \ {"clean"} => key.stale = {}
    BY Zenon DEF Owned
  <2> QED
    BY Zenon, <2>1, <2>2, <2>3, <2>4 DEF Owned
<1>10. Buried'
  <2>1. \A i \in key.stale : Dead(i)'
    BY Zenon, <1>4, <1>6 DEF Buried
  <2>2. \A d \in Creators : \A i \in maker'[d].seen.stale : Dead(i)'
    BY Zenon, <1>4, <1>6 DEF Buried
  <2>3. \A d \in Creators : maker'[d].at = "reclaim" => Dead(maker[d].seen.run)'
    <3>1. \A d \in Creators \ {c} : maker[d].at = "reclaim" =>
            maker[d].seen.run \in Ids /\ Dead(maker[d].seen.run)
      BY Zenon DEF Apart, Buried, Looking
    <3>2. maker'[c].at = "reclaim" => maker'[c].seen.run \in Ids /\ Dead(maker'[c].seen.run)
      BY Zenon DEF Looking
    <3>3. \A d \in Creators : maker'[d].at = "reclaim" =>
            maker'[d].seen.run \in Ids /\ Dead(maker'[d].seen.run)
      BY Zenon, <3>1, <3>2
    <3> QED
      BY Zenon, <1>4, <3>3 DEF Dead
  <2>4. ASSUME NEW d \in Creators, maker'[d].at = "clean"
        PROVE  /\ \A i \in maker'[d].stale : Dead(i)'
               /\ \A i \in key.stale \ maker'[d].stale :
                    runs'[i].stage = "none" /\ (runs'[i].tree => runs'[i].lost)
    <3>1. maker'[d] = maker[d] /\ maker[d].stale \in SUBSET Ids
      BY Zenon, <2>4 DEF Typed, MakerRecord
    <3>2. \A i \in key.stale : i \in Ids /\ i # own
      BY Zenon, <1>4, <1>6 DEF Buried
    <3> QED
      BY SMTT(60), ZenonT(60), <1>4, <2>4, <3>1, <3>2 DEF Buried
  <2> QED
    BY Zenon, <2>1, <2>2, <2>3, <2>4 DEF Buried
<1>11. NothingForgotten'
  <2>1. \A i \in Ids \ {own} : LeaseHeld(i) => LeaseHeld(i)'
    BY Zenon, <1>2, <1>3 DEF LeaseHeld
  <2>2. Working(c)' /\ maker'[c].id = own /\ maker'[c].at # "lookup"
    BY Zenon, <1>2
  <2>3. LeaseHeld(own)'
    BY Zenon, <2>2 DEF LeaseHeld
  <2> QED
    BY Zenon, <2>1, <2>3 DEF NothingForgotten
<1>12. AnswerIsWhole'
  <2>1. \A i \in Ids : runs'[i].edges = runs[i].edges /\ (runs[i].pub => runs'[i].pub)
    BY Zenon, <1>1
  <2> QED
    BY Zenon, <1>3, <2>1 DEF AnswerIsWhole
<1> QED
  BY Zenon, <1>5, <1>7, <1>9, <1>10, <1>11, <1>12

(* A creator that ends leaves what the key still names; the key goes only  *)
(* with a run of which nothing is left.                                    *)
LEMMA Leave ==
  ASSUME Keyed, NEW c \in Creators, Working(c),
         NEW o \in {"failed", "conflict", "created", "replayed"}, Answer(c, o),
         runs' \in [Ids -> RunRecord], SameRuns, UNCHANGED child,
         \/ key' = key
         \/ maker[c].at = "drop" /\ key.run = maker[c].id /\ key' = NoKey,
         o \in {"created", "replayed"} =>
           \E i \in Ids : runs'[i].pub /\ (child => runs'[i].edges = 1)
  PROVE  Keyed'
<1> USE DEF Keyed
<1> DEFINE own == maker[c].id
<1>1. /\ maker' \in [Creators -> MakerRecord] /\ maker'[c] = [Away EXCEPT !.out = o]
      /\ \A d \in Creators \ {c} : maker'[d] = maker[d]
  <2>1. 1 \in Ids
    BY Zenon, CreateAssumption
  <2>2. [Away EXCEPT !.out = o] \in MakerRecord
    BY Zenon, <2>1, KeyFacts, AwayEdits
  <2> QED
    BY Zenon, <2>2, SetEffect DEF Answer
<1>2. /\ maker'[c].at = "idle" /\ maker'[c].seen.run = 0 /\ maker'[c].seen.stale = {}
      /\ maker'[c].out = o
  BY SMTT(60), ZenonT(60), <1>1 DEF Away, NoKey
<1>3. own \in Ids /\ Fits(maker[c].at, runs[own]) /\ 0 \notin Ids
  BY Zenon, CreateAssumption DEF Apart
<1>4. Typed'
  BY Zenon, <1>1, KeyFacts DEF Typed
<1>5. \A d \in Creators : Working(d)' <=> (d # c /\ Working(d))
  BY Zenon, <1>1, <1>2 DEF Working
<1>6. \A i \in Ids : Dead(i) => Dead(i)'
  BY Zenon, <1>1, <1>5 DEF Dead, SameRuns
<1>7. /\ key.stale \in SUBSET Ids
      /\ \A d \in Creators : maker[d].seen.stale \in SUBSET Ids /\ maker[d].stale \in SUBSET Ids
  BY Zenon DEF Typed, KeyRecord, MakerRecord
<1>8. /\ (key'.run = key.run /\ key'.stale = key.stale) \/ (key'.run = 0 /\ key'.stale = {})
      /\ key' # key => /\ key.run = own /\ maker[c].at = "drop" /\ key.stale = {}
                       /\ key'.run = 0 /\ key'.stale = {} /\ key' = NoKey
                       /\ ~runs[own].pub /\ ~runs[own].add /\ runs[own].stage = "none"
                       /\ (runs[own].tree => runs[own].lost)
  <2>1. NoKey.run = 0 /\ NoKey.stale = {}
    BY Zenon DEF NoKey
  <2>2. CASE key' = key
    BY Zenon, <2>2
  <2>3. CASE key' # key
    <3>1. maker[c].at = "drop" /\ key.run = own /\ key' = NoKey
      BY Zenon, <2>3
    <3>2. key.stale = {}
      BY Zenon, <3>1 DEF Owned, Past
    <3> QED
      BY Zenon, <1>3, <2>1, <3>1, <3>2 DEF Fits
  <2> QED
    BY Zenon, <2>2, <2>3
<1>9. Apart'
  <2>1. \A d \in Creators : Working(d)' =>
          /\ maker'[d].id \in Ids /\ maker'[d].out = "none"
          /\ Fits(maker'[d].at, runs'[maker'[d].id])
    BY SMTT(60), <1>1, <1>5 DEF Apart, Fits, SameRuns
  <2>2. \A d, e \in Creators :
          Working(d)' /\ Working(e)' /\ maker'[d].id = maker'[e].id => d = e
    BY ZenonT(60), <1>1, <1>5 DEF Apart
  <2>3. \A d \in Creators : maker'[d].at = "lookup" =>
          /\ maker'[d].id # key'.run /\ \A e \in Creators : maker'[d].id # maker'[e].seen.run
    <3>1. ASSUME NEW d \in Creators, maker'[d].at = "lookup"
          PROVE  d # c /\ maker'[d] = maker[d] /\ maker[d].id \in Ids
      BY Zenon, <1>1, <1>2, <1>5, <2>1, <3>1 DEF Working
    <3>2. \A e \in Creators : maker'[e].seen.run \in {0, maker[e].seen.run}
      BY Zenon, <1>1, <1>2
    <3> QED
      BY SMTT(60), <1>3, <1>8, <3>1, <3>2 DEF Apart
  <2>4. \A d \in Creators : maker'[d].at \in Looking => maker'[d].seen.run \in Ids
    BY Zenon, <1>1, <1>2 DEF Apart, Looking
  <2>5. \A d \in Creators : maker'[d].at = "replay" => runs'[maker'[d].seen.run].pub
    <3>1. ASSUME NEW d \in Creators, maker'[d].at = "replay"
          PROVE  maker'[d] = maker[d]
      BY Zenon, <1>1, <1>2, <3>1
    <3> QED
      BY ZenonT(60), <2>4, <3>1 DEF Apart, Looking, SameRuns
  <2> QED
    BY ZenonT(60), <2>1, <2>2, <2>3, <2>4, <2>5 DEF Apart
<1>10. Owned'
  <2>1. key' # NoKey => key'.run \in Ids
    BY Zenon, <1>8 DEF Owned
  <2>2. \A d \in Creators : maker'[d].at \in Past => key'.run = maker'[d].id
    <3>1. ASSUME NEW d \in Creators, maker'[d].at \in Past
          PROVE  d # c /\ maker'[d] = maker[d] /\ maker[d].id # own /\ key.run = maker[d].id
      <4>1. d # c /\ maker'[d] = maker[d] /\ Working(d)
        BY Zenon, <1>1, <1>2, <3>1 DEF Past, Working
      <4> QED
        BY Zenon, <3>1, <4>1 DEF Apart, Owned
    <3> QED
      BY Zenon, <1>8, <3>1
  <2>3. \A d \in Creators : maker'[d].at \in Past \ {"clean"} => key'.stale = {}
    BY Zenon, <1>1, <1>2, <1>8 DEF Owned, Past
  <2>4. \A i \in Ids : /\ runs'[i].pub => key'.run = i
                       /\ runs'[i].add => key'.run = i /\ ~runs'[i].pub /\ runs'[i].stage # "none"
    BY SMTT(60), <1>8 DEF Owned, SameRuns
  <2> QED
    BY Zenon, <2>1, <2>2, <2>3, <2>4 DEF Owned
<1>11. Buried'
  <2>1. \A i \in key'.stale : Dead(i)'
    BY Zenon, <1>6, <1>7, <1>8 DEF Buried
  <2>2. \A d \in Creators : \A i \in maker'[d].seen.stale : Dead(i)'
    <3>1. \A d \in Creators : maker'[d].seen.stale \subseteq maker[d].seen.stale
      BY Zenon, <1>1, <1>2
    <3> QED
      BY Zenon, <1>6, <1>7, <3>1 DEF Buried
  <2>3. \A d \in Creators : maker'[d].at = "reclaim" => Dead(maker[d].seen.run)'
    <3>1. \A d \in Creators : maker'[d].at = "reclaim" =>
            maker'[d].seen.run \in Ids /\ Dead(maker'[d].seen.run)
      BY ZenonT(60), <1>1, <1>2 DEF Apart, Buried, Looking
    <3> QED
      BY Zenon, <1>6, <3>1 DEF Dead
  <2>4. ASSUME NEW d \in Creators, maker'[d].at = "clean"
        PROVE  /\ \A i \in maker'[d].stale : Dead(i)'
               /\ \A i \in key'.stale \ maker'[d].stale :
                    runs'[i].stage = "none" /\ (runs'[i].tree => runs'[i].lost)
    <3>1. maker'[d] = maker[d] /\ maker[d].at = "clean"
      BY ZenonT(60), <1>1, <1>2, <2>4
    <3> QED
      BY SMTT(60), <1>6, <1>7, <1>8, <3>1 DEF Buried, SameRuns
  <2> QED
    BY Zenon, <2>1, <2>2, <2>3, <2>4 DEF Buried
<1>12. NothingForgotten'
  <2>1. ASSUME NEW i \in Ids, i # own,
               (runs'[i].tree \/ runs'[i].stage # "none") /\ ~runs'[i].pub
        PROVE  \/ LeaseHeld(i)' \/ runs'[i].lost
               \/ (i \in {key'.run} \cup key'.stale /\ runs'[i].stage # "none")
    <3>1. LeaseHeld(i) => LeaseHeld(i)'
      BY SMTT(60), ZenonT(60), <1>1, <1>5, <2>1 DEF LeaseHeld, SameRuns
    <3> QED
      BY ZenonT(60), <1>8, <2>1, <3>1 DEF NothingForgotten, SameRuns
  <2>2. ASSUME (runs'[own].tree \/ runs'[own].stage # "none") /\ ~runs'[own].pub
        PROVE  \/ runs'[own].lost
               \/ (own \in {key'.run} \cup key'.stale /\ runs'[own].stage # "none")
    <3>1. (runs[own].tree \/ runs[own].stage # "none") /\ ~runs[own].pub
      BY Zenon, <1>3, <2>2 DEF SameRuns
    <3>2. maker[c].at \in Steps /\ maker[c].at # "idle"
      BY Zenon DEF Typed, MakerRecord, Working
    <3>3. maker[c].at \notin Early /\ maker[c].at \in Past
      BY Zenon, <1>3, <3>1, <3>2 DEF Fits, Steps, Early, Past
    <3>4. key.run = own /\ (runs[own].lost \/ runs[own].stage # "none")
      BY Zenon, <1>3, <3>1, <3>2, <3>3 DEF Owned, Fits, Past, Early
    <3> QED
      BY Zenon, <1>3, <1>8, <3>1, <3>4 DEF SameRuns
  <2> QED
    BY Zenon, <1>3, <2>1, <2>2 DEF NothingForgotten
<1>13. AnswerIsWhole'
  <2>1. \A i \in Ids : runs'[i].edges <= 1
    BY SMTT(60) DEF AnswerIsWhole, SameRuns
  <2>2. ASSUME NEW d \in Creators, maker'[d].out \in {"created", "replayed"}
        PROVE  \E i \in Ids : runs'[i].pub /\ (child' => runs'[i].edges = 1)
    <3>1. CASE d = c
      BY Zenon, <1>2, <2>2, <3>1
    <3>2. CASE d # c
      BY ZenonT(60), <1>1, <2>2, <3>2 DEF AnswerIsWhole, SameRuns
    <3> QED
      BY Zenon, <3>1, <3>2
  <2> QED
    BY Zenon, <2>1, <2>2 DEF AnswerIsWhole
<1> QED
  BY Zenon, <1>4, <1>9, <1>10, <1>11, <1>12, <1>13

(* workmux and the pane change nothing that a creator relies on, or a run   *)
(* that is being made and that the key names.                              *)
LEMMA Making ==
  ASSUME Keyed, NEW i \in Ids, UNCHANGED <<key, maker, child>>,
         runs' \in [Ids -> RunRecord], \A j \in Ids \ {i} : runs'[j] = runs[j],
         runs'[i].stage = runs[i].stage, runs'[i].pub = runs[i].pub,
         runs'[i].lost = runs[i].lost, runs'[i].edges = runs[i].edges,
         runs'[i].add => runs[i].add,
         runs[i].add \/ (runs'[i].tree = runs[i].tree /\ runs'[i].add = runs[i].add)
  PROVE  Keyed'
<1> USE DEF Keyed
<1>1. Typed'
  BY Zenon DEF Typed
<1>2. \A d \in Creators : Working(d)' <=> Working(d)
  BY Zenon DEF Working
<1>3. \A j \in Ids : Dead(j) => Dead(j)'
  BY Zenon, <1>2 DEF Dead
<1>4. /\ key.stale \in SUBSET Ids
      /\ \A d \in Creators : maker[d].seen.stale \in SUBSET Ids /\ maker[d].stale \in SUBSET Ids
  BY Zenon DEF Typed, KeyRecord, MakerRecord
<1>5. Apart'
  <2>1. ASSUME NEW d \in Creators, Working(d) PROVE Fits(maker[d].at, runs'[maker[d].id])
    <3>1. maker[d].id \in Ids /\ Fits(maker[d].at, runs[maker[d].id])
      BY Zenon, <2>1 DEF Apart
    <3> QED
      BY Zenon, <3>1 DEF Fits, Early
  <2>2. \A d \in Creators : maker[d].at = "replay" => runs'[maker[d].seen.run].pub
    BY Zenon DEF Apart, Looking
  <2> QED
    BY Zenon, <1>2, <2>1, <2>2 DEF Apart
<1>6. Owned'
  BY ZenonT(60) DEF Owned
<1>7. Buried'
  <2>1. \A d \in Creators : maker[d].at = "reclaim" => Dead(maker[d].seen.run)'
    <3>1. \A d \in Creators : maker[d].at = "reclaim" =>
            maker[d].seen.run \in Ids /\ Dead(maker[d].seen.run)
      BY Zenon DEF Apart, Buried, Looking
    <3> QED
      BY Zenon, <1>3, <3>1 DEF Dead
  <2>2. ASSUME NEW d \in Creators, maker[d].at = "clean"
        PROVE  \A j \in key.stale \ maker[d].stale :
                    runs'[j].stage = "none" /\ (runs'[j].tree => runs'[j].lost)
    BY SMTT(60), ZenonT(60), <1>4, <2>2 DEF Buried, Dead
  <2> QED
    BY Zenon, <1>3, <1>4, <2>1, <2>2 DEF Buried
<1>8. NothingForgotten'
  <2>1. \A j \in Ids : LeaseHeld(j) /\ j # i => LeaseHeld(j)'
    BY Zenon, <1>2 DEF LeaseHeld
  <2>2. runs[i].add => i \in {key.run} \cup key.stale /\ runs'[i].stage # "none"
    BY Zenon DEF Owned
  <2>3. ~runs[i].add /\ LeaseHeld(i) => LeaseHeld(i)'
    BY Zenon, <1>2 DEF LeaseHeld
  <2> QED
    BY Zenon, <2>1, <2>2, <2>3 DEF NothingForgotten
<1>9. AnswerIsWhole'
  BY Zenon DEF AnswerIsWhole
<1> QED
  BY Zenon, <1>1, <1>5, <1>6, <1>7, <1>8, <1>9

(* workmux add and the launcher's pane, step by step. *)
LEMMA MakingStep == ASSUME Keyed, NEW i \in Ids, AddStep(i) \/ PaneStep(i) PROVE Keyed'
<1>1. Typed /\ runs[i] \in RunRecord
  BY Zenon DEF Keyed, Typed
<1>2. UNCHANGED <<key, maker, child>>
  BY Zenon DEF AddStep, PaneStep, AddTree, AddPane, AddEnds, Handshake, await_published_node
<1>3. ASSUME NEW r \in RunRecord, runs' = [runs EXCEPT ![i] = r],
             r.stage = runs[i].stage, r.pub = runs[i].pub, r.lost = runs[i].lost,
             r.edges = runs[i].edges, r.add => runs[i].add,
             runs[i].add \/ (r.tree = runs[i].tree /\ r.add = runs[i].add)
      PROVE  Keyed'
  <2>1. /\ runs' \in [Ids -> RunRecord] /\ runs'[i] = r
        /\ \A j \in Ids \ {i} : runs'[j] = runs[j]
    BY Zenon, <1>1, <1>3, RunEffect
  <2> QED
    BY Zenon, <1>2, <1>3, <2>1, Making
<1>4. TRUE \in BOOLEAN /\ FALSE \in BOOLEAN /\ 1 \in 0..2
  BY SMTT(60)
<1>5. CASE AddTree(i)
  <2> DEFINE r == [runs[i] EXCEPT !.tree = TRUE]
  <2>1. r \in RunRecord
    BY Zenon, <1>1, <1>4, RunEdits
  <2>2. runs' = [runs EXCEPT ![i] = r] /\ runs[i].add
    BY Zenon, <1>5 DEF AddTree
  <2>3. r.stage = runs[i].stage /\ r.pub = runs[i].pub /\ r.lost = runs[i].lost
        /\ r.edges = runs[i].edges
    BY Zenon, <1>1 DEF RunRecord
  <2> QED
    BY Zenon, <1>3, <2>1, <2>2, <2>3
<1>6. CASE AddPane(i)
  <2> DEFINE r == [runs[i] EXCEPT !.pane = "boot"]
  <2>1. r \in RunRecord
    BY Zenon, <1>1, <1>4, RunEdits
  <2>2. runs' = [runs EXCEPT ![i] = r] /\ runs[i].add
    BY Zenon, <1>6 DEF AddPane
  <2>3. r.stage = runs[i].stage /\ r.pub = runs[i].pub /\ r.lost = runs[i].lost
        /\ r.edges = runs[i].edges
    BY Zenon, <1>1 DEF RunRecord
  <2> QED
    BY Zenon, <1>3, <2>1, <2>2, <2>3
<1>7. CASE AddEnds(i)
  <2> DEFINE r == [runs[i] EXCEPT !.add = FALSE]
  <2>1. r \in RunRecord
    BY Zenon, <1>1, <1>4, RunEdits
  <2>2. runs' = [runs EXCEPT ![i] = r] /\ runs[i].add
    BY Zenon, <1>7 DEF AddEnds
  <2>3. r.stage = runs[i].stage /\ r.pub = runs[i].pub /\ r.lost = runs[i].lost
        /\ r.edges = runs[i].edges
    BY Zenon, <1>1 DEF RunRecord
  <2> QED
    BY Zenon, <1>3, <2>1, <2>2, <2>3
<1>8. ASSUME NEW r \in {[runs[i] EXCEPT !.shake = ~runs[i].pub, !.pane = "held"],
                        [runs[i] EXCEPT !.pane = "none"], [runs[i] EXCEPT !.pane = "free"]},
             runs' = [runs EXCEPT ![i] = r]
      PROVE  Keyed'
  <2>1. r \in RunRecord
    BY Zenon, <1>1, <1>4, <1>8, RunEdits
  <2>2. r.stage = runs[i].stage /\ r.pub = runs[i].pub /\ r.lost = runs[i].lost
        /\ r.edges = runs[i].edges /\ r.tree = runs[i].tree /\ r.add = runs[i].add
    BY Zenon, <1>1, <1>8 DEF RunRecord
  <2> QED
    BY Zenon, <1>3, <1>8, <2>1, <2>2
<1>9. CASE Handshake(i)
  BY Zenon, <1>8, <1>9 DEF Handshake
<1>10. CASE await_published_node(i)
  BY Zenon, <1>8, <1>10 DEF await_published_node
<1> QED
  BY Zenon, <1>5, <1>6, <1>7, <1>9, <1>10 DEF AddStep, PaneStep

(* Nothing exists yet, or a key file of another creation does. *)
LEMMA KeyedInit == CreateInit => Keyed
<1> SUFFICES ASSUME CreateInit PROVE Keyed
  BY Zenon
<1>1. 1 \in Ids /\ 0 \notin Ids /\ 0 \in 0..MaxRounds
  BY SMTT(60), CreateAssumption
<1>2. Blank \in RunRecord
  <2>1. 0 \in 0..2
    BY SMTT(60)
  <2> QED
    BY Zenon, <2>1 DEF Blank, RunRecord
<1>3. Away \in MakerRecord
  BY Zenon, <1>1, KeyFacts DEF Away, MakerRecord, Steps
<1>4. key \in KeyRecord /\ key.run \in {0, 1} /\ key.stale = {} /\ (key # NoKey => key.run = 1)
  <2>1. \A b \in {"legacy", "caller"} :
          LET k == [NoKey EXCEPT !.run = 1, !.by = b]
          IN  k \in KeyRecord /\ k.run = 1 /\ k.stale = {}
    BY Zenon, <1>1 DEF NoKey, KeyRecord
  <2>2. NoKey.run = 0 /\ NoKey.stale = {}
    BY Zenon DEF NoKey
  <2>3. \/ key = NoKey \/ key = [NoKey EXCEPT !.run = 1, !.by = "legacy"]
        \/ key = [NoKey EXCEPT !.run = 1, !.by = "caller"]
    BY Zenon DEF CreateInit
  <2> QED
    BY Zenon, <2>1, <2>2, <2>3, KeyFacts
<1>5. Typed
  BY Zenon, <1>2, <1>3, <1>4 DEF CreateInit, Typed
<1>6. \A i \in Ids : /\ runs[i].stage = "none" /\ ~runs[i].add /\ ~runs[i].tree /\ ~runs[i].pub
                     /\ runs[i].edges = 0
  BY Zenon DEF CreateInit, Blank
<1>7. \A c \in Creators : /\ maker[c].at = "idle" /\ maker[c].seen.stale = {} /\ maker[c].out = "none"
                          /\ maker[c].seen.run = 0
  BY Zenon DEF CreateInit, Away, NoKey
<1>8. Apart
  BY Zenon, <1>7 DEF Apart, Working, Looking
<1>9. Owned
  BY Zenon, <1>1, <1>4, <1>6, <1>7 DEF Owned, Past
<1>10. Buried
  BY Zenon, <1>4, <1>7 DEF Buried
<1>11. NothingForgotten /\ AnswerIsWhole
  BY SMTT(60), <1>6, <1>7 DEF NothingForgotten, AnswerIsWhole
<1> QED
  BY Zenon, <1>5, <1>8, <1>9, <1>10, <1>11 DEF Keyed

(* A client starts with an id that nobody has mentioned. *)
LEMMA StartStep == ASSUME Keyed, NEW c \in Creators, Start(c) PROVE Keyed'
<1> USE DEF Keyed
<1> DEFINE new == NewId
<1>1. /\ new \in Ids /\ runs[new] = Blank /\ new # key.run /\ new \notin key.stale
      /\ \A d \in Creators : /\ new # maker[d].id /\ new # maker[d].seen.run
                             /\ new \notin maker[d].stale /\ new \notin maker[d].seen.stale
  <2>1. NewId \in Unused
    BY Zenon, NewIdUnused DEF Start
  <2> QED
    BY Zenon, <2>1 DEF Unused, Mentioned
<1>2. /\ maker' \in [Creators -> MakerRecord]
      /\ maker'[c] = [Away EXCEPT !.at = "lookup", !.id = new]
      /\ \A d \in Creators \ {c} : maker'[d] = maker[d]
  <2>1. [Away EXCEPT !.at = "lookup", !.id = new] \in MakerRecord
    BY Zenon, <1>1, KeyFacts, AwayEdits
  <2> QED
    BY Zenon, <2>1, SetEffect DEF Start
<1>3. /\ maker'[c].at = "lookup" /\ maker'[c].id = new /\ maker'[c].seen.run = 0
      /\ maker'[c].seen.stale = {} /\ maker'[c].out = "none"
  BY SMTT(60), <1>2 DEF Away, NoKey
<1>4. maker[c].at = "idle" /\ UNCHANGED <<key, runs, child>>
  BY Zenon DEF Start
<1> HIDE DEF new
<1>5. 0 \notin Ids
  BY Zenon, CreateAssumption
<1>6. \A d \in Creators : Working(d)' <=> d = c \/ Working(d)
  BY Zenon, <1>2, <1>3 DEF Working
<1>7. \A i \in Ids : Dead(i) /\ i # new => Dead(i)'
  BY ZenonT(60), <1>2, <1>3, <1>4, <1>6 DEF Dead
<1>8. /\ key.stale \in SUBSET Ids
      /\ \A d \in Creators : maker[d].seen.stale \in SUBSET Ids /\ maker[d].stale \in SUBSET Ids
  BY Zenon DEF Typed, KeyRecord, MakerRecord
<1>9. Typed'
  BY Zenon, <1>2, <1>4 DEF Typed
<1>10. Apart'
  <2>1. Fits("lookup", runs[new])
    BY SMTT(60), <1>1 DEF Fits, Early, Blank
  <2>2. ASSUME NEW d \in Creators, Working(d)'
        PROVE  /\ maker'[d].id \in Ids /\ maker'[d].out = "none"
               /\ Fits(maker'[d].at, runs'[maker'[d].id])
    <3>1. CASE d = c
      BY Zenon, <1>1, <1>3, <1>4, <2>1, <3>1
    <3>2. CASE d # c
      <4>1. maker'[d] = maker[d] /\ Working(d) /\ runs' = runs
        BY Zenon, <1>2, <1>4, <1>6, <2>2, <3>2
      <4> QED
        BY Zenon, <4>1 DEF Apart
    <3> QED
      BY Zenon, <3>1, <3>2
  <2>3. ASSUME NEW d \in Creators, NEW e \in Creators,
               Working(d)', Working(e)', maker'[d].id = maker'[e].id
        PROVE  d = e
    <3>1. CASE d # c /\ e # c
      <4>1. maker'[d] = maker[d] /\ maker'[e] = maker[e] /\ Working(d) /\ Working(e)
        BY Zenon, <1>2, <1>6, <2>3, <3>1
      <4> QED
        BY Zenon, <2>3, <4>1 DEF Apart
    <3>2. CASE d = c /\ e # c
      BY Zenon, <1>1, <1>2, <1>3, <2>3, <3>2
    <3>3. CASE d # c /\ e = c
      BY Zenon, <1>1, <1>2, <1>3, <2>3, <3>3
    <3> QED
      BY Zenon, <3>1, <3>2, <3>3
  <2>4. ASSUME NEW d \in Creators, maker'[d].at = "lookup"
        PROVE  /\ maker'[d].id # key.run /\ \A e \in Creators : maker'[d].id # maker'[e].seen.run
    <3>1. maker'[d].id \in Ids
      BY Zenon, <2>2, <2>4 DEF Working
    <3>2. \A e \in Creators : maker'[e].seen.run \in {0, maker[e].seen.run}
      BY Zenon, <1>2, <1>3
    <3>3. CASE d = c
      BY Zenon, <1>1, <1>3, <1>5, <3>1, <3>2, <3>3
    <3>4. CASE d # c
      <4>1. maker'[d] = maker[d]
        BY Zenon, <1>2, <3>4
      <4> QED
        BY ZenonT(60), <1>5, <2>4, <3>1, <3>2, <4>1 DEF Apart
    <3> QED
      BY Zenon, <3>3, <3>4
  <2>5. \A d \in Creators : maker'[d].at \in Looking => maker'[d].seen.run \in Ids
    BY Zenon, <1>2, <1>3 DEF Apart, Looking
  <2>6. \A d \in Creators : maker'[d].at = "replay" => runs'[maker'[d].seen.run].pub
    BY Zenon, <1>2, <1>3, <1>4 DEF Apart
  <2> QED
    BY Zenon, <1>4, <2>2, <2>3, <2>4, <2>5, <2>6 DEF Apart
<1>11. Owned'
  <2>1. \A d \in Creators : maker'[d].at \in Past => maker'[d] = maker[d]
    BY Zenon, <1>2, <1>3 DEF Past
  <2> QED
    BY Zenon, <1>4, <2>1 DEF Owned
<1>12. Buried'
  <2>1. \A i \in key.stale : Dead(i)'
    BY Zenon, <1>1, <1>7, <1>8 DEF Buried
  <2>2. ASSUME NEW d \in Creators, NEW i \in maker'[d].seen.stale PROVE Dead(i)'
    <3>1. d # c /\ i \in maker[d].seen.stale
      BY Zenon, <1>2, <1>3, <2>2
    <3> QED
      BY Zenon, <1>1, <1>7, <1>8, <3>1 DEF Buried
  <2>3. \A d \in Creators : maker'[d].at = "reclaim" => Dead(maker[d].seen.run)'
    <3>1. \A d \in Creators : maker'[d].at = "reclaim" =>
            maker'[d] = maker[d] /\ maker[d].seen.run \in Ids /\ Dead(maker[d].seen.run)
            /\ maker[d].seen.run # new
      BY Zenon, <1>1, <1>2, <1>3 DEF Apart, Buried, Looking
    <3> QED
      BY ZenonT(60), <1>7, <3>1 DEF Dead
  <2>4. ASSUME NEW d \in Creators, maker'[d].at = "clean"
        PROVE  /\ \A i \in maker'[d].stale : Dead(i)'
               /\ \A i \in key.stale \ maker'[d].stale :
                    runs[i].stage = "none" /\ (runs[i].tree => runs[i].lost)
    <3>1. maker'[d] = maker[d] /\ maker[d].at = "clean"
      BY Zenon, <1>2, <1>3, <2>4
    <3> QED
      BY Zenon, <1>1, <1>7, <1>8, <3>1 DEF Buried
  <2> QED
    BY Zenon, <1>4, <2>1, <2>2, <2>3, <2>4 DEF Buried
<1>13. NothingForgotten'
  <2>1. \A i \in Ids : LeaseHeld(i) => LeaseHeld(i)'
    BY Zenon, <1>2, <1>4, <1>6 DEF LeaseHeld, Working
  <2> QED
    BY Zenon, <1>4, <2>1 DEF NothingForgotten
<1>14. AnswerIsWhole'
  BY Zenon, <1>2, <1>3, <1>4 DEF AnswerIsWhole
<1> QED
  BY Zenon, <1>9, <1>10, <1>11, <1>12, <1>13, <1>14

(* A creator that only looks goes on with what it saw. *)
LEMMA Proceed ==
  ASSUME Keyed, NEW c \in Creators, Working(c), NEW m \in MakerRecord, Set(c, m),
         UNCHANGED <<key, runs, child>>, m.id = maker[c].id, m.out = maker[c].out,
         m.at \notin {"idle", "lookup", "clean"}, m.seen \in {maker[c].seen, key},
         \/ m.at \in Early \ Past /\ maker[c].at \in Early
         \/ m.at \in Past /\ maker[c].at \in Past \ {"clean"} /\ Fits(m.at, runs[maker[c].id]),
         m.at \in Looking => m.seen.run \in Ids,
         m.at = "replay" => runs[m.seen.run].pub,
         m.at = "reclaim" => Dead(m.seen.run)
  PROVE  Keyed'
<1> DEFINE own == maker[c].id
<1>1. Typed /\ own \in Ids /\ Fits(maker[c].at, runs[own])
  BY Zenon DEF Keyed, Apart
<1>2. /\ maker' \in [Creators -> MakerRecord] /\ maker'[c] = m
      /\ \A d \in Creators \ {c} : maker'[d] = maker[d]
  BY Zenon, <1>1, SetEffect
<1>3. Fits(m.at, runs[own])
  BY Zenon, <1>1 DEF Fits, Early, Past
<1>4. runs[own].add => ~runs[own].pub /\ runs[own].stage # "none"
  BY Zenon, <1>1 DEF Keyed, Owned
<1>5. runs' \in [Ids -> RunRecord]
  BY Zenon, <1>1 DEF Typed
<1>6. m.at \in Past => maker[c].at \in Past \ {"clean"}
  BY Zenon DEF Past, Early
<1> HIDE DEF own
<1> QED
  BY Zenon, <1>1, <1>2, <1>3, <1>4, <1>5, <1>6, Advance DEF own

(* Past the reservation a creator works on its own run. *)
LEMMA Labour ==
  ASSUME Keyed, NEW c \in Creators, NEW p \in Past \ {"clean"}, NEW r \in RunRecord,
         maker[c].at \in Past \ {"clean"}, At(c, p), UNCHANGED <<key, child>>,
         Make(c, r) \/ (UNCHANGED runs /\ r = Mine(c)), Fits(p, r),
         Mine(c).pub => r.pub, r.add => ~r.pub /\ r.stage # "none", r.edges = Mine(c).edges
  PROVE  Keyed'
<1> DEFINE own == maker[c].id
<1>1. Typed /\ Working(c) /\ own \in Ids
  BY Zenon DEF Keyed, Apart, Working, Past
<1>2. p \in Steps /\ maker[c] \in MakerRecord
  BY Zenon, <1>1 DEF Past, Steps, Typed
<1>3. [maker[c] EXCEPT !.at = p] \in MakerRecord
  <2>1. maker[c].seen \in KeyRecord /\ maker[c].stale \in SUBSET Ids
    BY Zenon, <1>2 DEF MakerRecord
  <2> QED
    BY Zenon, <1>2, <2>1, KeyFacts, MakerEdits
<1>4. /\ maker' \in [Creators -> MakerRecord] /\ maker'[c] = [maker[c] EXCEPT !.at = p]
      /\ \A d \in Creators \ {c} : maker'[d] = maker[d]
  BY Zenon, <1>1, <1>3, SetEffect DEF At
<1>5. /\ maker'[c].at = p /\ maker'[c].id = own /\ maker'[c].out = maker[c].out
      /\ maker'[c].seen = maker[c].seen
  BY Zenon, <1>2, <1>4 DEF MakerRecord
<1>6. /\ runs' \in [Ids -> RunRecord] /\ runs'[own] = r
      /\ \A j \in Ids \ {own} : runs'[j] = runs[j]
  <2>1. CASE Make(c, r)
    BY Zenon, <1>1, <2>1, RunEffect DEF Make
  <2>2. CASE UNCHANGED runs /\ r = Mine(c)
    BY Zenon, <1>1, <2>2 DEF Typed, Mine
  <2> QED
    BY Zenon, <2>1, <2>2
<1>7. p \notin {"idle", "lookup", "clean", "replay", "reclaim"} /\ p \notin Looking
  BY Zenon DEF Past, Looking
<1>8. Mine(c) = runs[own]
  BY Zenon DEF Mine
<1> HIDE DEF own
<1> QED
  BY Zenon, <1>1, <1>4, <1>5, <1>6, <1>7, <1>8, Advance DEF own

(* The steps of a creation between the reservation and the publication. *)
LEMMA LabourStep ==
  ASSUME Keyed, NEW c \in Creators,
         \/ Undo(c) \/ Unstage(c) \/ Stage(c) \/ write_agent_launcher_with(c)
         \/ validate_request(c) \/ Launch(c) \/ Launched(c) \/ NodeCreated(c)
         \/ publish_staging_run(c)
  PROVE  Keyed'
<1> DEFINE r == Mine(c)
           Good(p, q) ==
             /\ p \in Past \ {"clean"} /\ maker[c].at \in Past \ {"clean"}
             /\ q \in RunRecord /\ Fits(p, q) /\ (r.pub => q.pub)
             /\ q.add => ~q.pub /\ q.stage # "none"
             /\ q.edges = r.edges
<1>1. UNCHANGED <<key, child>> /\ Working(c)
  BY Zenon DEF Undo, Unstage, Stage, write_agent_launcher_with, validate_request, Launch, Launched,
         NodeCreated, publish_staging_run, Working
<1>2. r \in RunRecord /\ Fits(maker[c].at, r)
  BY Zenon, <1>1 DEF Keyed, Typed, Apart, Mine
<1>3. \A p, q : Good(p, q) /\ At(c, p) /\ (Make(c, q) \/ (UNCHANGED runs /\ q = r)) => Keyed'
  BY Zenon, <1>1, Labour
<1>4. TRUE \in BOOLEAN /\ 1 \in 0..2
  BY SMTT(60), ZenonT(60)
<1>5. /\ NoResources(r) \in RunRecord /\ NoStaging(r) \in RunRecord
      /\ Leftover(r) \in RunRecord
      /\ [r EXCEPT !.stage = "run"] \in RunRecord
      /\ [r EXCEPT !.stage = "node"] \in RunRecord
      /\ [r EXCEPT !.shake = FALSE] \in RunRecord
      /\ [r EXCEPT !.add = TRUE] \in RunRecord
      /\ [r EXCEPT !.stage = "none", !.shake = FALSE, !.pub = TRUE] \in RunRecord
  BY Zenon, <1>2, <1>4, RunEdits
<1> HIDE DEF r
<1>6. CASE Undo(c)
  <2>1. maker[c].at = "undo" /\ At(c, "unstage")
        /\ (Make(c, NoResources(r)) \/ Make(c, Leftover(r)))
    BY Zenon, <1>6 DEF Undo, r
  <2>2. Good("unstage", NoResources(r))
    BY SMTT(60), <1>2, <1>5, <2>1 DEF Past, Fits, Early, NoResources, RunRecord
  <2>3. Good("unstage", Leftover(r))
    BY ZenonT(180), <1>2, <1>5, <2>1 DEF Past, Fits, Early, Leftover, RunRecord
  <2> QED
    BY Zenon, <1>3, <2>1, <2>2, <2>3
<1>7. CASE Unstage(c)
  <2>1. maker[c].at = "unstage" /\ At(c, "drop") /\ Make(c, NoStaging(r))
    BY Zenon, <1>7 DEF Unstage, r
  <2>2. Good("drop", NoStaging(r))
    BY SMTT(60), ZenonT(60), <1>2, <1>5, <2>1 DEF Past, Fits, Early, NoStaging, RunRecord
  <2> QED
    BY Zenon, <1>3, <2>1, <2>2
<1>8. CASE Stage(c)
  <2>1. /\ maker[c].at = "stage"
        /\ \/ Make(c, [r EXCEPT !.stage = "run"]) /\ At(c, "launcher")
           \/ At(c, "drop") /\ UNCHANGED runs
           \/ At(c, "unstage") /\ UNCHANGED runs
    BY Zenon, <1>8 DEF Stage, r
  <2>2. Good("launcher", [r EXCEPT !.stage = "run"])
    BY SMTT(60), <1>2, <1>5, <2>1 DEF Past, Fits, Early, RunRecord
  <2>3. Good("drop", r) /\ Good("unstage", r)
    BY Zenon, <1>2, <2>1 DEF Past, Fits, Early
  <2> QED
    BY Zenon, <1>3, <2>1, <2>2, <2>3
<1>9. CASE write_agent_launcher_with(c)
  <2>1. /\ maker[c].at = "launcher"
        /\ \/ Make(c, [r EXCEPT !.shake = FALSE]) /\ At(c, "launch")
           \/ At(c, "unstage") /\ UNCHANGED runs
    BY Zenon, <1>9 DEF write_agent_launcher_with, r
  <2>2. Good("launch", [r EXCEPT !.shake = FALSE])
    BY SMTT(60), <1>2, <1>5, <2>1 DEF Past, Fits, Early, RunRecord
  <2>3. Good("unstage", r)
    BY Zenon, <1>2, <2>1 DEF Past, Fits, Early
  <2> QED
    BY Zenon, <1>3, <2>1, <2>2, <2>3
<1>10. CASE validate_request(c)
  <2>1. maker[c].at = "launch" /\ At(c, "unstage") /\ UNCHANGED runs
    BY Zenon, <1>10 DEF validate_request
  <2>2. Good("unstage", r)
    BY Zenon, <1>2, <2>1 DEF Past, Fits, Early
  <2> QED
    BY Zenon, <1>3, <2>1, <2>2
<1>11. CASE Launch(c)
  <2>1. maker[c].at = "launch" /\ At(c, "adding") /\ Make(c, [r EXCEPT !.add = TRUE])
    BY Zenon, <1>11 DEF Launch, r
  <2>2. Good("adding", [r EXCEPT !.add = TRUE])
    BY ZenonT(60), <1>2, <1>5, <2>1 DEF Past, Fits, Early, RunRecord
  <2> QED
    BY Zenon, <1>3, <2>1, <2>2
<1>12. CASE Launched(c)
  <2>1. maker[c].at = "adding" /\ ~r.add /\ UNCHANGED runs /\ (At(c, "node") \/ At(c, "undo"))
    BY Zenon, <1>12 DEF Launched, r
  <2>2. Good("node", r) /\ Good("undo", r)
    BY Zenon, <1>2, <2>1 DEF Past, Fits, Early
  <2> QED
    BY Zenon, <1>3, <2>1, <2>2
<1>13. CASE NodeCreated(c)
  <2>1. /\ maker[c].at = "node"
        /\ \/ Make(c, [r EXCEPT !.stage = "node"]) /\ At(c, "publish")
           \/ At(c, "undo") /\ UNCHANGED runs
    BY Zenon, <1>13 DEF NodeCreated, r
  <2>2. Good("publish", [r EXCEPT !.stage = "node"])
    BY SMTT(60), <1>2, <1>5, <2>1 DEF Past, Fits, Early, RunRecord
  <2>3. Good("undo", r)
    BY Zenon, <1>2, <2>1 DEF Past, Fits, Early
  <2> QED
    BY Zenon, <1>3, <2>1, <2>2, <2>3
<1>14. CASE publish_staging_run(c)
  <2>1. /\ maker[c].at = "publish"
        /\ \/ /\ Make(c, [r EXCEPT !.stage = "none", !.shake = FALSE, !.pub = TRUE])
              /\ At(c, "tell")
           \/ At(c, "undo") /\ UNCHANGED runs
    BY Zenon, <1>14 DEF publish_staging_run, r
  <2>2. Good("tell", [r EXCEPT !.stage = "none", !.shake = FALSE, !.pub = TRUE])
    BY SMTT(60), <1>2, <1>5, <2>1 DEF Past, Fits, Early, RunRecord
  <2>3. Good("undo", r)
    BY Zenon, <1>2, <2>1 DEF Past, Fits, Early
  <2> QED
    BY Zenon, <1>3, <2>1, <2>2, <2>3
<1> QED
  BY Zenon, <1>6, <1>7, <1>8, <1>9, <1>10, <1>11, <1>12, <1>13, <1>14

(* The looks at the key, and giving up on one that is another's. *)
LEMMA MakerFields ==
  ASSUME NEW m \in MakerRecord, NEW p \in Steps, NEW k \in KeyRecord, NEW n \in 0..MaxRounds
  PROVE  /\ [m EXCEPT !.at = p] \in MakerRecord
         /\ [m EXCEPT !.at = p, !.seen = k] \in MakerRecord
         /\ [m EXCEPT !.rounds = n, !.at = p] \in MakerRecord
         /\ LET q == [m EXCEPT !.at = p]
            IN  q.at = p /\ q.id = m.id /\ q.out = m.out /\ q.seen = m.seen
         /\ LET q == [m EXCEPT !.at = p, !.seen = k]
            IN  q.at = p /\ q.id = m.id /\ q.out = m.out /\ q.seen = k
         /\ LET q == [m EXCEPT !.rounds = n, !.at = p]
            IN  q.at = p /\ q.id = m.id /\ q.out = m.out /\ q.seen = m.seen
<1>1. m.stale \in SUBSET Ids
  BY Zenon DEF MakerRecord
<1>2. /\ [m EXCEPT !.at = p] \in MakerRecord
      /\ [m EXCEPT !.at = p, !.seen = k] \in MakerRecord
      /\ [m EXCEPT !.rounds = n, !.at = p] \in MakerRecord
  BY Zenon, <1>1, KeyFacts, MakerEdits
<1> QED
  BY Zenon, <1>2 DEF MakerRecord

LEMMA LookingStep ==
  ASSUME Keyed, NEW c \in Creators,
         \/ Lookup(c) /\ key.by # "caller"
         \/ reserve(c) /\ key # NoKey
         \/ Look(c) \/ Wait(c)
         \/ reclaim(c) /\ (runs[maker[c].seen.run].pub \/ key \notin {NoKey, maker[c].seen})
         \/ Replay(c) /\ UNCHANGED runs /\ At(c, "refuse")
         \/ CleanedAll(c) /\ At(c, "refuse") /\ UNCHANGED key
  PROVE  Keyed'
<1> DEFINE m == maker[c]
<1>1. Typed /\ UNCHANGED <<key, runs, child>> /\ Working(c) /\ m.at \in Early
  BY Zenon DEF Keyed, Lookup, reserve, Look, Wait, reclaim, Replay, CleanedAll, Working, Early
<1>2. m \in MakerRecord /\ key \in KeyRecord /\ m.rounds \in 0..MaxRounds /\ m.id \in Ids
  BY Zenon, <1>1 DEF Typed, MakerRecord, Keyed, Apart
<1>3. key # NoKey => key.run \in Ids
  BY Zenon DEF Keyed, Owned
<1>4. m.at \in Looking => m.seen.run \in Ids
  BY Zenon DEF Keyed, Apart
<1>5. {"reserve", "look", "refuse", "wait", "reclaim", "replay"} \subseteq Steps
      /\ {"reserve", "look", "refuse", "wait", "reclaim", "replay"} \subseteq Early \ Past
      /\ {"reserve", "look", "refuse", "wait", "reclaim", "replay"} \cap
           {"idle", "lookup", "clean"} = {}
      /\ {"reserve", "refuse"} \cap (Looking \cup {"replay", "reclaim"}) = {}
  BY Zenon DEF Steps, Early, Past, Looking
<1> HIDE DEF m
<1>6. ASSUME NEW p \in {"reserve", "refuse"}, At(c, p) PROVE Keyed'
  <2>1. Set(c, [m EXCEPT !.at = p]) /\ p \in Steps
    BY Zenon, <1>5, <1>6 DEF At, m
  <2>2. /\ [m EXCEPT !.at = p] \in MakerRecord /\ [m EXCEPT !.at = p].at = p
        /\ [m EXCEPT !.at = p].id = m.id /\ [m EXCEPT !.at = p].out = m.out
        /\ [m EXCEPT !.at = p].seen = m.seen
    BY ZenonT(60), <1>2, <2>1, MakerFields
  <2> QED
    BY Zenon, <1>1, <1>5, <1>6, <2>1, <2>2, Proceed DEF m
<1>7. ASSUME NEW p \in {"look", "replay"}, Set(c, [m EXCEPT !.at = p, !.seen = key]),
             key # NoKey, p = "replay" => runs[key.run].pub
      PROVE  Keyed'
  <2> DEFINE q == [m EXCEPT !.at = p, !.seen = key]
  <2>1. q \in MakerRecord /\ q.at = p /\ q.id = m.id /\ q.out = m.out /\ q.seen = key
    <3>1. p \in Steps
      BY Zenon, <1>5, <1>7
    <3>2. q \in MakerRecord
      BY Zenon, <1>2, <3>1, MakerFields
    <3> QED
      BY Zenon, <1>2, <3>2 DEF MakerRecord
  <2>2. Set(c, q)
    BY Zenon, <1>7
  <2> HIDE DEF q
  <2>3. q.at = p /\ p \in Early \ Past /\ p \notin {"idle", "lookup", "clean", "reclaim"}
    BY Zenon, <1>5, <1>7, <2>1
  <2> QED
    BY Zenon, <1>1, <1>3, <1>7, <2>1, <2>2, <2>3, Proceed DEF m
<1>8. CASE Lookup(c) /\ key.by # "caller"
  <2>1. \/ key # NoKey /\ runs[key.run].pub /\ Set(c, [m EXCEPT !.at = "replay", !.seen = key])
        \/ At(c, "reserve")
    BY Zenon, <1>8 DEF Lookup, m
  <2> QED
    BY Zenon, <1>6, <1>7, <2>1
<1>9. CASE reserve(c) /\ key # NoKey
  BY Zenon, <1>7, <1>9 DEF reserve, m
<1>10. CASE Look(c)
  <2> DEFINE n == IF m.rounds < MaxRounds THEN m.rounds + 1 ELSE m.rounds
             what == classify_existing_reservation(m.seen)
             p == CASE ~(m.rounds < MaxRounds) \/ m.seen.by = "caller" -> "refuse"
                        [] what = "published" -> "replay"
                        [] what = "live" -> "wait"
                        [] what = "dead" -> "reclaim"
                        [] OTHER -> "refuse"
             q == [m EXCEPT !.rounds = n, !.at = p]
  <2>1. n \in 0..MaxRounds
    BY SMTT(60), <1>2, CreateAssumption
  <2>2. Set(c, q) /\ m.at = "look"
    BY Zenon, <1>10 DEF Look, m
  <2>3. /\ p \in {"refuse", "replay", "wait", "reclaim"}
        /\ p = "replay" => what = "published"
        /\ p = "reclaim" => what = "dead"
    BY Zenon
  <2>4. p = "replay" => runs[m.seen.run].pub
    BY Zenon, <2>3 DEF classify_existing_reservation
  <2>5. p = "reclaim" => Dead(m.seen.run)
    <3>1. ASSUME p = "reclaim" PROVE ~runs[m.seen.run].pub /\ ~LeaseHeld(m.seen.run)
      BY Zenon, <2>3, <3>1 DEF classify_existing_reservation
    <3>2. \A d \in Creators : maker[d].at = "lookup" => maker[d].id # m.seen.run
      BY Zenon DEF Keyed, Apart, m
    <3> QED
      BY Zenon, <3>1, <3>2 DEF LeaseHeld, Dead
  <2> HIDE DEF n, what, p
  <2>6. p \in Steps /\ p \in Early \ Past /\ p \notin {"idle", "lookup", "clean"}
    BY Zenon, <1>5, <2>3
  <2>7. q \in MakerRecord /\ q.at = p /\ q.id = m.id /\ q.out = m.out /\ q.seen = m.seen
    <3>1. q \in MakerRecord
      BY Zenon, <1>2, <2>1, <2>6, MakerFields
    <3> QED
      BY Zenon, <1>2, <3>1 DEF MakerRecord
  <2>8. m.seen.run \in Ids
    BY Zenon, <1>4, <2>2 DEF Looking
  <2> HIDE DEF q
  <2> QED
    BY Zenon, <1>1, <2>2, <2>4, <2>5, <2>6, <2>7, <2>8, Proceed DEF m
<1>11. CASE Wait(c)
  <2>1. \/ At(c, "refuse") \/ At(c, "reserve")
        \/ key # NoKey /\ Set(c, [m EXCEPT !.at = "look", !.seen = key])
    BY Zenon, <1>11 DEF Wait, m
  <2> QED
    BY Zenon, <1>6, <1>7, <2>1
<1>12. CASE reclaim(c) /\ (runs[maker[c].seen.run].pub \/ key \notin {NoKey, maker[c].seen})
  <2>1. CASE runs[maker[c].seen.run].pub
    <3> DEFINE q == [m EXCEPT !.at = "look"]
    <3>1. Set(c, q) /\ m.at = "reclaim"
      BY Zenon, <1>12, <2>1 DEF reclaim, At, m
    <3>2. q \in MakerRecord /\ q.at = "look" /\ q.id = m.id /\ q.out = m.out /\ q.seen = m.seen
      <4>1. "look" \in Steps
        BY Zenon, <1>5
      <4>2. q \in MakerRecord
        BY Zenon, <1>2, <4>1, MakerFields
      <4> QED
        BY Zenon, <1>2, <4>2 DEF MakerRecord
    <3>3. m.seen.run \in Ids
      BY Zenon, <1>4, <3>1 DEF Looking
    <3> HIDE DEF q
    <3>4. q.at \in Early \ Past /\ q.at \notin {"idle", "lookup", "clean", "replay", "reclaim"}
      BY Zenon, <1>5, <3>2
    <3> QED
      BY Zenon, <1>1, <3>1, <3>2, <3>3, <3>4, Proceed DEF m
  <2>2. CASE ~runs[maker[c].seen.run].pub
    <3>1. key # NoKey /\ Set(c, [m EXCEPT !.at = "look", !.seen = key])
      BY Zenon, <1>12, <2>2 DEF reclaim, m
    <3> QED
      BY Zenon, <1>7, <3>1
  <2> QED
    BY Zenon, <2>1, <2>2
<1>13. CASE At(c, "refuse")
  BY Zenon, <1>6, <1>13
<1> QED
  BY Zenon, <1>8, <1>9, <1>10, <1>11, <1>12, <1>13

(* The steps with which a creation ends, a kill included. *)
LEMMA LeavingStep ==
  ASSUME Keyed, NEW c \in Creators,
         \/ Lookup(c) /\ key.by = "caller"
         \/ Refused(c) \/ Drop(c) \/ Tell(c) \/ Killed(c)
         \/ Replay(c) /\ Answer(c, "replayed")
                      /\ runs' = [runs EXCEPT ![maker[c].seen.run] = append_child_spawned_if_missing(@)]
  PROVE  Keyed'
<1>1. Typed /\ UNCHANGED child /\ Working(c)
  BY Zenon DEF Keyed, Lookup, Refused, Drop, Tell, Killed, Replay, Working
<1>2. ASSUME UNCHANGED runs PROVE runs' \in [Ids -> RunRecord] /\ SameRuns
  BY Zenon, <1>1, <1>2 DEF Typed, SameRuns
<1>3. CASE Lookup(c) /\ key.by = "caller"
  BY Zenon, <1>1, <1>2, <1>3, Leave DEF Lookup
<1>4. CASE Refused(c)
  BY Zenon, <1>1, <1>2, <1>4, Leave DEF Refused
<1>5. CASE Drop(c)
  <2>1. \/ key' = key
        \/ maker[c].at = "drop" /\ key.run = maker[c].id /\ key' = NoKey
    <3> DEFINE b == ~maker[c].keep /\ key.run = maker[c].id
    <3>1. maker[c].at = "drop" /\ key' = IF b THEN NoKey ELSE key
      BY Zenon, <1>5 DEF Drop, release
    <3>2. b => key.run = maker[c].id
      BY Zenon
    <3> HIDE DEF b
    <3> QED
      BY Zenon, <3>1, <3>2
  <2> QED
    BY Zenon, <1>1, <1>2, <1>5, <2>1, Leave DEF Drop
<1>6. CASE Killed(c)
  BY Zenon, <1>1, <1>2, <1>6, Leave DEF Killed
<1>7. ASSUME NEW i \in Ids, runs[i].pub PROVE
        LET r == append_child_spawned_if_missing(runs[i])
            q == spawn_supervisor_or_fail(r)
        IN  /\ r \in RunRecord /\ q \in RunRecord
            /\ \A x \in {r, q} :
                 /\ x.stage = runs[i].stage /\ x.add = runs[i].add /\ x.tree = runs[i].tree
                 /\ x.pub = runs[i].pub /\ x.lost = runs[i].lost
                 /\ x.edges = runs[i].edges \/ x.edges = 1
                 /\ child => x.edges = 1
  <2> DEFINE r == append_child_spawned_if_missing(runs[i])
             q == spawn_supervisor_or_fail(r)
  <2>1. runs[i] \in RunRecord /\ runs[i].edges \in 0..2 /\ runs[i].edges <= 1 /\ child \in BOOLEAN
    BY Zenon, <1>1 DEF Typed, RunRecord, Keyed, AnswerIsWhole
  <2>2. /\ r \in RunRecord /\ r.stage = runs[i].stage /\ r.add = runs[i].add
        /\ r.tree = runs[i].tree /\ r.pub = runs[i].pub /\ r.lost = runs[i].lost
        /\ r.edges = runs[i].edges \/ r.edges = 1
        /\ child => r.edges = 1
    <3>1. [runs[i] EXCEPT !.edges = 1] \in RunRecord
      BY Zenon, <2>1, KeyFacts, RunEdits
    <3>2. CASE child /\ runs[i].edges = 0
      BY Zenon, <2>1, <3>1, <3>2 DEF append_child_spawned_if_missing, RunRecord
    <3>3. CASE ~(child /\ runs[i].edges = 0)
      BY SMTT(60), <2>1, <3>3 DEF append_child_spawned_if_missing
    <3> QED
      BY Zenon, <3>2, <3>3
  <2> HIDE DEF r
  <2>3. (~child) \in BOOLEAN
    BY Zenon
  <2>4. q \in RunRecord
    BY Zenon, <2>2, <2>3, KeyFacts, RunEdits DEF spawn_supervisor_or_fail
  <2>5. /\ q.stage = r.stage /\ q.add = r.add /\ q.tree = r.tree /\ q.pub = r.pub
        /\ q.lost = r.lost /\ q.edges = r.edges
    BY Zenon, <2>2 DEF spawn_supervisor_or_fail, RunRecord
  <2> HIDE DEF q
  <2> QED
    BY Zenon, <2>2, <2>4, <2>5 DEF r, q
<1>8. ASSUME NEW i \in Ids, runs[i].pub, NEW x, x \in RunRecord, runs' = [runs EXCEPT ![i] = x],
             /\ x.stage = runs[i].stage /\ x.add = runs[i].add /\ x.tree = runs[i].tree
             /\ x.pub = runs[i].pub /\ x.lost = runs[i].lost
             /\ x.edges = runs[i].edges \/ x.edges = 1
             /\ child => x.edges = 1,
             NEW o \in {"created", "replayed"}, Answer(c, o), UNCHANGED key
      PROVE  Keyed'
  <2>1. /\ runs' \in [Ids -> RunRecord] /\ runs'[i] = x
        /\ \A j \in Ids \ {i} : runs'[j] = runs[j]
    BY Zenon, <1>1, <1>8, RunEffect
  <2>2. SameRuns /\ runs'[i].pub /\ (child => runs'[i].edges = 1)
    BY Zenon, <1>8, <2>1 DEF SameRuns
  <2> QED
    BY Zenon, <1>1, <1>8, <2>1, <2>2, Leave
<1>9. CASE Tell(c)
  <2>1. CASE Answer(c, "failed") /\ UNCHANGED runs
    BY Zenon, <1>1, <1>2, <1>9, <2>1, Leave DEF Tell
  <2>2. CASE Answer(c, "created") /\
             Make(c, spawn_supervisor_or_fail(append_child_spawned_if_missing(Mine(c))))
    <3>1. maker[c].id \in Ids /\ runs[maker[c].id].pub /\ UNCHANGED key
      BY Zenon, <1>1, <1>9 DEF Tell, Keyed, Apart, Fits
    <3> QED
      BY Zenon, <1>7, <1>8, <2>2, <3>1 DEF Make, Mine
  <2> QED
    BY Zenon, <1>9, <2>1, <2>2 DEF Tell
<1>10. CASE Replay(c) /\ Answer(c, "replayed")
            /\ runs' = [runs EXCEPT ![maker[c].seen.run] = append_child_spawned_if_missing(@)]
  <2>1. maker[c].seen.run \in Ids /\ runs[maker[c].seen.run].pub /\ UNCHANGED key
    BY Zenon, <1>10 DEF Replay, Keyed, Apart, Looking
  <2>2. runs' = [runs EXCEPT ![maker[c].seen.run] =
                   append_child_spawned_if_missing(runs[maker[c].seen.run])]
    BY Zenon, <1>1, <1>10, <2>1 DEF Typed
  <2> QED
    BY Zenon, <1>7, <1>8, <1>10, <2>1, <2>2
<1> QED
  BY Zenon, <1>3, <1>4, <1>5, <1>6, <1>9, <1>10

(* A creator takes a key that is free, or whose run is dead; it takes over *)
(* every run the key named.                                                *)
LEMMA Take ==
  ASSUME Keyed, NEW c \in Creators, maker[c].at \in {"reserve", "reclaim"},
         NEW S \in SUBSET Ids, key' = Reservation(maker[c].id, S), UNCHANGED <<runs, child>>,
         \A i \in S : Dead(i),
         maker' \in [Creators -> MakerRecord], \A d \in Creators \ {c} : maker'[d] = maker[d],
         maker'[c].id = maker[c].id, maker'[c].out = maker[c].out,
         maker'[c].seen.run = 0, maker'[c].seen.stale = {},
         \/ maker'[c].at = "stage" /\ S = {}
         \/ maker'[c].at = "clean" /\ maker'[c].stale = S,
         key = NoKey \/ (Dead(key.run) /\ key.run \in S /\ key.stale \subseteq S)
  PROVE  Keyed'
<1> USE DEF Keyed
<1> DEFINE own == maker[c].id
<1>1. own \in Ids /\ Working(c) /\ Fits(maker[c].at, runs[own]) /\ 0 \notin Ids
  BY Zenon, CreateAssumption DEF Apart, Working
<1>2. key'.run = own /\ key'.stale = S /\ key' \in KeyRecord
  BY Zenon, <1>1, KeyFacts DEF Reservation
<1>3. \A d \in Creators : maker[d].at \notin Past
  <2>1. ASSUME NEW d \in Creators, maker[d].at \in Past PROVE FALSE
    <3>1. Working(d) /\ key.run = maker[d].id /\ maker[d].id \in Ids
      BY Zenon, <2>1 DEF Past, Working, Owned, Apart
    <3> QED
      BY Zenon, <1>1, <3>1, Unreserved DEF Dead
  <2> QED
    BY Zenon, <2>1
<1>4. ASSUME NEW i \in Ids PROVE ~runs[i].pub /\ ~runs[i].add
  <2>1. runs[i].pub \/ runs[i].add => key.run = i
    BY Zenon DEF Owned
  <2>2. CASE key = NoKey
    BY Zenon, <1>1, <2>1, <2>2, Unreserved
  <2>3. CASE Dead(key.run)
    BY Zenon, <2>1, <2>3 DEF Dead
  <2> QED
    BY Zenon, <2>2, <2>3
<1>5. \A d \in Creators : Working(d)' <=> Working(d)
  BY Zenon, <1>1 DEF Working
<1>6. \A d \in Creators : maker'[d].id = maker[d].id /\ maker'[d].out = maker[d].out
  BY Zenon
<1>7. \A i \in Ids : Dead(i) => Dead(i)'
  BY Zenon, <1>5, <1>6 DEF Dead
<1>8. /\ key.stale \in SUBSET Ids
      /\ \A d \in Creators : maker[d].seen.stale \in SUBSET Ids /\ maker[d].stale \in SUBSET Ids
  BY Zenon DEF Typed, KeyRecord, MakerRecord
<1>9. Typed'
  BY Zenon, <1>2 DEF Typed
<1>10. Apart'
  <2>1. Fits("stage", runs[own]) /\ Fits("clean", runs[own])
    BY Zenon, <1>1 DEF Fits, Early
  <2>2. ASSUME NEW d \in Creators, Working(d)'
        PROVE  /\ maker'[d].id \in Ids /\ maker'[d].out = "none"
               /\ Fits(maker'[d].at, runs'[maker'[d].id])
    <3>1. CASE d = c
      BY Zenon, <1>1, <2>1, <3>1 DEF Apart
    <3>2. CASE d # c
      BY ZenonT(60), <1>5, <2>2, <3>2 DEF Apart
    <3> QED
      BY Zenon, <3>1, <3>2
  <2>3. \A d, e \in Creators :
          Working(d)' /\ Working(e)' /\ maker'[d].id = maker'[e].id => d = e
    BY ZenonT(60), <1>5, <1>6 DEF Apart
  <2>4. ASSUME NEW d \in Creators, maker'[d].at = "lookup"
        PROVE  /\ maker'[d].id # key'.run /\ \A e \in Creators : maker'[d].id # maker'[e].seen.run
    <3>1. d # c /\ maker'[d] = maker[d] /\ Working(d) /\ maker[d].id \in Ids
      BY Zenon, <2>4 DEF Working, Apart
    <3>2. maker[d].id # own
      BY Zenon, <1>1, <3>1 DEF Apart
    <3>3. \A e \in Creators : maker'[e].seen.run \in {0, maker[e].seen.run}
      BY Zenon
    <3>4. maker[d].at = "lookup"
      BY Zenon, <2>4, <3>1
    <3>5. \A e \in Creators : maker[d].id # maker[e].seen.run /\ maker[d].id # 0
      BY Zenon, <1>1, <3>1, <3>4 DEF Apart
    <3> QED
      BY Zenon, <1>2, <3>1, <3>2, <3>3, <3>5
  <2>5. \A d \in Creators : maker'[d].at \in Looking => maker'[d] = maker[d]
    BY Zenon DEF Looking
  <2> QED
    BY Zenon, <2>2, <2>3, <2>4, <2>5 DEF Apart, Looking
<1>11. Owned'
  <2>1. \A d \in Creators : maker'[d].at \in Past => d = c
    BY Zenon, <1>3
  <2>2. maker'[c].at # "clean" => S = {}
    BY Zenon
  <2> QED
    BY Zenon, <1>1, <1>2, <1>4, <2>1, <2>2 DEF Owned
<1>12. Buried'
  <2>1. \A i \in key'.stale : Dead(i)'
    BY Zenon, <1>2, <1>7
  <2>2. ASSUME NEW d \in Creators, NEW i \in maker'[d].seen.stale PROVE Dead(i)'
    <3>1. i \in maker[d].seen.stale
      BY Zenon, <2>2
    <3> QED
      BY Zenon, <1>7, <1>8, <3>1 DEF Buried
  <2>3. \A d \in Creators : maker'[d].at = "reclaim" => Dead(maker[d].seen.run)'
    <3>1. \A d \in Creators : maker'[d].at = "reclaim" =>
            maker'[d] = maker[d] /\ maker[d].seen.run \in Ids /\ Dead(maker[d].seen.run)
      BY Zenon DEF Apart, Buried, Looking
    <3> QED
      BY ZenonT(60), <1>7, <3>1 DEF Dead
  <2>4. ASSUME NEW d \in Creators, maker'[d].at = "clean"
        PROVE  d = c /\ maker'[d].stale = S
    BY Zenon, <1>3, <2>4 DEF Past
  <2>5. \A d \in Creators : maker'[d].at = "reclaim" => d # c /\ maker'[d] = maker[d]
    BY Zenon
  <2>6. \A d \in Creators : \A i \in maker'[d].seen.stale : Dead(i)'
    BY Zenon, <2>2
  <2> QED
    BY ZenonT(60), <1>2, <2>1, <2>3, <2>4, <2>5, <2>6 DEF Buried
<1>13. NothingForgotten'
  <2>1. \A i \in Ids : LeaseHeld(i) => LeaseHeld(i)'
    BY Zenon, <1>5, <1>6 DEF LeaseHeld
  <2>2. \A i \in Ids : i \in {key.run} \cup key.stale => i \in {key'.run} \cup key'.stale
    BY ZenonT(60), <1>1, <1>2, Unreserved
  <2> QED
    BY Zenon, <2>1, <2>2 DEF NothingForgotten
<1>14. AnswerIsWhole'
  BY Zenon, <1>6 DEF AnswerIsWhole
<1> QED
  BY Zenon, <1>9, <1>10, <1>11, <1>12, <1>13, <1>14

(* The reservation and the reclaiming replacement of the key. *)
LEMMA TakeStep ==
  ASSUME Keyed, NEW c \in Creators,
         \/ reserve(c) /\ key = NoKey
         \/ /\ reclaim(c) /\ ~runs[maker[c].seen.run].pub
            /\ key \in {NoKey, maker[c].seen}
  PROVE  Keyed'
<1> DEFINE m == maker[c]
<1>1. Typed /\ Working(c) /\ UNCHANGED <<runs, child>>
  BY Zenon DEF Keyed, reserve, reclaim, Working
<1>2. m \in MakerRecord /\ m.id \in Ids /\ m.seen \in KeyRecord
  BY Zenon, <1>1 DEF Typed, MakerRecord, Keyed, Apart
<1>3. NoKey.run = 0 /\ NoKey.stale = {}
  BY Zenon DEF NoKey
<1>4. CASE reserve(c) /\ key = NoKey
  <2> DEFINE q == [m EXCEPT !.at = "stage", !.seen = NoKey, !.rounds = 0]
  <2>1. m.at = "reserve" /\ key' = Reservation(m.id, {}) /\ Set(c, q)
    BY Zenon, <1>4 DEF reserve
  <2>2. q \in MakerRecord
    <3>1. "stage" \in Steps /\ {} \in SUBSET Ids
      BY Zenon DEF Steps
    <3> QED
      BY Zenon, <1>2, <3>1, KeyFacts, MakerEdits
  <2>3. q.id = m.id /\ q.out = m.out /\ q.seen = NoKey /\ q.at = "stage"
    BY Zenon, <1>2 DEF MakerRecord
  <2>4. /\ maker' \in [Creators -> MakerRecord] /\ maker'[c] = q
        /\ \A d \in Creators \ {c} : maker'[d] = maker[d]
    BY Zenon, <1>1, <2>1, <2>2, SetEffect
  <2> HIDE DEF q
  <2> QED
    BY Zenon, <1>1, <1>3, <1>4, <2>1, <2>3, <2>4, Take
<1>5. CASE /\ reclaim(c) /\ ~runs[maker[c].seen.run].pub
           /\ key \in {NoKey, maker[c].seen}
  <2> DEFINE S == m.seen.stale \cup {m.seen.run}
             q == [m EXCEPT !.at = "clean", !.seen = NoKey, !.rounds = 0,
                       !.keep = TRUE, !.stale = S]
  <2>1. m.at = "reclaim" /\ key' = Reservation(m.id, S)
    BY Zenon, <1>5 DEF reclaim, replacement
  <2>2. Set(c, q)
    BY Zenon, <1>5 DEF reclaim, replacement, Reservation
  <2>3. S \in SUBSET Ids /\ \A i \in S : Dead(i)
    <3>1. m.seen.run \in Ids /\ Dead(m.seen.run) /\ m.seen.stale \in SUBSET Ids
      BY Zenon, <1>2, <2>1 DEF Keyed, Apart, Buried, Looking, KeyRecord
    <3> QED
      BY Zenon, <3>1 DEF Keyed, Buried
  <2>4. key = NoKey \/ (Dead(key.run) /\ key.run \in S /\ key.stale \subseteq S)
    <3>1. ASSUME key # NoKey
          PROVE  key.run \in S /\ key.stale \subseteq S
      BY Zenon, <1>5, <3>1
    <3> QED
      BY Zenon, <2>3, <3>1 DEF Dead
  <2> HIDE DEF S
  <2>5. q \in MakerRecord
    <3>1. "clean" \in Steps
      BY Zenon DEF Steps
    <3> QED
      BY Zenon, <1>2, <2>3, <3>1, KeyFacts, MakerEdits
  <2>6. q.id = m.id /\ q.out = m.out /\ q.seen = NoKey /\ q.at = "clean" /\ q.stale = S
    BY Zenon, <1>2 DEF MakerRecord
  <2>7. /\ maker' \in [Creators -> MakerRecord] /\ maker'[c] = q
        /\ \A d \in Creators \ {c} : maker'[d] = maker[d]
    BY Zenon, <1>1, <2>2, <2>5, SetEffect
  <2> HIDE DEF q
  <2> QED
    BY Zenon, <1>1, <1>3, <2>1, <2>3, <2>4, <2>6, <2>7, Take
<1> QED
  BY Zenon, <1>4, <1>5

(* Cleaning up after a dead run takes from that run alone, and an obligation *)
(* is struck from the list only with the files that named it.              *)
LEMMA Bury ==
  ASSUME Keyed, NEW c \in Creators, maker[c].at = "clean", NEW i \in maker[c].stale,
         UNCHANGED <<key, child>>, runs' \in [Ids -> RunRecord],
         \A j \in Ids \ {i} : runs'[j] = runs[j],
         runs'[i].pub = runs[i].pub, runs'[i].add = runs[i].add, runs'[i].edges = runs[i].edges,
         maker' \in [Creators -> MakerRecord], \A d \in Creators \ {c} : maker'[d] = maker[d],
         maker'[c].id = maker[c].id, maker'[c].out = maker[c].out, maker'[c].seen = maker[c].seen,
         \/ /\ maker'[c].at = "clean" /\ maker'[c].stale = maker[c].stale \ {i}
            /\ runs'[i].stage = "none" /\ (runs'[i].tree => runs'[i].lost)
         \/ /\ maker'[c].at = "refuse"
            /\ runs'[i].stage = runs[i].stage /\ runs'[i].lost = runs[i].lost
            /\ runs'[i].tree => runs[i].tree
  PROVE  Keyed'
<1> USE DEF Keyed
<1> DEFINE own == maker[c].id
<1>1. own \in Ids /\ Working(c) /\ Fits("clean", runs[own]) /\ key.run = own
  <2>1. Working(c)
    BY Zenon DEF Working
  <2>2. own \in Ids /\ Fits("clean", runs[own])
    BY Zenon, <2>1 DEF Apart
  <2>3. "clean" \in Past
    BY Zenon DEF Past
  <2>4. key.run = own
    BY Zenon, <2>3 DEF Owned
  <2> QED
    BY Zenon, <2>1, <2>2, <2>4
<1>2. maker[c].stale \in SUBSET Ids /\ i \in Ids /\ Dead(i) /\ i # own
  <2>1. maker[c].stale \in SUBSET Ids /\ Dead(i)
    BY Zenon DEF Typed, MakerRecord, Buried
  <2> QED
    BY Zenon, <1>1, <2>1 DEF Dead
<1>3. ASSUME NEW d \in Creators, maker[d].at \in Past PROVE d = c
  <2>1. Working(d)
    BY Zenon, <1>3 DEF Past, Working
  <2>2. maker[d].id = own
    BY Zenon, <1>1, <1>3 DEF Owned
  <2> QED
    BY Zenon, <1>1, <2>1, <2>2 DEF Apart
<1>4. \A d \in Creators : Working(d)' <=> Working(d)
  BY Zenon, <1>1 DEF Working
<1>5. \A d \in Creators : /\ maker'[d].id = maker[d].id /\ maker'[d].out = maker[d].out
                          /\ maker'[d].seen = maker[d].seen
  BY Zenon
<1>6. \A j \in Ids : Dead(j) => Dead(j)'
  BY Zenon, <1>4, <1>5 DEF Dead
<1>7. /\ key.stale \in SUBSET Ids
      /\ \A d \in Creators : maker[d].seen.stale \in SUBSET Ids /\ maker[d].stale \in SUBSET Ids
  BY Zenon DEF Typed, KeyRecord, MakerRecord
<1>8. Typed'
  BY Zenon DEF Typed
<1>9. Apart'
  <2>1. \A d \in Creators : Working(d) => maker[d].id # i
    BY Zenon, <1>2 DEF Dead
  <2>2. Fits("refuse", runs[own])
    BY Zenon, <1>1 DEF Fits, Early
  <2>3. ASSUME NEW d \in Creators, Working(d)'
        PROVE  /\ maker'[d].id \in Ids /\ maker'[d].out = "none"
               /\ Fits(maker'[d].at, runs'[maker'[d].id])
    <3>1. Working(d) /\ maker[d].id # i /\ maker[d].id \in Ids /\ maker[d].out = "none"
          /\ Fits(maker[d].at, runs[maker[d].id])
      BY Zenon, <1>4, <2>1, <2>3 DEF Apart
    <3>2. runs'[maker[d].id] = runs[maker[d].id]
      BY Zenon, <3>1
    <3>3. CASE d = c
      BY Zenon, <1>1, <1>5, <2>2, <3>1, <3>2, <3>3
    <3>4. CASE d # c
      BY Zenon, <1>5, <3>1, <3>2, <3>4
    <3> QED
      BY Zenon, <3>3, <3>4
  <2>4. \A d, e \in Creators :
          Working(d)' /\ Working(e)' /\ maker'[d].id = maker'[e].id => d = e
    BY ZenonT(180), <1>4, <1>5 DEF Apart
  <2>5. \A d \in Creators : maker'[d].at = "lookup" => maker[d].at = "lookup"
    BY Zenon
  <2>6. \A d \in Creators : maker'[d].at \in Looking => maker[d].at = maker'[d].at
    BY Zenon DEF Looking
  <2>7. \A j \in Ids : runs[j].pub => runs'[j].pub
    BY Zenon
  <2>8. \A d \in Creators : maker'[d].at = "replay" => runs'[maker'[d].seen.run].pub
    BY ZenonT(60), <1>5, <2>6, <2>7 DEF Apart, Looking
  <2>9. \A d \in Creators : maker'[d].at = "lookup" =>
          maker'[d].id # key.run /\ \A e \in Creators : maker'[d].id # maker'[e].seen.run
    <3>1. \A d \in Creators : maker[d].at = "lookup" =>
            maker[d].id # key.run /\ \A e \in Creators : maker[d].id # maker[e].seen.run
      BY Zenon DEF Apart
    <3> QED
      BY SMTT(60), ZenonT(60), <1>5, <2>5, <3>1
  <2>10. \A d \in Creators : maker'[d].at \in Looking => maker'[d].seen.run \in Ids
    BY Zenon, <1>5, <2>6 DEF Apart
  <2> QED
    BY Zenon, <2>3, <2>4, <2>8, <2>9, <2>10 DEF Apart
<1>10. Owned'
  <2>1. \A d \in Creators : maker'[d].at \in Past => d = c /\ maker'[d].at = "clean"
    BY Zenon, <1>3 DEF Past
  <2>2. \A j \in Ids : runs'[j].pub = runs[j].pub /\ runs'[j].add = runs[j].add
    BY Zenon
  <2>3. ~runs[i].add
    BY Zenon, <1>2 DEF Dead
  <2> QED
    BY ZenonT(180), <1>1, <1>5, <2>1, <2>2, <2>3 DEF Owned
<1>11. Buried'
  <2>1. \A j \in key.stale : Dead(j)'
    BY Zenon, <1>6, <1>7 DEF Buried
  <2>2. \A d \in Creators : \A j \in maker'[d].seen.stale : Dead(j)'
    BY Zenon, <1>5, <1>6, <1>7 DEF Buried
  <2>3. \A d \in Creators : maker'[d].at = "reclaim" => Dead(maker[d].seen.run)'
    <3>1. \A d \in Creators : maker'[d].at = "reclaim" =>
            maker'[d] = maker[d] /\ maker[d].seen.run \in Ids /\ Dead(maker[d].seen.run)
      BY ZenonT(60) DEF Apart, Buried, Looking
    <3> QED
      BY SMTT(60), ZenonT(60), <1>6, <3>1 DEF Dead
  <2>4. ASSUME NEW d \in Creators, maker'[d].at = "clean"
        PROVE  /\ \A j \in maker'[d].stale : Dead(j)'
               /\ \A j \in key.stale \ maker'[d].stale :
                    runs'[j].stage = "none" /\ (runs'[j].tree => runs'[j].lost)
    <3>1. d = c /\ maker'[c].stale = maker[c].stale \ {i}
          /\ runs'[i].stage = "none" /\ (runs'[i].tree => runs'[i].lost)
      BY ZenonT(60), <1>3, <2>4 DEF Past
    <3>2. \A j \in maker'[d].stale : Dead(j)'
      BY Zenon, <1>6, <1>7, <3>1 DEF Buried
    <3>3. ASSUME NEW j \in key.stale \ maker'[d].stale
          PROVE  runs'[j].stage = "none" /\ (runs'[j].tree => runs'[j].lost)
      <4>1. CASE j = i
        BY Zenon, <3>1, <4>1
      <4>2. CASE j # i
        BY ZenonT(180), <1>7, <3>1, <3>3, <4>2 DEF Buried
      <4> QED
        BY Zenon, <4>1, <4>2
    <3> QED
      BY Zenon, <3>2, <3>3
  <2>5. \A d \in Creators : maker'[d].at = "reclaim" => maker'[d].seen = maker[d].seen
    BY Zenon, <1>5
  <2> QED
    BY Zenon, <2>1, <2>2, <2>3, <2>4, <2>5 DEF Buried
<1>12. NothingForgotten'
  <2>1. \A j \in Ids : LeaseHeld(j) => LeaseHeld(j)'
    BY ZenonT(60), <1>4, <1>5 DEF LeaseHeld
  <2>2. (runs'[i].tree \/ runs'[i].stage # "none") /\ ~runs'[i].pub =>
          \/ LeaseHeld(i)' \/ runs'[i].lost
          \/ (i \in {key.run} \cup key.stale /\ runs'[i].stage # "none")
    BY Zenon, <1>2, <2>1 DEF NothingForgotten
  <2> QED
    BY ZenonT(60), <1>2, <2>1, <2>2 DEF NothingForgotten
<1>13. AnswerIsWhole'
  <2>1. \A j \in Ids : runs'[j].edges = runs[j].edges /\ runs'[j].pub = runs[j].pub
    BY Zenon
  <2> QED
    BY ZenonT(60), <1>5, <2>1 DEF AnswerIsWhole
<1> QED
  BY Zenon, <1>8, <1>9, <1>10, <1>11, <1>12, <1>13

LEMMA CleanOneStep == ASSUME Keyed, NEW c \in Creators, CleanOne(c) PROVE Keyed'
<1> DEFINE m == maker[c]
<1>1. Typed /\ m \in MakerRecord /\ m.at = "clean" /\ UNCHANGED <<key, child>>
  BY Zenon DEF Keyed, Typed, CleanOne
<1>2. PICK i \in m.stale :
        \/ /\ runs' = [runs EXCEPT ![i] = NoStaging(rollback_reclaimed_materialization(@))]
           /\ Set(c, [m EXCEPT !.stale = @ \ {i}])
        \/ /\ runs' = [runs EXCEPT ![i] = NoStaging(Leftover(@))]
           /\ Set(c, [m EXCEPT !.stale = @ \ {i}])
        \/ /\ runs' = [runs EXCEPT ![i] = rollback_reclaimed_materialization(@)]
           /\ At(c, "refuse")
  BY Zenon DEF CleanOne
<1> DEFINE r == runs[i]
<1>3. i \in Ids /\ r \in RunRecord /\ Dead(i) /\ m.stale \ {i} \in SUBSET Ids
  BY Zenon, <1>1 DEF Typed, MakerRecord, Keyed, Buried
<1>4. r.stage = "none" => (r.tree => r.lost)
  <2>1. ~LeaseHeld(i) /\ ~r.pub
    BY Zenon, <1>3 DEF Dead, LeaseHeld
  <2> QED
    BY Zenon, <1>3, <2>1 DEF Keyed, NothingForgotten
<1>5. \E x \in RunRecord :
        /\ runs' = [runs EXCEPT ![i] = x]
        /\ x.pub = r.pub /\ x.add = r.add /\ x.edges = r.edges
        /\ \/ /\ Set(c, [m EXCEPT !.stale = m.stale \ {i}])
              /\ x.stage = "none" /\ (x.tree => x.lost)
           \/ /\ At(c, "refuse")
              /\ x.stage = r.stage /\ x.lost = r.lost /\ (x.tree => r.tree)
  <2> DEFINE b == rollback_reclaimed_materialization(r)
  <2>0. TRUE \in BOOLEAN
    BY Zenon
  <2>1. /\ b \in RunRecord /\ b.pub = r.pub /\ b.add = r.add /\ b.edges = r.edges
        /\ b.stage = r.stage /\ b.lost = r.lost /\ (b.tree => r.tree) /\ (b.tree => b.lost)
    <3>1. CASE r.stage = "none"
      BY Zenon, <1>3, <1>4, <3>1 DEF rollback_reclaimed_materialization
    <3>2. CASE r.stage # "none"
      <4>1. b = NoResources(r) /\ b \in RunRecord
        BY Zenon, <1>3, <2>0, <3>2, KeyFacts, RunEdits DEF rollback_reclaimed_materialization
      <4> QED
        BY Zenon, <1>3, <4>1 DEF NoResources, RunRecord
    <3> QED
      BY Zenon, <3>1, <3>2
  <2> HIDE DEF b
  <2>2. /\ NoStaging(b) \in RunRecord /\ NoStaging(b).pub = b.pub /\ NoStaging(b).add = b.add
        /\ NoStaging(b).edges = b.edges /\ NoStaging(b).stage = "none"
        /\ NoStaging(b).tree = b.tree /\ NoStaging(b).lost = b.lost
    <3>1. NoStaging(b) \in RunRecord
      BY Zenon, <2>0, <2>1, KeyFacts, RunEdits
    <3> QED
      BY Zenon, <2>1, <3>1 DEF NoStaging, RunRecord
  <2> DEFINE l == Leftover(r)
  <2>3. /\ l \in RunRecord /\ l.pub = r.pub /\ l.add = r.add /\ l.edges = r.edges
        /\ (l.tree => l.lost)
    <3>1. l \in RunRecord
      BY Zenon, <1>3, <2>0, KeyFacts, RunEdits
    <3> QED
      BY Zenon, <1>3, <3>1 DEF Leftover, RunRecord
  <2> HIDE DEF l
  <2>4. /\ NoStaging(l) \in RunRecord /\ NoStaging(l).pub = l.pub /\ NoStaging(l).add = l.add
        /\ NoStaging(l).edges = l.edges /\ NoStaging(l).stage = "none"
        /\ NoStaging(l).tree = l.tree /\ NoStaging(l).lost = l.lost
    <3>1. NoStaging(l) \in RunRecord
      BY Zenon, <2>0, <2>3, KeyFacts, RunEdits
    <3> QED
      BY Zenon, <2>3, <3>1 DEF NoStaging, RunRecord
  <2>5. \/ runs' = [runs EXCEPT ![i] = NoStaging(b)] /\ Set(c, [m EXCEPT !.stale = m.stale \ {i}])
        \/ runs' = [runs EXCEPT ![i] = NoStaging(l)] /\ Set(c, [m EXCEPT !.stale = m.stale \ {i}])
        \/ runs' = [runs EXCEPT ![i] = b] /\ At(c, "refuse")
    BY Zenon, <1>1, <1>2, <1>3 DEF Typed, MakerRecord, b, l
  <2> HIDE DEF m, r
  <2>6. CASE runs' = [runs EXCEPT ![i] = NoStaging(b)] /\ Set(c, [m EXCEPT !.stale = m.stale \ {i}])
    BY Zenon, <2>1, <2>2, <2>6
  <2>7. CASE runs' = [runs EXCEPT ![i] = NoStaging(l)] /\ Set(c, [m EXCEPT !.stale = m.stale \ {i}])
    BY Zenon, <2>3, <2>4, <2>7
  <2>8. CASE runs' = [runs EXCEPT ![i] = b] /\ At(c, "refuse")
    BY Zenon, <2>1, <2>8
  <2> QED
    BY Zenon, <2>5, <2>6, <2>7, <2>8
<1>6. PICK x \in RunRecord :
        /\ runs' = [runs EXCEPT ![i] = x]
        /\ x.pub = r.pub /\ x.add = r.add /\ x.edges = r.edges
        /\ \/ /\ Set(c, [m EXCEPT !.stale = m.stale \ {i}])
              /\ x.stage = "none" /\ (x.tree => x.lost)
           \/ /\ At(c, "refuse")
              /\ x.stage = r.stage /\ x.lost = r.lost /\ (x.tree => r.tree)
  BY Zenon, <1>5
<1>7. /\ runs' \in [Ids -> RunRecord] /\ runs'[i] = x
      /\ \A j \in Ids \ {i} : runs'[j] = runs[j]
  BY Zenon, <1>1, <1>3, <1>6, RunEffect
<1>8. CASE Set(c, [m EXCEPT !.stale = m.stale \ {i}]) /\ x.stage = "none" /\ (x.tree => x.lost)
  <2> DEFINE q == [m EXCEPT !.stale = m.stale \ {i}]
  <2>1. q \in MakerRecord
    <3>1. m.at \in Steps /\ m.seen \in KeyRecord
      BY Zenon, <1>1 DEF MakerRecord
    <3> QED
      BY Zenon, <1>1, <1>3, <3>1, KeyFacts, MakerEdits
  <2>2. /\ q.at = "clean" /\ q.stale = m.stale \ {i} /\ q.id = m.id /\ q.out = m.out
        /\ q.seen = m.seen
    BY Zenon, <1>1 DEF MakerRecord
  <2>3. /\ maker' \in [Creators -> MakerRecord] /\ maker'[c] = q
        /\ \A d \in Creators \ {c} : maker'[d] = maker[d]
    BY Zenon, <1>1, <1>8, <2>1, SetEffect
  <2> HIDE DEF q
  <2> QED
    BY ZenonT(60), <1>1, <1>6, <1>7, <1>8, <2>2, <2>3, Bury
<1>9. CASE At(c, "refuse") /\ x.stage = r.stage /\ x.lost = r.lost /\ (x.tree => r.tree)
  <2> DEFINE q == [m EXCEPT !.at = "refuse"]
  <2>1. q \in MakerRecord
    <3>1. "refuse" \in Steps /\ m.seen \in KeyRecord /\ m.rounds \in 0..MaxRounds
      BY Zenon, <1>1 DEF MakerRecord, Steps
    <3> QED
      BY Zenon, <1>1, <3>1, MakerFields
  <2>2. q.at = "refuse" /\ q.id = m.id /\ q.out = m.out /\ q.seen = m.seen
    BY Zenon, <1>1 DEF MakerRecord
  <2>3. /\ maker' \in [Creators -> MakerRecord] /\ maker'[c] = q
        /\ \A d \in Creators \ {c} : maker'[d] = maker[d]
    BY Zenon, <1>1, <1>9, <2>1, SetEffect DEF At
  <2> HIDE DEF q
  <2> QED
    BY ZenonT(60), <1>1, <1>6, <1>7, <1>9, <2>2, <2>3, Bury
<1> QED
  BY Zenon, <1>6, <1>8, <1>9

(* finish_stale_cleanup strikes obligations of which nothing is left. *)
LEMMA Cleaned ==
  ASSUME Keyed, NEW c \in Creators, CleanedAll(c), key.run = maker[c].id,
         key' = [key EXCEPT !.stale = {}],
         Set(c, [maker[c] EXCEPT !.at = "stage", !.keep = FALSE])
  PROVE  Keyed'
<1> USE DEF Keyed
<1> DEFINE own == maker[c].id
           q == [maker[c] EXCEPT !.at = "stage", !.keep = FALSE]
<1>1. /\ maker[c].at = "clean" /\ maker[c].stale = {} /\ UNCHANGED <<runs, child>>
      /\ Working(c) /\ own \in Ids /\ Fits("clean", runs[own]) /\ maker[c] \in MakerRecord
      /\ key \in KeyRecord
  BY Zenon DEF CleanedAll, Working, Apart, Typed
<1>2. /\ maker' \in [Creators -> MakerRecord] /\ maker'[c] = q
      /\ \A d \in Creators \ {c} : maker'[d] = maker[d]
  <2>1. maker[c].seen \in KeyRecord /\ maker[c].rounds \in 0..MaxRounds /\ "stage" \in Steps
        /\ {} \in SUBSET Ids
    BY Zenon, <1>1 DEF MakerRecord, Steps
  <2>2. q \in MakerRecord
    BY Zenon, <1>1, <2>1, KeyFacts, MakerEdits
  <2> QED
    BY Zenon, <2>2, SetEffect
<1>3. /\ maker'[c].at = "stage" /\ maker'[c].id = own /\ maker'[c].out = maker[c].out
      /\ maker'[c].seen = maker[c].seen
  BY Zenon, <1>1, <1>2 DEF MakerRecord
<1>4. key' \in KeyRecord /\ key'.run = own /\ key'.stale = {} /\ key'.by = key.by
  BY Zenon, <1>1, KeyFacts DEF KeyRecord
<1> HIDE DEF q
<1>5. \A d \in Creators : maker[d].at \in Past => d = c
  BY ZenonT(60), <1>1 DEF Owned, Apart, Past, Working
<1>6. \A d \in Creators : Working(d)' <=> Working(d)
  BY Zenon, <1>1, <1>2, <1>3 DEF Working
<1>7. \A d \in Creators : /\ maker'[d].id = maker[d].id /\ maker'[d].out = maker[d].out
                          /\ maker'[d].seen = maker[d].seen
  BY Zenon, <1>2, <1>3
<1>8. \A j \in Ids : Dead(j) => Dead(j)'
  BY Zenon, <1>1, <1>6, <1>7 DEF Dead
<1>9. /\ key.stale \in SUBSET Ids
      /\ \A d \in Creators : maker[d].seen.stale \in SUBSET Ids
  BY Zenon DEF Typed, KeyRecord, MakerRecord
<1>10. Typed'
  BY Zenon, <1>1, <1>2, <1>4 DEF Typed
<1>11. \A d \in Creators : maker'[d].at # maker[d].at => d = c /\ maker'[d].at = "stage"
  BY Zenon, <1>2, <1>3
<1>12. Apart'
  <2>1. Fits("stage", runs[own])
    BY Zenon, <1>1 DEF Fits, Early
  <2>2. ASSUME NEW d \in Creators, Working(d)'
        PROVE  /\ maker'[d].id \in Ids /\ maker'[d].out = "none"
               /\ Fits(maker'[d].at, runs'[maker'[d].id])
    <3>1. Working(d) /\ maker[d].id \in Ids /\ maker[d].out = "none"
          /\ Fits(maker[d].at, runs[maker[d].id])
      BY Zenon, <1>6, <2>2 DEF Apart
    <3>2. CASE d = c
      BY Zenon, <1>1, <1>3, <2>1, <3>1, <3>2
    <3>3. CASE d # c
      BY Zenon, <1>1, <1>2, <3>1, <3>3
    <3> QED
      BY Zenon, <3>2, <3>3
  <2>3. \A d, e \in Creators :
          Working(d)' /\ Working(e)' /\ maker'[d].id = maker'[e].id => d = e
    BY Zenon, <1>6, <1>7 DEF Apart
  <2>4. \A d \in Creators : /\ maker'[d].at = "lookup" => maker[d].at = "lookup"
                            /\ maker'[d].at \in Looking => maker[d].at = maker'[d].at
    BY Zenon, <1>11 DEF Looking
  <2> QED
    BY SMTT(60), ZenonT(60), <1>1, <1>4, <1>7, <2>2, <2>3, <2>4 DEF Apart, Looking
<1>13. Owned'
  <2>1. \A d \in Creators : maker'[d].at \in Past => d = c
    BY Zenon, <1>5, <1>11
  <2> QED
    BY Zenon, <1>1, <1>3, <1>4, <2>1 DEF Owned
<1>14. Buried'
  <2>1. \A d \in Creators : \A j \in maker'[d].seen.stale : Dead(j)'
    BY Zenon, <1>7, <1>8, <1>9 DEF Buried
  <2>2. \A d \in Creators : maker'[d].at = "reclaim" => Dead(maker[d].seen.run)'
    <3>1. \A d \in Creators : maker'[d].at = "reclaim" =>
            /\ maker'[d].seen.run = maker[d].seen.run
            /\ maker[d].seen.run \in Ids /\ Dead(maker[d].seen.run)
      BY Zenon, <1>7, <1>11 DEF Apart, Buried, Looking
    <3> QED
      BY ZenonT(60), <1>8, <3>1 DEF Dead
  <2>3. \A d \in Creators : maker'[d].at # "clean"
    BY Zenon, <1>3, <1>5, <1>11 DEF Past
  <2> QED
    BY Zenon, <1>4, <1>7, <2>1, <2>2, <2>3 DEF Buried
<1>15. NothingForgotten'
  <2>1. \A j \in Ids : LeaseHeld(j) => LeaseHeld(j)'
    BY Zenon, <1>1, <1>6, <1>7, <1>11 DEF LeaseHeld
  <2>2. \A j \in key.stale : runs[j].stage = "none" /\ (runs[j].tree => runs[j].lost)
    BY Zenon, <1>1 DEF Buried
  <2> QED
    BY Zenon, <1>1, <1>4, <1>9, <2>1, <2>2 DEF NothingForgotten
<1>16. AnswerIsWhole'
  BY Zenon, <1>1, <1>7 DEF AnswerIsWhole
<1> QED
  BY Zenon, <1>10, <1>12, <1>13, <1>14, <1>15, <1>16

(* Every step keeps the key, the runs and the creators in agreement. *)
LEMMA KeyedStep == Keyed /\ [CreateNext]_create_vars => Keyed'
<1> SUFFICES ASSUME Keyed, [CreateNext]_create_vars PROVE Keyed'
  BY Zenon
<1>1. ASSUME NEW c \in Creators, CreatorStep(c) PROVE Keyed'
  <2>1. CASE Lookup(c)
    BY Zenon, <2>1, LookingStep, LeavingStep
  <2>2. CASE reserve(c)
    BY Zenon, <2>2, LookingStep, TakeStep
  <2>3. CASE reclaim(c)
    BY Zenon, <2>3, LookingStep, TakeStep
  <2>4. CASE CleanedAll(c)
    <3>1. maker[c].at = "clean" /\ maker[c].id \in Ids /\ key.run = maker[c].id /\ 0 \notin Ids
      BY Zenon, <2>4, CreateAssumption DEF CleanedAll, Keyed, Apart, Owned, Past, Working
    <3>2. key # NoKey
      BY SMTT(60), <3>1 DEF NoKey
    <3>3. \/ /\ key' = [key EXCEPT !.stale = {}]
             /\ Set(c, [maker[c] EXCEPT !.at = "stage", !.keep = FALSE])
          \/ At(c, "refuse") /\ UNCHANGED key
      BY Zenon, <2>4, <3>2 DEF CleanedAll
    <3> QED
      BY Zenon, <2>4, <3>1, <3>3, Cleaned, LookingStep
  <2>5. CASE Replay(c)
    <3>1. \/ /\ runs' = [runs EXCEPT ![maker[c].seen.run] = append_child_spawned_if_missing(@)]
             /\ Answer(c, "replayed")
          \/ At(c, "refuse") /\ UNCHANGED runs
      BY Zenon, <2>5 DEF Replay
    <3> QED
      BY Zenon, <2>5, <3>1, LookingStep, LeavingStep
  <2>6. CASE Look(c) \/ Wait(c)
    BY Zenon, <2>6, LookingStep
  <2>7. CASE Refused(c) \/ Drop(c) \/ Tell(c)
    BY Zenon, <2>7, LeavingStep
  <2> QED
    BY Zenon, <1>1, <2>1, <2>2, <2>3, <2>4, <2>5, <2>6, <2>7, StartStep, CleanOneStep, LabourStep
       DEF CreatorStep
<1>2. ASSUME NEW c \in Creators, Killed(c) PROVE Keyed'
  BY Zenon, <1>2, LeavingStep
<1>3. ASSUME NEW i \in Ids, AddStep(i) \/ PaneStep(i) PROVE Keyed'
  BY Zenon, <1>3, MakingStep
<1>4. CASE UNCHANGED create_vars
  <2>1. UNCHANGED <<key, runs, maker, child>>
    BY Zenon, <1>4 DEF create_vars
  <2>2. Typed' /\ Owned'
    BY Zenon, <2>1 DEF Keyed, Typed, Owned
  <2>3. Apart'
    BY Zenon, <2>1 DEF Keyed, Apart, Working
  <2>4. Buried'
    BY Zenon, <2>1 DEF Keyed, Buried, Dead, Working
  <2>5. NothingForgotten'
    BY Zenon, <2>1 DEF Keyed, NothingForgotten, Working, LeaseHeld
  <2>6. AnswerIsWhole'
    BY Zenon, <2>1 DEF Keyed, AnswerIsWhole
  <2> QED
    BY Zenon, <2>2, <2>3, <2>4, <2>5, <2>6 DEF Keyed
<1> QED
  BY Zenon, <1>1, <1>2, <1>3, <1>4 DEF CreateNext, Done

(* The agreement of key, runs and creators is what a creation promises. *)
LEMMA KeyedSafe == Keyed => CreatesOnce
<1> SUFFICES ASSUME Keyed PROVE CreatesOnce
  BY Zenon
<1>1. CreateTypeOK
  BY Zenon DEF Keyed, Typed, CreateTypeOK, RunRecord, MakerRecord
<1>2. OneRunPerKey
  <2> DEFINE P == {i \in Ids : runs[i].pub}
  <2>1. P \subseteq {key.run}
    BY Zenon DEF Keyed, Owned
  <2>2. IsFiniteSet({key.run}) /\ Cardinality({key.run}) = 1
    BY Zenon, FS_Singleton
  <2>3. Cardinality(P) <= Cardinality({key.run})
    BY Zenon, <2>1, <2>2, FS_Subset
  <2> QED
    BY Zenon, <2>2, <2>3 DEF OneRunPerKey
<1> QED
  BY Zenon, <1>1, <1>2 DEF CreatesOnce, Keyed

(* However many clients create with one key, get killed and reclaim each   *)
(* other's reservations (ReservationGuard and materialize in               *)
(* run/create.rs), the key leads to at most one published run, an answer   *)
(* of success stands with its parent's edge, and nothing is forgotten.     *)
THEOREM CreationSafe == CreateSpec => []CreatesOnce
BY KeyedInit, KeyedStep, KeyedSafe, PTL DEF CreateSpec

(* A write to one run takes nothing away, or takes it from a run that is   *)
(* dead or whose own creator is undoing it.                                *)
LEMMA Taking ==
  ASSUME Typed, NEW i \in Ids, NEW x, runs' = [runs EXCEPT ![i] = x],
         \/ /\ runs[i].tree => x.tree
            /\ runs[i].stage # "none" /\ x.stage = "none" => x.pub
         \/ /\ ~runs[i].pub /\ ~runs[i].add
            /\ \A c \in Creators :
                 Working(c) /\ maker[c].id = i => maker[c].at \in {"undo", "unstage"}
  PROVE  TakesOnlyDead
<1>1. runs'[i] = x /\ \A j \in Ids \ {i} : runs'[j] = runs[j]
  BY Zenon DEF Typed
<1> QED
  BY Zenon, <1>1 DEF TakesOnlyDead

LEMMA TakesStep == Keyed /\ [CreateNext]_create_vars => TakesOnlyDead
<1> SUFFICES ASSUME Keyed, [CreateNext]_create_vars PROVE TakesOnlyDead
  BY Zenon
<1>1. Typed /\ \A i \in Ids : runs[i] \in RunRecord
  BY Zenon DEF Keyed, Typed
<1>2. CASE UNCHANGED runs
  BY Zenon, <1>2 DEF TakesOnlyDead
<1>3. ASSUME NEW i \in Ids, NEW x, runs' = [runs EXCEPT ![i] = x],
             x.tree = runs[i].tree \/ x.tree, x.stage = runs[i].stage \/ x.stage # "none" \/ x.pub
      PROVE  TakesOnlyDead
  BY Zenon, <1>1, <1>3, Taking
<1>4. ASSUME NEW c \in Creators, CreatorStep(c) PROVE TakesOnlyDead
  <2> DEFINE own == maker[c].id
  <2>1. CASE Undo(c) \/ Unstage(c)
    <3>1. maker[c].at \in {"undo", "unstage"} /\ Working(c)
      BY Zenon, <2>1 DEF Undo, Unstage, Working
    <3>2. own \in Ids /\ ~runs[own].pub /\ ~runs[own].add
      BY Zenon, <3>1 DEF Keyed, Apart, Fits
    <3>3. \A d \in Creators : Working(d) /\ maker[d].id = own => d = c
      BY Zenon, <3>1 DEF Keyed, Apart
    <3>4. \E x : runs' = [runs EXCEPT ![own] = x]
      BY Zenon, <2>1 DEF Undo, Unstage, Make
    <3> QED
      BY Zenon, <1>1, <3>1, <3>2, <3>3, <3>4, Taking
  <2>2. CASE CleanOne(c)
    <3>1. PICK i \in maker[c].stale : \E x : runs' = [runs EXCEPT ![i] = x]
      BY Zenon, <2>2 DEF CleanOne
    <3>2. i \in Ids /\ Dead(i)
      BY Zenon, <2>2 DEF CleanOne, Keyed, Typed, MakerRecord, Buried
    <3>3. /\ ~runs[i].pub /\ ~runs[i].add
          /\ \A d \in Creators : ~(Working(d) /\ maker[d].id = i)
      BY Zenon, <3>2 DEF Dead
    <3> QED
      BY Zenon, <1>1, <3>1, <3>2, <3>3, Taking
  <2>3. ASSUME Working(c) PROVE own \in Ids
    BY Zenon, <2>3 DEF Keyed, Apart
  <2>4. CASE Stage(c) \/ write_agent_launcher_with(c) \/ Launch(c) \/ NodeCreated(c)
             \/ publish_staging_run(c) \/ Tell(c)
    <3>1. own \in Ids
      BY Zenon, <2>3, <2>4 DEF Working, Stage, write_agent_launcher_with, Launch, NodeCreated,
                        publish_staging_run, Tell
    <3> DEFINE r == runs[own]
               e == append_child_spawned_if_missing(r)
    <3>2. r \in RunRecord
      BY Zenon, <1>1, <3>1
    <3>3. /\ [r EXCEPT !.stage = "run"].tree = r.tree /\ [r EXCEPT !.stage = "run"].stage = "run"
          /\ [r EXCEPT !.shake = FALSE].tree = r.tree /\ [r EXCEPT !.shake = FALSE].stage = r.stage
          /\ [r EXCEPT !.add = TRUE].tree = r.tree /\ [r EXCEPT !.add = TRUE].stage = r.stage
          /\ [r EXCEPT !.stage = "node"].tree = r.tree /\ [r EXCEPT !.stage = "node"].stage = "node"
          /\ [r EXCEPT !.stage = "none", !.shake = FALSE, !.pub = TRUE].tree = r.tree
          /\ [r EXCEPT !.stage = "none", !.shake = FALSE, !.pub = TRUE].pub
      BY Zenon, <3>2 DEF RunRecord
    <3>4. /\ spawn_supervisor_or_fail(e).tree = r.tree
          /\ spawn_supervisor_or_fail(e).stage = r.stage
      BY Zenon, <3>2 DEF spawn_supervisor_or_fail, append_child_spawned_if_missing, RunRecord
    <3>5. \/ UNCHANGED runs
          \/ Make(c, [r EXCEPT !.stage = "run"]) \/ Make(c, [r EXCEPT !.shake = FALSE])
          \/ Make(c, [r EXCEPT !.add = TRUE]) \/ Make(c, [r EXCEPT !.stage = "node"])
          \/ Make(c, [r EXCEPT !.stage = "none", !.shake = FALSE, !.pub = TRUE])
          \/ Make(c, spawn_supervisor_or_fail(e))
      BY Zenon, <2>4 DEF Stage, write_agent_launcher_with, Launch, NodeCreated, publish_staging_run,
                  Tell, Mine
    <3> HIDE DEF r, e
    <3>6. ASSUME NEW x, Make(c, x), x.tree = r.tree,
                 x.stage = r.stage \/ x.stage # "none" \/ x.pub
          PROVE  TakesOnlyDead
      BY Zenon, <1>3, <3>1, <3>6 DEF Make, r
    <3> QED
      BY Zenon, <1>2, <3>3, <3>4, <3>5, <3>6
  <2>5. CASE Replay(c)
    <3>1. maker[c].seen.run \in Ids /\ runs[maker[c].seen.run] \in RunRecord
      BY Zenon, <1>1, <2>5 DEF Replay, Keyed, Apart, Looking
    <3> DEFINE e == append_child_spawned_if_missing(runs[maker[c].seen.run])
    <3>2. e.tree = runs[maker[c].seen.run].tree /\ e.stage = runs[maker[c].seen.run].stage
      BY Zenon, <3>1 DEF append_child_spawned_if_missing, RunRecord
    <3>3. UNCHANGED runs \/ runs' = [runs EXCEPT ![maker[c].seen.run] = e]
      BY Zenon, <1>1, <2>5, <3>1 DEF Replay, Typed
    <3> HIDE DEF e
    <3> QED
      BY Zenon, <1>2, <1>3, <3>1, <3>2, <3>3
  <2> QED
    BY Zenon, <1>2, <1>4, <2>1, <2>2, <2>4, <2>5
       DEF CreatorStep, Start, Lookup, reserve, Look, Refused, Wait, reclaim, CleanedAll, Drop,
           validate_request, Launched
<1>5. ASSUME NEW i \in Ids, AddStep(i) \/ PaneStep(i) PROVE TakesOnlyDead
  <2> DEFINE r == runs[i]
  <2>1. r \in RunRecord
    BY Zenon, <1>1
  <2>2. /\ [r EXCEPT !.tree = TRUE].tree /\ [r EXCEPT !.tree = TRUE].stage = r.stage
        /\ [r EXCEPT !.add = FALSE].tree = r.tree /\ [r EXCEPT !.add = FALSE].stage = r.stage
        /\ \A p : [r EXCEPT !.pane = p].tree = r.tree /\ [r EXCEPT !.pane = p].stage = r.stage
        /\ [r EXCEPT !.shake = ~r.pub, !.pane = "held"].tree = r.tree
        /\ [r EXCEPT !.shake = ~r.pub, !.pane = "held"].stage = r.stage
    BY Zenon, <2>1 DEF RunRecord
  <2>3. \/ runs' = [runs EXCEPT ![i] = [r EXCEPT !.tree = TRUE]]
        \/ runs' = [runs EXCEPT ![i] = [r EXCEPT !.add = FALSE]]
        \/ \E p : runs' = [runs EXCEPT ![i] = [r EXCEPT !.pane = p]]
        \/ runs' = [runs EXCEPT ![i] = [r EXCEPT !.shake = ~r.pub, !.pane = "held"]]
    BY Zenon, <1>5 DEF AddStep, PaneStep, AddTree, AddPane, AddEnds, Handshake, await_published_node
  <2>4. ASSUME NEW x, runs' = [runs EXCEPT ![i] = x], x.tree = r.tree \/ x.tree, x.stage = r.stage
        PROVE  TakesOnlyDead
    BY Zenon, <1>3, <2>4
  <2> HIDE DEF r
  <2> QED
    BY Zenon, <2>2, <2>3, <2>4
<1>6. ASSUME NEW c \in Creators, Killed(c) PROVE UNCHANGED runs
  BY Zenon, <1>6 DEF Killed
<1> QED
  BY Zenon, <1>2, <1>4, <1>5, <1>6 DEF CreateNext, Done, create_vars

(* The key moves only in the hands of the creator it names, or from a run  *)
(* that is dead.                                                           *)
LEMMA KeyMoves ==
  Keyed /\ [CreateNext]_create_vars => ReleasesOwnKey /\ KeyStaysWithRun
<1> SUFFICES ASSUME Keyed, [CreateNext]_create_vars PROVE ReleasesOwnKey /\ KeyStaysWithRun
  BY Zenon
<1>1. NoKey.run = 0 /\ NoKey.by = "none" /\ 0 \notin Ids
  BY Zenon, CreateAssumption DEF NoKey
<1>2. CASE UNCHANGED key
  BY Zenon, <1>2 DEF ReleasesOwnKey, KeyStaysWithRun
<1>3. ASSUME NEW c \in Creators, reserve(c) \/ reclaim(c), key' # key
      PROVE  ReleasesOwnKey /\ KeyStaysWithRun
  <2>1. key'.by = "lease"
    BY SMTT(60), <1>3 DEF reserve, reclaim, replacement, Reservation
  <2>2. key = NoKey \/ Dead(key.run)
    BY Zenon, <1>3 DEF reserve, reclaim, Keyed, Buried
  <2> QED
    BY Zenon, <1>1, <2>1, <2>2 DEF ReleasesOwnKey, KeyStaysWithRun, Dead
<1>4. ASSUME NEW c \in Creators, CleanedAll(c) \/ Drop(c), key' # key
      PROVE  ReleasesOwnKey /\ KeyStaysWithRun
  <2>1. Working(c) /\ maker[c].at \in {"clean", "drop"}
    BY Zenon, <1>4 DEF CleanedAll, Drop, Working
  <2>2. key.run = maker[c].id /\ ~runs[maker[c].id].pub
    BY Zenon, <2>1 DEF Keyed, Owned, Past, Apart, Fits, Early
  <2> QED
    BY Zenon, <2>1, <2>2 DEF ReleasesOwnKey, KeyStaysWithRun
<1> QED
  BY ZenonT(60), <1>2, <1>3, <1>4
     DEF CreateNext, CreatorStep, Start, Lookup, Look, Refused, Wait, CleanOne, Undo, Unstage,
         Stage, write_agent_launcher_with, validate_request, Launch, Launched, NodeCreated,
         publish_staging_run, Tell, Replay, Killed, AddStep, PaneStep, AddTree, AddPane, AddEnds,
         Handshake, await_published_node, Done, create_vars

(* A creator takes a checkout or staging directory only from its own run   *)
(* or from one whose creator and everything it started are gone, releases  *)
(* no key but its own (ReservationGuard::drop), and never moves a key that *)
(* leads to a published run (idempotency.rs: reclaim_in).                  *)
THEOREM CreatorsRespect == CreateSpec => RespectsOthers
<1> DEFINE Step == TakesOnlyDead /\ ReleasesOwnKey /\ KeyStaysWithRun
<1>1. Keyed /\ [CreateNext]_create_vars => Step
  BY Zenon, TakesStep, KeyMoves
<1> HIDE DEF Step
<1>2. CreateSpec => [][Step]_create_vars
  BY <1>1, KeyedInit, KeyedStep, PTL DEF CreateSpec
<1> QED
  BY Zenon, <1>2 DEF Step, RespectsOthers

=============================================================================
