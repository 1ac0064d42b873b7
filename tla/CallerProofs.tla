----------------------------- MODULE CallerProofs -----------------------------
(***************************************************************************)
(* The admission gate keeps run creation and `run upgrade-lock` apart, for *)
(* every set of creations and every scenario of kills and failures.        *)
(*                                                                         *)
(* The flock alone does not carry this: the activation program outlives a  *)
(* killed CLI, and a failed one leaves a half-replaced installation behind *)
(* an open gate.  The invariant Gated adds the marker (an installation is  *)
(* torn only behind our own marker), the hand-over of the flock to the     *)
(* activation program, and what the two probes of a creation establish.    *)
(*                                                                         *)
(* Caller-owned creations under one key build one run between them, for    *)
(* every set of callers and requests and every scenario of kills, failures *)
(* and settlements.                                                        *)
(*                                                                         *)
(* That only one call builds at a time follows from the lease, which a     *)
(* `git worktree add` inherits; but whether `creation_uncertain` was       *)
(* called for depends on what earlier, dead calls left behind.  The        *)
(* invariant Sound therefore keeps, for every half-built state, either the *)
(* call that is still working on it or the mishap that left it (Blamed).   *)
(***************************************************************************)
EXTENDS Admission, CallerCreate, FiniteSetTheorems, TLAPS

BirthSet == [at : {"none", "staged", "pub", "aside", "gone"},
             admitted : BOOLEAN, pane : {"none", "boot", "live"},
             shake : BOOLEAN, cut : BOOLEAN]

UpgradeSet == [at : {"idle", "check", "survey", "mark", "move", "probe", "watch", "clear"},
               recover : BOOLEAN, abandon : BOOLEAN, allow : BOOLEAN, schema : {1, 2},
               aside : SUBSET Creations, moving : Creations \cup {Old},
               told : {"none", "inhibited", "refused", "creation_live", "failed", "done"}]

\* The variables have their types.
GateTyped ==
  /\ births \in [Creations -> BirthSet]
  /\ elder \in [live : BOOLEAN, schema : {1, 2}]
  /\ upgrade \in UpgradeSet
  /\ activation \in {"none", "running", "done", "failed"}
  /\ inhibited \in {"none", "ours", "odd"}
  /\ install \in {"old", "torn", "new"}

\* The flock: shared and exclusive holders exclude each other, and so do an
\* upgrade before its activation and the activation of an earlier one.
Exclusive ==
  /\ ExclusiveHeld => ~SharedHeld
  /\ activation # "none" => upgrade.at \in {"idle", "watch"}
  /\ upgrade.at = "idle" => upgrade.aside = {}
  /\ upgrade.at # "idle" => upgrade.told = "none"

\* The marker: ours from before the first move until the activation is known
\* to have succeeded; a torn installation is always behind it.
Marked ==
  /\ upgrade.at \in {"move", "probe", "watch", "clear"} => inhibited = "ours"
  /\ activation = "running" \/ install = "torn" => inhibited = "ours"
  /\ activation = "done" \/ upgrade.at = "clear" => install = "new"
  /\ SharedHeld => install # "torn"

\* The survey: what is to be moved is staged, an accepted live run has the
\* schema of the binary, a live worker shook hands, and what was moved and
\* probed again has none.
Surveyed ==
  /\ \A i \in upgrade.aside : births[i].at = "staged"
  /\ \/ upgrade.at \in {"mark", "move", "probe", "watch"}
     \/ activation = "running"
     => (elder.live => elder.schema = 1)
  /\ \A i \in Creations : births[i].pane = "live" => births[i].shake
  /\ \A i \in Creations :
       births[i].at = "aside" /\ ~(upgrade.at = "probe" /\ upgrade.moving = i)
         /\ ~births[i].cut => births[i].pane # "live"

Gated == GateTyped /\ Exclusive /\ Marked /\ Surveyed

(* A fresh state satisfies the invariant. *)
LEMMA GatedInit == AdmInit => Gated
BY SMTT(60), AdmissionAssumption
   DEF AdmInit, Gated, GateTyped, Exclusive, Marked, Surveyed, BirthSet, UpgradeSet, Unborn,
       NoUpgrade, ExclusiveHeld, SharedHeld

(* The invariant gives every safety claim about a state. *)
LEMMA GatedSafe ==
  Gated => AdmTypeOK /\ ActivationAlone /\ AdmittedOnWhole /\ AbandonedIsDead /\ LiveRunsFit
<1> SUFFICES ASSUME Gated
             PROVE  AdmTypeOK /\ ActivationAlone /\ AdmittedOnWhole /\ AbandonedIsDead
                      /\ LiveRunsFit
  BY Zenon
<1>1. AdmTypeOK
  BY Zenon DEF Gated, GateTyped, Surveyed, AdmTypeOK, BirthSet, UpgradeSet
<1>2. ActivationAlone
  BY Zenon DEF Gated, Exclusive, ActivationAlone, ExclusiveHeld
<1>3. AdmittedOnWhole
  BY Zenon DEF Gated, Marked, AdmittedOnWhole
<1>4. AbandonedIsDead
  BY Zenon DEF Gated, Surveyed, AbandonedIsDead
<1>5. LiveRunsFit
  BY Zenon, AdmissionAssumption DEF Gated, Surveyed, LiveRunsFit, survey_runs, SchemaOf
<1> QED
  BY Zenon, <1>1, <1>2, <1>3, <1>4, <1>5

(* What the steps make of a creation's record is such a record. *)
LEMMA BirthEdits ==
  ASSUME NEW b \in BirthSet
  PROVE  /\ [b EXCEPT !.admitted = TRUE] \in BirthSet
         /\ [b EXCEPT !.admitted = FALSE] \in BirthSet
         /\ [b EXCEPT !.at = "staged", !.pane = "boot"] \in BirthSet
         /\ [b EXCEPT !.pane = "live", !.shake = TRUE] \in BirthSet
         /\ [b EXCEPT !.pane = "none"] \in BirthSet
         /\ [b EXCEPT !.at = "pub", !.admitted = FALSE] \in BirthSet
         /\ [b EXCEPT !.at = "staged"] \in BirthSet
         /\ [Unborn EXCEPT !.at = "gone"] \in BirthSet
<1>1. [b EXCEPT !.admitted = TRUE] \in BirthSet
  BY Zenon DEF BirthSet
<1>2. [b EXCEPT !.admitted = FALSE] \in BirthSet
  BY Zenon DEF BirthSet
<1>3. [b EXCEPT !.at = "staged", !.pane = "boot"] \in BirthSet
  BY Zenon DEF BirthSet
<1>4. [b EXCEPT !.pane = "live", !.shake = TRUE] \in BirthSet
  BY Zenon DEF BirthSet
<1>5. [b EXCEPT !.pane = "none"] \in BirthSet /\ [b EXCEPT !.at = "staged"] \in BirthSet
  BY Zenon DEF BirthSet
<1>6. [b EXCEPT !.at = "pub", !.admitted = FALSE] \in BirthSet
  BY Zenon DEF BirthSet
<1>7. [Unborn EXCEPT !.at = "gone"] \in BirthSet
  BY Zenon DEF BirthSet, Unborn
<1> QED
  BY Zenon, <1>1, <1>2, <1>3, <1>4, <1>5, <1>6, <1>7

(* Every step of a creation, the upgrade or the activation keeps the gate. *)
LEMMA GatedStep == Gated /\ [AdmNext]_adm_vars => Gated'
<1> SUFFICES ASSUME Gated, [AdmNext]_adm_vars PROVE Gated'
  BY Zenon
<1>1. ASSUME NEW i \in Creations, admit(i) PROVE Gated'
  <2>1. GateTyped'
    <3>1. births[i] \in BirthSet
      BY Zenon DEF Gated, GateTyped
    <3> QED
      BY Zenon, <1>1, <3>1, BirthEdits DEF Gated, GateTyped, admit, ensure_not_inhibited
  <2>2. Exclusive'
    BY Zenon, <1>1 DEF Gated, GateTyped, Exclusive, SharedHeld, ExclusiveHeld, BirthSet,
       UpgradeSet, admit, ensure_not_inhibited
  <2>3. Marked'
    BY Zenon, <1>1 DEF Gated, GateTyped, Exclusive, Marked, SharedHeld, ExclusiveHeld,
       BirthSet, UpgradeSet, admit, ensure_not_inhibited
  <2>4. Surveyed'
    BY SMTT(60), <1>1 DEF Gated, GateTyped, Exclusive, Surveyed, SharedHeld, ExclusiveHeld,
       BirthSet, UpgradeSet, admit, ensure_not_inhibited
  <2> QED
    BY Zenon, <2>1, <2>2, <2>3, <2>4 DEF Gated
<1>2. ASSUME NEW i \in Creations, StageBirth(i) PROVE Gated'
  <2>1. GateTyped'
    <3>1. births[i] \in BirthSet
      BY Zenon DEF Gated, GateTyped
    <3> QED
      BY Zenon, <1>2, <3>1, BirthEdits DEF Gated, GateTyped, StageBirth, Birth
  <2>2. Exclusive'
    BY Zenon, <1>2 DEF Gated, GateTyped, Exclusive, SharedHeld, ExclusiveHeld, BirthSet,
       UpgradeSet, StageBirth, Birth
  <2>3. Marked'
    BY Zenon, <1>2 DEF Gated, GateTyped, Exclusive, Marked, SharedHeld, ExclusiveHeld,
       BirthSet, UpgradeSet, StageBirth, Birth
  <2>4. Surveyed'
    BY SMTT(60), <1>2 DEF Gated, GateTyped, Exclusive, Surveyed, SharedHeld, ExclusiveHeld,
       BirthSet, UpgradeSet, StageBirth, Birth
  <2> QED
    BY Zenon, <2>1, <2>2, <2>3, <2>4 DEF Gated
<1>3. ASSUME NEW i \in Creations, Handshaken(i) PROVE Gated'
  <2>1. GateTyped'
    <3>1. births[i] \in BirthSet
      BY Zenon DEF Gated, GateTyped
    <3> QED
      BY Zenon, <1>3, <3>1, BirthEdits DEF Gated, GateTyped, Handshaken, Birth
  <2>2. Exclusive'
    BY ZenonT(60), <1>3 DEF Gated, GateTyped, Exclusive, SharedHeld, ExclusiveHeld, BirthSet,
       UpgradeSet, Handshaken, Birth
  <2>3. Marked'
    BY ZenonT(60), <1>3 DEF Gated, GateTyped, Exclusive, Marked, SharedHeld, ExclusiveHeld,
       BirthSet, UpgradeSet, Handshaken, Birth
  <2>4. Surveyed'
    BY SMTT(60), <1>3 DEF Gated, GateTyped, Exclusive, Surveyed, SharedHeld, ExclusiveHeld,
       BirthSet, UpgradeSet, Handshaken, Birth
  <2> QED
    BY Zenon, <2>1, <2>2, <2>3, <2>4 DEF Gated
<1>4. ASSUME NEW i \in Creations, PublishRun(i) PROVE Gated'
  <2>1. GateTyped'
    <3>1. births[i] \in BirthSet
      BY Zenon DEF Gated, GateTyped
    <3> QED
      BY Zenon, <1>4, <3>1, BirthEdits DEF Gated, GateTyped, PublishRun, Birth
  <2>2. Exclusive'
    BY Zenon, <1>4 DEF Gated, GateTyped, Exclusive, SharedHeld, ExclusiveHeld, BirthSet,
       UpgradeSet, PublishRun, Birth
  <2>3. Marked'
    BY Zenon, <1>4 DEF Gated, GateTyped, Exclusive, Marked, SharedHeld, ExclusiveHeld,
       BirthSet, UpgradeSet, PublishRun, Birth
  <2>4. Surveyed'
    BY SMTT(60), <1>4 DEF Gated, GateTyped, Exclusive, Surveyed, SharedHeld, ExclusiveHeld,
       BirthSet, UpgradeSet, PublishRun, Birth
  <2> QED
    BY Zenon, <2>1, <2>2, <2>3, <2>4 DEF Gated
<1>5. ASSUME NEW i \in Creations, CreateFails(i) PROVE Gated'
  <2>1. GateTyped'
    <3>1. births[i] \in BirthSet
      BY Zenon DEF Gated, GateTyped
    <3> QED
      BY Zenon, <1>5, <3>1, BirthEdits DEF Gated, GateTyped, CreateFails, Birth
  <2>2. Exclusive'
    BY Zenon, <1>5 DEF Gated, GateTyped, Exclusive, SharedHeld, ExclusiveHeld, BirthSet,
       UpgradeSet, CreateFails, Birth, Unborn
  <2>3. Marked'
    BY Zenon, <1>5 DEF Gated, GateTyped, Exclusive, Marked, SharedHeld, ExclusiveHeld,
       BirthSet, UpgradeSet, CreateFails, Birth, Unborn
  <2>4. Surveyed'
    BY ZenonT(60), <1>5 DEF Gated, GateTyped, Exclusive, Surveyed, SharedHeld, ExclusiveHeld,
       BirthSet, UpgradeSet, CreateFails, Birth, Unborn
  <2> QED
    BY Zenon, <2>1, <2>2, <2>3, <2>4 DEF Gated
<1>6. ASSUME NEW i \in Creations, CreateKilled(i) PROVE Gated'
  <2>1. GateTyped'
    <3>1. births[i] \in BirthSet
      BY Zenon DEF Gated, GateTyped
    <3> QED
      BY Zenon, <1>6, <3>1, BirthEdits DEF Gated, GateTyped, CreateKilled, Birth
  <2>2. Exclusive'
    BY Zenon, <1>6 DEF Gated, GateTyped, Exclusive, SharedHeld, ExclusiveHeld, BirthSet,
       UpgradeSet, CreateKilled, Birth
  <2>3. Marked'
    BY Zenon, <1>6 DEF Gated, GateTyped, Exclusive, Marked, SharedHeld, ExclusiveHeld,
       BirthSet, UpgradeSet, CreateKilled, Birth
  <2>4. Surveyed'
    BY SMTT(60), <1>6 DEF Gated, GateTyped, Exclusive, Surveyed, SharedHeld, ExclusiveHeld,
       BirthSet, UpgradeSet, CreateKilled, Birth
  <2> QED
    BY Zenon, <2>1, <2>2, <2>3, <2>4 DEF Gated
<1>7. ASSUME NEW i \in Creations, WorkerEnds(i) PROVE Gated'
  <2>1. GateTyped'
    BY SMTT(60), <1>7 DEF Gated, GateTyped, BirthSet, UpgradeSet, WorkerEnds, Birth
  <2>2. Exclusive'
    BY ZenonT(60), <1>7 DEF Gated, GateTyped, Exclusive, SharedHeld, ExclusiveHeld, BirthSet,
       UpgradeSet, WorkerEnds, Birth
  <2>3. Marked'
    BY ZenonT(60), <1>7 DEF Gated, GateTyped, Exclusive, Marked, SharedHeld, ExclusiveHeld,
       BirthSet, UpgradeSet, WorkerEnds, Birth
  <2>4. Surveyed'
    BY SMTT(60), <1>7 DEF Gated, GateTyped, Exclusive, Surveyed, SharedHeld, ExclusiveHeld,
       BirthSet, UpgradeSet, WorkerEnds, Birth
  <2> QED
    BY Zenon, <2>1, <2>2, <2>3, <2>4 DEF Gated
<1>8. ASSUME NEW i \in Creations, MoveAside(i) PROVE Gated'
  <2>1. GateTyped'
    BY ZenonT(60), <1>8 DEF Gated, GateTyped, BirthSet, UpgradeSet, MoveAside
  <2>2. Exclusive'
    BY ZenonT(60), <1>8 DEF Gated, GateTyped, Exclusive, SharedHeld, ExclusiveHeld, BirthSet,
       UpgradeSet, MoveAside
  <2>3. Marked'
    BY ZenonT(60), <1>8 DEF Gated, GateTyped, Exclusive, Marked, SharedHeld, ExclusiveHeld,
       BirthSet, UpgradeSet, MoveAside
  <2>4. Surveyed'
    BY SMTT(60), <1>8 DEF Gated, GateTyped, Exclusive, Surveyed, SharedHeld, ExclusiveHeld,
       BirthSet, UpgradeSet, MoveAside
  <2> QED
    BY Zenon, <2>1, <2>2, <2>3, <2>4 DEF Gated
<1>9. ASSUME NEW i \in Creations, Reprobe(i) PROVE Gated'
  <2>1. CASE probe_staging(i)
    <3>1. GateTyped'
      <4>1. births[i] \in BirthSet
        BY Zenon DEF Gated, GateTyped
      <4>2. [NoUpgrade EXCEPT !.told = "creation_live"] \in UpgradeSet
        BY Zenon DEF NoUpgrade, UpgradeSet
      <4> QED
        BY Zenon, <1>9, <2>1, <4>1, <4>2, BirthEdits DEF Gated, GateTyped, Reprobe
    <3>2. Exclusive'
      BY Zenon, <1>9, <2>1 DEF Gated, GateTyped, Exclusive, SharedHeld, ExclusiveHeld,
       BirthSet, UpgradeSet, Reprobe, NoUpgrade
    <3>3. Marked'
      BY SMTT(60), <1>9, <2>1 DEF Gated, GateTyped, Exclusive, Marked, SharedHeld,
       ExclusiveHeld, BirthSet, UpgradeSet, Reprobe, NoUpgrade
    <3>4. Surveyed'
      BY SMTT(60), <1>9, <2>1 DEF Gated, GateTyped, Exclusive, Surveyed, SharedHeld,
       ExclusiveHeld, BirthSet, UpgradeSet, Reprobe, NoUpgrade
    <3> QED
      BY Zenon, <3>1, <3>2, <3>3, <3>4 DEF Gated
  <2>2. CASE ~probe_staging(i)
    <3>1. GateTyped'
      <4>1. [upgrade EXCEPT !.at = "move", !.moving = Old] \in UpgradeSet
        BY Zenon DEF Gated, GateTyped, UpgradeSet
      <4> QED
        BY Zenon, <1>9, <2>2, <4>1 DEF Gated, GateTyped, Reprobe, Upgrading
    <3>2. Exclusive'
      BY Zenon, <1>9, <2>2 DEF Gated, GateTyped, Exclusive, SharedHeld, ExclusiveHeld,
       BirthSet, UpgradeSet, Reprobe, Upgrading
    <3>3. Marked'
      BY Zenon, <1>9, <2>2 DEF Gated, GateTyped, Exclusive, Marked, SharedHeld,
       ExclusiveHeld, BirthSet, UpgradeSet, Reprobe, Upgrading
    <3>4. Surveyed'
      <4>1. /\ births' = births /\ elder' = elder /\ activation' = activation
            /\ upgrade.at = "probe" /\ upgrade.moving = i
            /\ upgrade'.at = "move" /\ upgrade'.aside = upgrade.aside
        BY Zenon, <1>9, <2>2 DEF Gated, GateTyped, UpgradeSet, Reprobe, Upgrading
      <4>2. births[i].pane # "live"
        BY Zenon, <2>2 DEF probe_staging, Gated, Surveyed
      <4> QED
        BY Zenon, <4>1, <4>2 DEF Gated, Surveyed
    <3> QED
      BY Zenon, <3>1, <3>2, <3>3, <3>4 DEF Gated
  <2> QED
    BY Zenon, <2>1, <2>2
<1>10. CASE ElderEnds
  <2>1. GateTyped'
    <3>1. [elder EXCEPT !.live = FALSE] \in [live : BOOLEAN, schema : {1, 2}]
      BY Zenon DEF Gated, GateTyped
    <3> QED
      BY Zenon, <1>10, <3>1 DEF Gated, GateTyped, ElderEnds
  <2>2. Exclusive'
    BY Zenon, <1>10 DEF Gated, GateTyped, Exclusive, SharedHeld, ExclusiveHeld, BirthSet,
       UpgradeSet, ElderEnds
  <2>3. Marked'
    BY Zenon, <1>10 DEF Gated, GateTyped, Exclusive, Marked, SharedHeld, ExclusiveHeld,
       BirthSet, UpgradeSet, ElderEnds
  <2>4. Surveyed'
    BY ZenonT(60), <1>10 DEF Gated, GateTyped, Exclusive, Surveyed, SharedHeld, ExclusiveHeld,
       BirthSet, UpgradeSet, ElderEnds
  <2> QED
    BY Zenon, <2>1, <2>2, <2>3, <2>4 DEF Gated
<1>11. CASE acquire_exclusive
  <2>1. GateTyped'
    BY ZenonT(180), <1>11 DEF Gated, GateTyped, BirthSet, UpgradeSet,
       acquire_exclusive, Upgrading, NoUpgrade
  <2>2. Exclusive'
    BY Zenon, <1>11 DEF Gated, GateTyped, Exclusive, SharedHeld, ExclusiveHeld, BirthSet,
       UpgradeSet, acquire_exclusive, Upgrading, NoUpgrade
  <2>3. Marked'
    BY ZenonT(60), <1>11 DEF Gated, GateTyped, Exclusive, Marked, SharedHeld, ExclusiveHeld,
       BirthSet, UpgradeSet, acquire_exclusive, Upgrading, NoUpgrade
  <2>4. Surveyed'
    BY ZenonT(60), <1>11 DEF Gated, GateTyped, Exclusive, Surveyed, SharedHeld, ExclusiveHeld,
       BirthSet, UpgradeSet, acquire_exclusive, Upgrading, NoUpgrade
  <2> QED
    BY Zenon, <2>1, <2>2, <2>3, <2>4 DEF Gated
<1>12. CASE CheckMarker
  <2>1. GateTyped'
    BY ZenonT(60), <1>12 DEF Gated, GateTyped, BirthSet, UpgradeSet, CheckMarker,
       Upgrading, Return, NoUpgrade, ensure_not_inhibited
  <2>2. Exclusive'
    BY Zenon, <1>12 DEF Gated, GateTyped, Exclusive, SharedHeld, ExclusiveHeld, BirthSet,
       UpgradeSet, CheckMarker, Upgrading, Return, NoUpgrade,
       ensure_not_inhibited
  <2>3. Marked'
    BY ZenonT(60), <1>12 DEF Gated, GateTyped, Exclusive, Marked, SharedHeld, ExclusiveHeld,
       BirthSet, UpgradeSet, CheckMarker, Upgrading, Return, NoUpgrade,
       ensure_not_inhibited
  <2>4. Surveyed'
    BY SMTT(60), <1>12 DEF Gated, GateTyped, Exclusive, Surveyed, SharedHeld, ExclusiveHeld,
       BirthSet, UpgradeSet, CheckMarker, Upgrading, Return, NoUpgrade,
       ensure_not_inhibited
  <2> QED
    BY Zenon, <2>1, <2>2, <2>3, <2>4 DEF Gated
<1>13. CASE Survey
  <2>1. CASE accept
    <3>1. elder.live => elder.schema = 1
      BY Zenon, <2>1 DEF accept, survey_runs, SchemaOf, Gated, GateTyped
    <3>2. survey_staging \in SUBSET Creations /\ \A i \in survey_staging : births[i].at = "staged"
      BY Zenon DEF survey_staging
    <3>3. [upgrade EXCEPT !.at = "mark", !.aside = survey_staging] \in UpgradeSet
      BY Zenon, <3>2 DEF Gated, GateTyped, UpgradeSet
    <3>4. /\ upgrade' = [upgrade EXCEPT !.at = "mark", !.aside = survey_staging]
          /\ UNCHANGED <<births, elder, activation, inhibited, install>>
          /\ upgrade.at = "survey"
      BY Zenon, <1>13, <2>1 DEF Survey, Upgrading
    <3>5. GateTyped'
      BY Zenon, <3>3, <3>4 DEF Gated, GateTyped
    <3>6. Exclusive'
      BY Zenon, <3>1, <3>2, <3>4 DEF Gated, GateTyped, Exclusive, SharedHeld,
       ExclusiveHeld, BirthSet, UpgradeSet
    <3>7. Marked'
      BY Zenon, <3>1, <3>2, <3>4 DEF Gated, GateTyped, Exclusive, Marked, SharedHeld,
       ExclusiveHeld, BirthSet, UpgradeSet
    <3>8. Surveyed'
      BY Zenon, <3>1, <3>2, <3>4 DEF Gated, GateTyped, Exclusive, Surveyed, SharedHeld,
       ExclusiveHeld, BirthSet, UpgradeSet
    <3> QED
      BY Zenon, <3>5, <3>6, <3>7, <3>8 DEF Gated
  <2>2. CASE ~accept
    <3>1. GateTyped'
      BY ZenonT(60), <1>13, <2>2 DEF Gated, GateTyped, BirthSet, UpgradeSet, Survey,
       Return, Upgrading, NoUpgrade
    <3>2. Exclusive'
      BY Zenon, <1>13, <2>2 DEF Gated, GateTyped, Exclusive, SharedHeld, ExclusiveHeld,
       BirthSet, UpgradeSet, Survey, Return, Upgrading, NoUpgrade
    <3>3. Marked'
      BY ZenonT(60), <1>13, <2>2 DEF Gated, GateTyped, Exclusive, Marked, SharedHeld,
       ExclusiveHeld, BirthSet, UpgradeSet, Survey, Return, Upgrading,
       NoUpgrade
    <3>4. Surveyed'
      BY SMTT(60), <1>13, <2>2 DEF Gated, GateTyped, Exclusive, Surveyed, SharedHeld,
       ExclusiveHeld, BirthSet, UpgradeSet, Survey, Return, Upgrading,
       NoUpgrade
    <3> QED
      BY Zenon, <3>1, <3>2, <3>3, <3>4 DEF Gated
  <2> QED
    BY Zenon, <2>1, <2>2
<1>14. CASE inhibit
  <2>1. GateTyped'
    BY Zenon, <1>14 DEF Gated, GateTyped, BirthSet, UpgradeSet, inhibit
  <2>2. Exclusive'
    BY Zenon, <1>14 DEF Gated, GateTyped, Exclusive, SharedHeld, ExclusiveHeld, BirthSet,
       UpgradeSet, inhibit
  <2>3. Marked'
    BY Zenon, <1>14 DEF Gated, GateTyped, Exclusive, Marked, SharedHeld, ExclusiveHeld,
       BirthSet, UpgradeSet, inhibit
  <2>4. Surveyed'
    BY Zenon, <1>14 DEF Gated, GateTyped, Exclusive, Surveyed, SharedHeld, ExclusiveHeld,
       BirthSet, UpgradeSet, inhibit
  <2> QED
    BY Zenon, <2>1, <2>2, <2>3, <2>4 DEF Gated
<1>15. CASE Activate
  <2>1. GateTyped'
    BY ZenonT(60), <1>15 DEF Gated, GateTyped, BirthSet, UpgradeSet, Activate,
       Upgrading, Return, NoUpgrade
  <2>2. Exclusive'
    BY Zenon, <1>15 DEF Gated, GateTyped, Exclusive, SharedHeld, ExclusiveHeld, BirthSet,
       UpgradeSet, Activate, Upgrading, Return, NoUpgrade
  <2>3. Marked'
    BY Zenon, <1>15 DEF Gated, GateTyped, Exclusive, Marked, SharedHeld, ExclusiveHeld,
       BirthSet, UpgradeSet, Activate, Upgrading, Return, NoUpgrade
  <2>4. Surveyed'
    BY Zenon, <1>15 DEF Gated, GateTyped, Exclusive, Surveyed, SharedHeld, ExclusiveHeld,
       BirthSet, UpgradeSet, Activate, Upgrading, Return, NoUpgrade
  <2> QED
    BY Zenon, <2>1, <2>2, <2>3, <2>4 DEF Gated
<1>16. CASE ActivationEnds
  <2>1. GateTyped'
    BY SMTT(60), <1>16 DEF Gated, GateTyped, BirthSet, UpgradeSet, ActivationEnds
  <2>2. Exclusive'
    BY Zenon, <1>16 DEF Gated, GateTyped, Exclusive, SharedHeld, ExclusiveHeld, BirthSet,
       UpgradeSet, ActivationEnds
  <2>3. Marked'
    BY Zenon, <1>16 DEF Gated, GateTyped, Exclusive, Marked, SharedHeld, ExclusiveHeld,
       BirthSet, UpgradeSet, ActivationEnds
  <2>4. Surveyed'
    BY Zenon, <1>16 DEF Gated, GateTyped, Exclusive, Surveyed, SharedHeld, ExclusiveHeld,
       BirthSet, UpgradeSet, ActivationEnds
  <2> QED
    BY Zenon, <2>1, <2>2, <2>3, <2>4 DEF Gated
<1>17. CASE ActivationGone
  <2>1. GateTyped'
    BY SMTT(60), <1>17 DEF Gated, GateTyped, BirthSet, UpgradeSet, ActivationGone
  <2>2. Exclusive'
    BY Zenon, <1>17 DEF Gated, GateTyped, Exclusive, SharedHeld, ExclusiveHeld, BirthSet,
       UpgradeSet, ActivationGone
  <2>3. Marked'
    BY Zenon, <1>17 DEF Gated, GateTyped, Exclusive, Marked, SharedHeld, ExclusiveHeld,
       BirthSet, UpgradeSet, ActivationGone
  <2>4. Surveyed'
    BY Zenon, <1>17 DEF Gated, GateTyped, Exclusive, Surveyed, SharedHeld, ExclusiveHeld,
       BirthSet, UpgradeSet, ActivationGone
  <2> QED
    BY Zenon, <2>1, <2>2, <2>3, <2>4 DEF Gated
<1>18. CASE Watch
  <2>1. GateTyped'
    BY Zenon, <1>18 DEF Gated, GateTyped, BirthSet, UpgradeSet, Watch,
       NoUpgrade
  <2>2. Exclusive'
    BY Zenon, <1>18 DEF Gated, GateTyped, Exclusive, SharedHeld, ExclusiveHeld, BirthSet,
       UpgradeSet, Watch, NoUpgrade
  <2>3. Marked'
    BY Zenon, <1>18 DEF Gated, GateTyped, Exclusive, Marked, SharedHeld, ExclusiveHeld,
       BirthSet, UpgradeSet, Watch, NoUpgrade
  <2>4. Surveyed'
    BY Zenon, <1>18 DEF Gated, GateTyped, Exclusive, Surveyed, SharedHeld, ExclusiveHeld,
       BirthSet, UpgradeSet, Watch, NoUpgrade
  <2> QED
    BY Zenon, <2>1, <2>2, <2>3, <2>4 DEF Gated
<1>19. CASE clear_inhibit
  <2>1. GateTyped'
    BY Zenon, <1>19 DEF Gated, GateTyped, BirthSet, UpgradeSet,
       clear_inhibit, NoUpgrade
  <2>2. Exclusive'
    BY Zenon, <1>19 DEF Gated, GateTyped, Exclusive, SharedHeld, ExclusiveHeld, BirthSet,
       UpgradeSet, clear_inhibit, NoUpgrade
  <2>3. Marked'
    BY Zenon, <1>19 DEF Gated, GateTyped, Exclusive, Marked, SharedHeld, ExclusiveHeld,
       BirthSet, UpgradeSet, clear_inhibit, NoUpgrade
  <2>4. Surveyed'
    BY Zenon, <1>19 DEF Gated, GateTyped, Exclusive, Surveyed, SharedHeld, ExclusiveHeld,
       BirthSet, UpgradeSet, clear_inhibit, NoUpgrade
  <2> QED
    BY Zenon, <2>1, <2>2, <2>3, <2>4 DEF Gated
<1>20. CASE UpgradeKilled
  <2>1. GateTyped'
    BY ZenonT(60), <1>20 DEF Gated, GateTyped, BirthSet, UpgradeSet,
       UpgradeKilled, NoUpgrade
  <2>2. Exclusive'
    BY ZenonT(60), <1>20 DEF Gated, GateTyped, Exclusive, SharedHeld, ExclusiveHeld, BirthSet,
       UpgradeSet, UpgradeKilled, NoUpgrade
  <2>3. Marked'
    BY ZenonT(60), <1>20 DEF Gated, GateTyped, Exclusive, Marked, SharedHeld, ExclusiveHeld,
       BirthSet, UpgradeSet, UpgradeKilled, NoUpgrade
  <2>4. Surveyed'
    BY SMTT(60), <1>20 DEF Gated, GateTyped, Exclusive, Surveyed, SharedHeld, ExclusiveHeld,
       BirthSet, UpgradeSet, UpgradeKilled, NoUpgrade
  <2> QED
    BY Zenon, <2>1, <2>2, <2>3, <2>4 DEF Gated
<1>21. CASE Quiet \/ UNCHANGED adm_vars
  BY ZenonT(60), <1>21 DEF Quiet, adm_vars, Gated, GateTyped, Exclusive, Marked, Surveyed,
       SharedHeld, ExclusiveHeld
<1> QED
  BY Zenon, <1>1, <1>2, <1>3, <1>4, <1>5, <1>6, <1>7, <1>8, <1>9, <1>10, <1>11,
       <1>12, <1>13, <1>14, <1>15, <1>16, <1>17, <1>18, <1>19, <1>20, <1>21
       DEF AdmNext, UpgradeStep

(* While an upgrade runs or its activation goes on, with or without its   *)
(* CLI, no creation is in flight, none is admitted onto a torn             *)
(* installation, no live run meets a binary of another schema, what was    *)
(* moved aside is dead, activations do not overlap and success means the   *)
(* new installation: `run upgrade-lock` replaces the installation alone.   *)
THEOREM AdmissionSafe == AdmSpec => UpgradesAlone
<1> DEFINE Step == /\ AdmTypeOK' /\ ActivationAlone' /\ AdmittedOnWhole' /\ AbandonedIsDead'
                   /\ LiveRunsFit' /\ OneActivation /\ DoneMeansNew
<1>1. ASSUME Gated, [AdmNext]_adm_vars PROVE Step
  <2>1. Gated'
    BY Zenon, <1>1, GatedStep
  <2>2. AdmTypeOK' /\ ActivationAlone' /\ AdmittedOnWhole' /\ AbandonedIsDead' /\ LiveRunsFit'
    BY <2>1, GatedSafe, PTL
  <2>3. OneActivation
    BY Zenon, <1>1 DEF Gated, Exclusive, OneActivation
  <2>4. DoneMeansNew
    <3> SUFFICES ASSUME upgrade.at = "clear", upgrade'.told = "done"
                 PROVE  install' = "new" /\ inhibited' # "ours"
      BY Zenon DEF DoneMeansNew
    <3>1. upgrade.told = "none" /\ install = "new" /\ activation = "none"
      BY Zenon, <1>1 DEF Gated, Exclusive, Marked, GateTyped
    <3>2. upgrade' # upgrade
      BY Zenon, <3>1
    <3>3. clear_inhibit \/ UpgradeKilled
      BY Zenon, <1>1, <3>2 DEF AdmNext, UpgradeStep, adm_vars, admit, StageBirth, Handshaken,
         PublishRun, CreateFails, CreateKilled, WorkerEnds, Birth, ElderEnds,
         acquire_exclusive, CheckMarker, Survey, inhibit, MoveAside, Reprobe, Activate,
         ActivationEnds, ActivationGone, Watch, Quiet
    <3> QED
      BY SMTT(60), <3>1, <3>3 DEF clear_inhibit, UpgradeKilled, NoUpgrade
  <2> QED
    BY Zenon, <2>2, <2>3, <2>4
<1>2. AdmInit => Gated
  BY Zenon, GatedInit
<1>3. Gated /\ [AdmNext]_adm_vars => Gated'
  BY Zenon, GatedStep
<1> QED
  BY <1>1, <1>2, <1>3, PTL DEF AdmSpec, UpgradesAlone

-------------------------------------------------------------------------------

Stops == Building \cup {"idle", "key", "wait", "answer"}
Sayings == {"none", "conflict", "uncertain", "error", "unconfirmed", "run", "killed"}
CallSet == [at : Stops, want : Requests \cup {"none"}, said : Sayings]
Budgets == {"calls", "kill", "fail", "settle", "lost", "hurt"}
Hurt == risk.hurt = TRUE
RiskTyped == risk = [x \in Budgets |-> risk[x]]
SiteSet == [branch : BOOLEAN, checkout : BOOLEAN, adding : BOOLEAN]

\* The variables have their types; a running call knows what it wants.
Typed ==
  /\ slot \in Requests \cup {"none"}
  /\ lease \subseteq Askers \cup {"git"}
  /\ site \in SiteSet
  /\ staged \in {"none", "dir", "run", "node"}
  /\ shown \in {"none", "live", "over"}
  /\ boot \in {"none", "booting", "ready"}
  /\ asker \in [Askers -> CallSet]
  /\ RiskTyped
  /\ \A c \in Askers : asker[c].at # "idle" => asker[c].want # "none"

\* The lease: one call holds it while it builds, and Git while it adds.
Leased ==
  /\ \A c \in Askers : asker[c].at \in Building \cup {"answer"} => c \in lease
  /\ \A c, d \in Askers : c \in lease /\ d \in lease => c = d
  /\ site.adding => "git" \in lease
  /\ site.adding => \A c \in Askers : asker[c].at \in Building => asker[c].at = "adding"
  /\ slot = "none" => lease = {}
  /\ \A c \in Askers :
       asker[c].at \in Building \cup {"wait", "answer"} => slot = asker[c].want

\* The stage: the builder's place says how far it is, and the published run
\* was whole.
Staged ==
  /\ \A c \in Askers :
       /\ asker[c].at = "run" => staged = "dir"
       /\ asker[c].at = "node" => staged = "run"
       /\ asker[c].at = "publish" => staged = "node"
       /\ asker[c].at \in {"adding", "check", "run", "node", "publish"} => shown = "none"
       /\ asker[c].at \in {"read", "verify", "supervise", "await"} => shown # "none"
  /\ shown # "none" => staged = "node" /\ slot # "none" /\ ~site.adding

\* A checkout is on its branch, from the moment Git makes it.  A branch without a checkout, a checkout or
\* branch that is missing, a stage without its run and the answer
\* `creation_uncertain` each have a living builder or a mishap behind them.
Blamed ==
  /\ site.checkout \/ site.adding => site.branch
  /\ site.branch /\ ~site.checkout /\ ~site.adding => Hurt
  /\ ~site.branch /\ shown # "none" => Hurt
  /\ \A c \in Askers :
       asker[c].at \in {"adding", "check", "run", "node", "publish", "read", "verify"} =>
         site.branch \/ Hurt
  /\ staged = "dir" => Hurt \/ \E c \in Askers : asker[c].at = "run"
  /\ \A c \in Askers : asker[c].said = "uncertain" => Hurt

Sound == Typed /\ Leased /\ Staged /\ Blamed

(* A call spends its budget ... *)
LEMMA CallSpent ==
  ASSUME RiskTyped, Risky("calls")
  PROVE  RiskTyped' /\ Hurt' = Hurt
BY Zenon DEF Risky, RiskTyped, Budgets, Hurt

(* ... and a mishap is remembered besides. *)
LEMMA Setback ==
  ASSUME RiskTyped, NEW what \in {"kill", "fail", "settle", "lost"}, Risky(what)
  PROVE  RiskTyped' /\ Hurt'
BY Zenon DEF Risky, RiskTyped, Budgets, Hurt

(* What the steps make of the record of the site ... *)
LEMMA SiteEdits ==
  ASSUME site \in SiteSet
  PROVE  /\ [site EXCEPT !.adding = TRUE, !.branch = TRUE] \in SiteSet
         /\ [site EXCEPT !.adding = FALSE, !.checkout = TRUE] \in SiteSet
         /\ [site EXCEPT !.adding = FALSE] \in SiteSet
         /\ [site EXCEPT !.checkout = FALSE] \in SiteSet
         /\ [branch |-> FALSE, checkout |-> FALSE, adding |-> FALSE] \in SiteSet
BY Zenon DEF SiteSet

(* ... and of a call. *)
LEMMA CallEdits ==
  ASSUME NEW a \in CallSet
  PROVE  /\ \A p \in Stops : [a EXCEPT !.at = p] \in CallSet
         /\ \A s \in Sayings : [at |-> "idle", want |-> a.want, said |-> s] \in CallSet
         /\ \A r \in Requests : [at |-> "key", want |-> r, said |-> "none"] \in CallSet
BY Zenon DEF CallSet, Stops, Sayings

(* A call that moves on is a call ... *)
LEMMA ToTyped ==
  ASSUME asker \in [Askers -> CallSet], NEW c \in Askers, NEW p \in Stops, To(c, p)
  PROVE  asker' \in [Askers -> CallSet]
BY Zenon, CallEdits DEF To

(* ... and so is one that returns. *)
LEMMA SaysTyped ==
  ASSUME asker \in [Askers -> CallSet], NEW c \in Askers, NEW s \in Sayings, Says(c, s)
  PROVE  asker' \in [Askers -> CallSet]
BY Zenon, CallEdits DEF Says

(* A state before any call is sound. *)
LEMMA SoundInit == CcInit => Sound
<1> SUFFICES ASSUME CcInit PROVE Sound
  BY Zenon
<1>1. RiskTyped
  BY Zenon, CallerCreateAssumption DEF CcInit, Budgets, RiskTyped
<1>2. asker \in [Askers -> CallSet] /\ \A c \in Askers : asker[c].at = "idle" /\ asker[c].said = "none"
  BY Zenon DEF CcInit, Unasked, CallSet, Stops, Sayings
<1>3. site \in SiteSet
  BY Zenon DEF CcInit, SiteSet
<1> QED
  BY Zenon, <1>1, <1>2, <1>3 DEF CcInit, Sound, Typed, Leased, Staged, Blamed, Building

(* Every step of a call, of Git, of the supervisor and of those who settle *)
(* or damage the run keeps the state sound.                                *)
LEMMA SoundStep == Sound /\ [CcNext]_cc_vars => Sound'
<1> SUFFICES ASSUME Sound, [CcNext]_cc_vars PROVE Sound'
  BY Zenon
<1> USE CallerCreateAssumption DEF Sound
<1>1. ASSUME NEW c \in Askers, Ask(c) PROVE Sound'
  <2>1. RiskTyped' /\ Hurt' = Hurt
    BY Zenon, <1>1, CallSpent DEF Typed, Ask
  <2>2. asker' \in [Askers -> CallSet]
    BY ZenonT(60), <1>1, CallEdits DEF Typed, Stops, Sayings, Building, Ask
  <2>4. Typed'
    BY SMTT(60), <1>1, <2>1, <2>2 DEF Typed, CallSet, Ask
  <2>5. Leased'
    BY SMTT(60), <1>1, <2>1 DEF Typed, Leased, CallSet, Stops, Building, SiteSet, Ask
  <2>6. Staged'
    BY SMTT(60), <1>1, <2>1 DEF Typed, Leased, Staged, CallSet, Building, SiteSet, Ask
  <2>7. Blamed'
    BY SMTT(60), <1>1, <2>1 DEF Typed, Leased, Staged, Blamed, Hurt, CallSet, SiteSet,
       Building, Ask
  <2> QED
    BY Zenon, <2>4, <2>5, <2>6, <2>7
<1>2. ASSUME NEW c \in Askers, ReserveKey(c) PROVE Sound'
  <2>2. asker' \in [Askers -> CallSet]
    BY Zenon, <1>2, ToTyped, SaysTyped DEF Typed, Stops, Sayings, Building,
       ReserveKey
  <2>4. Typed'
    BY SMTT(60), <1>2, <2>2 DEF Typed, CallSet, RiskTyped, ReserveKey, To, Says
  <2>5. Leased'
    BY SMTT(60), <1>2 DEF Typed, Leased, CallSet, Stops, Building, SiteSet, ReserveKey,
       To, Says
  <2>6. Staged'
    BY SMTT(60), <1>2 DEF Typed, Leased, Staged, CallSet, Building, SiteSet, ReserveKey,
       To, Says
  <2>7. Blamed'
    BY SMTT(60), <1>2 DEF Typed, Leased, Staged, Blamed, Hurt, CallSet, SiteSet,
       Building, ReserveKey, To, Says
  <2> QED
    BY Zenon, <2>4, <2>5, <2>6, <2>7
<1>3. ASSUME NEW c \in Askers, AwaitLease(c) PROVE Sound'
  <2>2. asker' \in [Askers -> CallSet]
    BY Zenon, <1>3, ToTyped, SaysTyped DEF Typed, Stops, Sayings, Building,
       AwaitLease
  <2>4. Typed'
    BY SMTT(60), <1>3, <2>2 DEF Typed, CallSet, RiskTyped, AwaitLease, To
  <2>5. Leased'
    BY SMTT(60), <1>3 DEF Typed, Leased, CallSet, Stops, Building, SiteSet, AwaitLease,
       To
  <2>6. Staged'
    BY SMTT(60), <1>3 DEF Typed, Leased, Staged, CallSet, Building, SiteSet, AwaitLease,
       To
  <2>7. Blamed'
    BY SMTT(60), <1>3 DEF Typed, Leased, Staged, Blamed, Hurt, CallSet, SiteSet,
       Building, AwaitLease, To
  <2> QED
    BY Zenon, <2>4, <2>5, <2>6, <2>7
<1>4. ASSUME NEW c \in Askers, StartGit(c) PROVE Sound'
  <2>2. asker' \in [Askers -> CallSet]
    BY Zenon, <1>4, ToTyped, SaysTyped DEF Typed, Stops, Sayings, Building, StartGit
  <2>3. site' \in SiteSet
    BY Zenon, <1>4, SiteEdits DEF Typed, StartGit, To, Says
  <2>4. Typed'
    BY SMTT(60), <1>4, <2>2, <2>3 DEF Typed, CallSet, RiskTyped, StartGit, To, Says
  <2>5. Leased'
    BY SMTT(60), <1>4 DEF Typed, Leased, CallSet, Stops, Building, SiteSet, StartGit,
       To, Says
  <2>6. Staged'
    BY SMTT(60), <1>4 DEF Typed, Leased, Staged, CallSet, Building, SiteSet, StartGit,
       To, Says
  <2>7. Blamed'
    <3>1. CASE shown # "none" /\ To(c, "read") /\ UNCHANGED <<lease, site>>
      BY SMTT(60), <1>4, <3>1 DEF Typed, Leased, Staged, Blamed, Hurt, CallSet, SiteSet,
         Building, StartGit, To, Says
    <3>2. CASE shown = "none" /\ site.checkout /\ To(c, "check") /\ UNCHANGED <<lease, site>>
      BY SMTT(60), <1>4, <3>2 DEF Typed, Leased, Staged, Blamed, Hurt, CallSet, SiteSet,
         Building, StartGit, To, Says
    <3>3. CASE shown = "none" /\ ~site.checkout /\ ~site.branch
      <4>1. site'.branch = TRUE /\ site'.adding = TRUE /\ site'.checkout = FALSE /\ risk' = risk
        BY Zenon, <1>4, <3>3 DEF StartGit, Typed, SiteSet
      <4>2. /\ shown' = shown /\ staged' = staged /\ asker[c].at = "git"
            /\ asker' = [asker EXCEPT ![c].at = "adding"]
        BY Zenon, <1>4, <3>3 DEF StartGit, To
      <4>3. /\ asker'[c].at = "adding" /\ asker'[c].said = asker[c].said
            /\ \A d \in Askers \ {c} : asker'[d] = asker[d]
        BY SMTT(60), <4>2 DEF Typed, CallSet
      <4> QED
        BY ZenonT(60), <4>1, <4>2, <4>3 DEF Blamed, Hurt
    <3>4. CASE shown = "none" /\ ~site.checkout /\ site.branch
      BY Zenon, <1>4, <3>4 DEF Typed, Leased, Staged, Blamed, Hurt, CallSet, SiteSet,
         Building, StartGit, To, Says
    <3> QED
      BY Zenon, <1>4, <3>1, <3>2, <3>3, <3>4 DEF StartGit
  <2> QED
    BY Zenon, <2>4, <2>5, <2>6, <2>7
<1>5. ASSUME NEW c \in Askers, GitReturns(c) PROVE Sound'
  <2>2. asker' \in [Askers -> CallSet]
    BY Zenon, <1>5, ToTyped, SaysTyped DEF Typed, Stops, Sayings, Building,
       GitReturns
  <2>4. Typed'
    BY SMTT(60), <1>5, <2>2 DEF Typed, CallSet, RiskTyped, GitReturns, To, Says
  <2>5. Leased'
    BY SMTT(60), <1>5 DEF Typed, Leased, CallSet, Stops, Building, SiteSet, GitReturns,
       To, Says
  <2>6. Staged'
    BY SMTT(60), <1>5 DEF Typed, Leased, Staged, CallSet, Building, SiteSet, GitReturns,
       To, Says
  <2>7. Blamed'
    BY SMTT(60), <1>5 DEF Typed, Leased, Staged, Blamed, Hurt, CallSet, SiteSet,
       Building, GitReturns, To, Says
  <2> QED
    BY Zenon, <2>4, <2>5, <2>6, <2>7
<1>6. ASSUME NEW c \in Askers, CheckStage(c) PROVE Sound'
  <2>2. asker' \in [Askers -> CallSet]
    BY Zenon, <1>6, ToTyped, SaysTyped DEF Typed, Stops, Sayings, Building,
       CheckStage
  <2>4. Typed'
    BY SMTT(60), <1>6, <2>2 DEF Typed, CallSet, RiskTyped, CheckStage, To, Says,
       verify_checkout
  <2>5. Leased'
    BY SMTT(60), <1>6 DEF Typed, Leased, CallSet, Stops, Building, SiteSet, CheckStage,
       To, Says, verify_checkout
  <2>6. Staged'
    BY SMTT(60), <1>6 DEF Typed, Leased, Staged, CallSet, Building, SiteSet, CheckStage,
       To, Says, verify_checkout
  <2>7. Blamed'
    BY SMTT(60), <1>6 DEF Typed, Leased, Staged, Blamed, Hurt, CallSet, SiteSet,
       Building, CheckStage, To, Says, verify_checkout
  <2> QED
    BY Zenon, <2>4, <2>5, <2>6, <2>7
<1>7. ASSUME NEW c \in Askers, StageRun(c) PROVE Sound'
  <2>1. RiskTyped' /\ (risk' = risk \/ Hurt')
    BY Zenon, <1>7, Setback DEF Typed, StageRun, RiskTyped
  <2>2. asker' \in [Askers -> CallSet]
    BY Zenon, <1>7, ToTyped, SaysTyped DEF Typed, Stops, Sayings, Building, StageRun
  <2>4. Typed'
    BY SMTT(60), <1>7, <2>1, <2>2 DEF Typed, CallSet, StageRun, To, Says
  <2>5. Leased'
    BY SMTT(60), <1>7 DEF Typed, Leased, CallSet, Stops, Building, SiteSet, StageRun,
       To, Says
  <2>6. Staged'
    BY SMTT(60), <1>7 DEF Typed, Leased, Staged, CallSet, Building, SiteSet, StageRun,
       To, Says
  <2>7. Blamed'
    <3>1. CASE staged' = "run" /\ To(c, "node") /\ UNCHANGED <<lease, risk>>
      BY SMTT(60), <1>7, <2>1, <3>1 DEF Typed, Leased, Staged, Blamed, Hurt, CallSet,
         SiteSet, Building, StageRun, To, Says
    <3>2. CASE Risky("fail") /\ Says(c, "error") /\ UNCHANGED staged
      BY Zenon, <1>7, <3>2, Setback DEF StageRun, Typed, Blamed
    <3> QED
      BY Zenon, <1>7, <3>1, <3>2 DEF StageRun
  <2> QED
    BY Zenon, <2>4, <2>5, <2>6, <2>7
<1>8. ASSUME NEW c \in Askers, StageNode(c) PROVE Sound'
  <2>1. RiskTyped' /\ (risk' = risk \/ Hurt')
    BY Zenon, <1>8, Setback DEF Typed, StageNode, RiskTyped
  <2>2. asker' \in [Askers -> CallSet]
    BY Zenon, <1>8, ToTyped, SaysTyped DEF Typed, Stops, Sayings, Building, StageNode
  <2>4. Typed'
    BY SMTT(60), <1>8, <2>1, <2>2 DEF Typed, CallSet, StageNode, To, Says
  <2>5. Leased'
    BY SMTT(60), <1>8 DEF Typed, Leased, CallSet, Stops, Building, SiteSet, StageNode,
       To, Says
  <2>6. Staged'
    BY SMTT(60), <1>8 DEF Typed, Leased, Staged, CallSet, Building, SiteSet, StageNode,
       To, Says
  <2>7. Blamed'
    BY SMTT(60), <1>8, <2>1 DEF Typed, Leased, Staged, Blamed, Hurt, CallSet, SiteSet,
       Building, StageNode, To, Says
  <2> QED
    BY Zenon, <2>4, <2>5, <2>6, <2>7
<1>9. ASSUME NEW c \in Askers, Publish(c) PROVE Sound'
  <2>2. asker' \in [Askers -> CallSet]
    BY Zenon, <1>9, ToTyped, SaysTyped DEF Typed, Stops, Sayings, Building, Publish
  <2>4. Typed'
    BY SMTT(60), <1>9, <2>2 DEF Typed, CallSet, RiskTyped, Publish, To, Says,
       verify_checkout
  <2>5. Leased'
    BY SMTT(60), <1>9 DEF Typed, Leased, CallSet, Stops, Building, SiteSet, Publish, To,
       Says, verify_checkout
  <2>6. Staged'
    BY SMTT(60), <1>9 DEF Typed, Leased, Staged, CallSet, Building, SiteSet, Publish,
       To, Says, verify_checkout
  <2>7. Blamed'
    BY SMTT(60), <1>9 DEF Typed, Leased, Staged, Blamed, Hurt, CallSet, SiteSet,
       Building, Publish, To, Says, verify_checkout
  <2> QED
    BY Zenon, <2>4, <2>5, <2>6, <2>7
<1>10. ASSUME NEW c \in Askers, ReadPublished(c) PROVE Sound'
  <2>2. asker' \in [Askers -> CallSet]
    BY Zenon, <1>10, ToTyped, SaysTyped DEF Typed, Stops, Sayings, Building,
       ReadPublished
  <2>4. Typed'
    BY SMTT(60), <1>10, <2>2 DEF Typed, CallSet, RiskTyped, ReadPublished, To
  <2>5. Leased'
    BY SMTT(60), <1>10 DEF Typed, Leased, CallSet, Stops, Building, SiteSet,
       ReadPublished, To
  <2>6. Staged'
    BY SMTT(60), <1>10 DEF Typed, Leased, Staged, CallSet, Building, SiteSet,
       ReadPublished, To
  <2>7. Blamed'
    BY SMTT(60), <1>10 DEF Typed, Leased, Staged, Blamed, Hurt, CallSet, SiteSet,
       Building, ReadPublished, To
  <2> QED
    BY Zenon, <2>4, <2>5, <2>6, <2>7
<1>11. ASSUME NEW c \in Askers, VerifyLive(c) PROVE Sound'
  <2>2. asker' \in [Askers -> CallSet]
    BY Zenon, <1>11, ToTyped, SaysTyped DEF Typed, Stops, Sayings, Building,
       VerifyLive
  <2>4. Typed'
    BY SMTT(60), <1>11, <2>2 DEF Typed, CallSet, RiskTyped, VerifyLive, To, Says,
       verify_checkout
  <2>5. Leased'
    BY SMTT(60), <1>11 DEF Typed, Leased, CallSet, Stops, Building, SiteSet, VerifyLive,
       To, Says, verify_checkout
  <2>6. Staged'
    BY SMTT(60), <1>11 DEF Typed, Leased, Staged, CallSet, Building, SiteSet,
       VerifyLive, To, Says, verify_checkout
  <2>7. Blamed'
    BY SMTT(60), <1>11 DEF Typed, Leased, Staged, Blamed, Hurt, CallSet, SiteSet,
       Building, VerifyLive, To, Says, verify_checkout
  <2> QED
    BY Zenon, <2>4, <2>5, <2>6, <2>7
<1>12. ASSUME NEW c \in Askers, Supervise(c) PROVE Sound'
  <2>2. asker' \in [Askers -> CallSet]
    BY Zenon, <1>12, ToTyped, SaysTyped DEF Typed, Stops, Sayings, Building,
       Supervise
  <2>4. Typed'
    BY SMTT(60), <1>12, <2>2 DEF Typed, CallSet, RiskTyped, Supervise, To, Says
  <2>5. Leased'
    BY SMTT(60), <1>12 DEF Typed, Leased, CallSet, Stops, Building, SiteSet, Supervise,
       To, Says
  <2>6. Staged'
    BY SMTT(60), <1>12 DEF Typed, Leased, Staged, CallSet, Building, SiteSet, Supervise,
       To, Says
  <2>7. Blamed'
    BY SMTT(60), <1>12 DEF Typed, Leased, Staged, Blamed, Hurt, CallSet, SiteSet,
       Building, Supervise, To, Says
  <2> QED
    BY Zenon, <2>4, <2>5, <2>6, <2>7
<1>13. ASSUME NEW c \in Askers, Confirm(c) PROVE Sound'
  <2>2. asker' \in [Askers -> CallSet]
    BY Zenon, <1>13, ToTyped, SaysTyped DEF Typed, Stops, Sayings, Building, Confirm
  <2>4. Typed'
    BY SMTT(60), <1>13, <2>2 DEF Typed, CallSet, RiskTyped, Confirm, To, Says
  <2>5. Leased'
    BY SMTT(60), <1>13 DEF Typed, Leased, CallSet, Stops, Building, SiteSet, Confirm,
       To, Says
  <2>6. Staged'
    BY SMTT(60), <1>13 DEF Typed, Leased, Staged, CallSet, Building, SiteSet, Confirm,
       To, Says
  <2>7. Blamed'
    BY SMTT(60), <1>13 DEF Typed, Leased, Staged, Blamed, Hurt, CallSet, SiteSet,
       Building, Confirm, To, Says
  <2> QED
    BY Zenon, <2>4, <2>5, <2>6, <2>7
<1>14. ASSUME NEW c \in Askers, Answered(c) PROVE Sound'
  <2>2. asker' \in [Askers -> CallSet]
    BY Zenon, <1>14, ToTyped, SaysTyped DEF Typed, Stops, Sayings, Building, Answered
  <2>4. Typed'
    BY SMTT(60), <1>14, <2>2 DEF Typed, CallSet, RiskTyped, Answered, Says
  <2>5. Leased'
    BY SMTT(60), <1>14 DEF Typed, Leased, CallSet, Stops, Building, SiteSet, Answered,
       Says
  <2>6. Staged'
    BY Zenon, <1>14 DEF Typed, Leased, Staged, CallSet, Building, SiteSet, Answered,
       Says
  <2>7. Blamed'
    BY ZenonT(60), <1>14 DEF Typed, Leased, Staged, Blamed, Hurt, CallSet, SiteSet,
       Building, Answered, Says
  <2> QED
    BY Zenon, <2>4, <2>5, <2>6, <2>7
<1>15. ASSUME NEW c \in Askers, AskerKilled(c) PROVE Sound'
  <2>1. RiskTyped' /\ Hurt'
    BY Zenon, <1>15, Setback DEF Typed, AskerKilled
  <2>2. asker' \in [Askers -> CallSet]
    BY Zenon, <1>15, ToTyped, SaysTyped DEF Typed, Stops, Sayings, Building,
       AskerKilled
  <2>4. Typed'
    BY SMTT(60), <1>15, <2>1, <2>2 DEF Typed, CallSet, AskerKilled, Says
  <2>5. Leased'
    BY SMTT(60), <1>15 DEF Typed, Leased, CallSet, Stops, Building, SiteSet,
       AskerKilled, Says
  <2>6. Staged'
    BY Zenon, <1>15 DEF Typed, Leased, Staged, CallSet, Building, SiteSet,
       AskerKilled, Says
  <2>7. Blamed'
    BY Zenon, <1>15, <2>1 DEF Typed, Leased, Staged, Blamed, Hurt, CallSet, SiteSet,
       Building, AskerKilled, Says
  <2> QED
    BY Zenon, <2>4, <2>5, <2>6, <2>7
<1>16. CASE GitAdds
  <2>1. RiskTyped' /\ (risk' = risk \/ Hurt')
    BY Zenon, <1>16, Setback DEF Typed, GitAdds, RiskTyped
  <2>3. site' \in SiteSet
    BY Zenon, <1>16, SiteEdits DEF Typed, GitAdds
  <2>4. Typed'
    BY Zenon, <1>16, <2>1, <2>3 DEF Typed, CallSet, GitAdds
  <2>5. Leased'
    BY ZenonT(60), <1>16 DEF Typed, Leased, CallSet, Stops, Building, SiteSet, GitAdds
  <2>6. Staged'
    BY Zenon, <1>16 DEF Typed, Leased, Staged, CallSet, Building, SiteSet, GitAdds
  <2>7. Blamed'
    <3>1. CASE site' = [site EXCEPT !.adding = FALSE, !.checkout = TRUE] /\ UNCHANGED risk
      <4>1. site'.branch = site.branch /\ site'.adding = FALSE /\ site'.checkout = TRUE
        BY Zenon, <3>1 DEF Typed, SiteSet
      <4> QED
        BY Zenon, <1>16, <3>1, <4>1 DEF GitAdds, Blamed, Hurt
    <3>2. CASE site' = [site EXCEPT !.adding = FALSE] /\ Risky("fail")
      <4>1. site'.branch = site.branch /\ site'.adding = FALSE /\ site'.checkout = site.checkout
        BY Zenon, <3>2 DEF Typed, SiteSet
      <4> QED
        BY Zenon, <1>16, <3>2, <4>1, Setback DEF GitAdds, Typed, Blamed
    <3> QED
      BY Zenon, <1>16, <3>1, <3>2 DEF GitAdds
  <2> QED
    BY Zenon, <2>4, <2>5, <2>6, <2>7
<1>17. CASE SupervisorBoots
  <2>1. RiskTyped' /\ (risk' = risk \/ Hurt')
    BY Zenon, <1>17, Setback DEF Typed, SupervisorBoots, RiskTyped
  <2>4. Typed'
    BY Zenon, <1>17, <2>1 DEF Typed, CallSet, SupervisorBoots
  <2>5. Leased'
    BY Zenon, <1>17, <2>1 DEF Typed, Leased, CallSet, Stops, Building, SiteSet,
       SupervisorBoots
  <2>6. Staged'
    BY Zenon, <1>17, <2>1 DEF Typed, Leased, Staged, CallSet, Building, SiteSet,
       SupervisorBoots
  <2>7. Blamed'
    BY Zenon, <1>17, <2>1 DEF Typed, Leased, Staged, Blamed, Hurt, CallSet, SiteSet,
       Building, SupervisorBoots
  <2> QED
    BY Zenon, <2>4, <2>5, <2>6, <2>7
<1>18. CASE SupervisorEnds
  <2>1. RiskTyped' /\ (risk' = risk \/ Hurt')
    BY Zenon, <1>18, Setback DEF Typed, SupervisorEnds, RiskTyped
  <2>4. Typed'
    BY Zenon, <1>18, <2>1 DEF Typed, CallSet, SupervisorEnds
  <2>5. Leased'
    BY Zenon, <1>18 DEF Typed, Leased, CallSet, Stops, Building, SiteSet,
       SupervisorEnds
  <2>6. Staged'
    BY Zenon, <1>18 DEF Typed, Leased, Staged, CallSet, Building, SiteSet,
       SupervisorEnds
  <2>7. Blamed'
    BY Zenon, <1>18, <2>1 DEF Typed, Leased, Staged, Blamed, Hurt, CallSet, SiteSet,
       Building, SupervisorEnds
  <2> QED
    BY Zenon, <2>4, <2>5, <2>6, <2>7
<1>19. CASE RunSettles
  <2>1. RiskTyped' /\ Hurt'
    BY Zenon, <1>19, Setback DEF Typed, RunSettles
  <2>3. site' \in SiteSet
    BY Zenon, <1>19, SiteEdits DEF Typed, RunSettles
  <2>4. Typed'
    BY Zenon, <1>19, <2>1, <2>3 DEF Typed, CallSet, RunSettles
  <2>5. Leased'
    BY SMTT(60), <1>19 DEF Typed, Leased, CallSet, Stops, Building, SiteSet, RunSettles
  <2>6. Staged'
    BY SMTT(60), <1>19 DEF Typed, Leased, Staged, CallSet, Building, SiteSet, RunSettles
  <2>7. Blamed'
    BY SMTT(60), <1>19, <2>1 DEF Typed, Leased, Staged, Blamed, Hurt, CallSet, SiteSet,
       Building, RunSettles
  <2> QED
    BY Zenon, <2>4, <2>5, <2>6, <2>7
<1>20. CASE CheckoutLost
  <2>1. RiskTyped' /\ Hurt'
    BY Zenon, <1>20, Setback DEF Typed, CheckoutLost
  <2>3. site' \in SiteSet
    BY Zenon, <1>20, SiteEdits DEF Typed, CheckoutLost
  <2>4. Typed'
    BY Zenon, <1>20, <2>1, <2>3 DEF Typed, CallSet, CheckoutLost
  <2>5. Leased'
    BY Zenon, <1>20 DEF Typed, Leased, CallSet, Stops, Building, SiteSet,
       CheckoutLost
  <2>6. Staged'
    BY Zenon, <1>20 DEF Typed, Leased, Staged, CallSet, Building, SiteSet,
       CheckoutLost
  <2>7. Blamed'
    BY Zenon, <1>20, <2>1 DEF Typed, Leased, Staged, Blamed, Hurt, CallSet, SiteSet,
       Building, CheckoutLost
  <2> QED
    BY Zenon, <2>4, <2>5, <2>6, <2>7
<1>21. CASE AllAnswered \/ UNCHANGED cc_vars
  BY ZenonT(60), <1>21 DEF AllAnswered, cc_vars, Typed, RiskTyped, Leased, Staged, Blamed,
     Hurt
<1> QED
  BY Zenon, <1>1, <1>2, <1>3, <1>4, <1>5, <1>6, <1>7, <1>8, <1>9, <1>10, <1>11,
     <1>12, <1>13, <1>14, <1>15, <1>16, <1>17, <1>18, <1>19, <1>20, <1>21 DEF
     CcNext, AskerSteps

(* A sound state has one builder, a whole published run and a mishap behind *)
(* every `creation_uncertain`.                                              *)
LEMMA SoundSafe == Sound => CcTypeOK /\ BuildsAlone /\ PublishedIsWhole /\ UncertainIsReal
<1> SUFFICES ASSUME Sound
             PROVE  CcTypeOK /\ BuildsAlone /\ PublishedIsWhole /\ UncertainIsReal
  BY Zenon
<1>1. CcTypeOK
  BY Zenon DEF Sound, Typed, CcTypeOK, SiteSet, CallSet
<1>2. Cardinality({c \in Askers : asker[c].at \in Building}) <= 1
  <2> DEFINE Builders == {c \in Askers : asker[c].at \in Building}
  <2>1. \A c, d \in Builders : c = d
    BY Zenon DEF Sound, Leased
  <2>2. CASE Builders = {}
    BY SMTT(60), <2>2, FS_EmptySet
  <2>3. ASSUME NEW c \in Builders PROVE Cardinality(Builders) <= 1
    <3>1. Builders = {c}
      BY Zenon, <2>1
    <3> QED
      BY SMTT(60), <3>1, FS_Singleton
  <2> QED
    BY Zenon, <2>2, <2>3
<1>3. BuildsAlone
  BY Zenon, <1>2 DEF Sound, Leased, BuildsAlone
<1>4. PublishedIsWhole
  BY Zenon DEF Sound, Staged, PublishedIsWhole
<1>5. UncertainIsReal
  BY Zenon DEF Sound, Blamed, Hurt, UncertainIsReal
<1> QED
  BY Zenon, <1>1, <1>3, <1>4, <1>5

(* A call turns to its answer only from a settled run or beside a ready     *)
(* supervisor, and only for the request the key is reserved for.            *)
LEMMA AnswerStep == Sound /\ [CcNext]_cc_vars => AnswerIsSupervised
<1> SUFFICES ASSUME Sound, [CcNext]_cc_vars, NEW c \in Askers,
                    asker[c].at # "answer", asker'[c].at = "answer"
             PROVE  slot = asker[c].want /\ (shown = "over" \/ boot = "ready")
  BY Zenon DEF AnswerIsSupervised
<1>0. asker \in [Askers -> CallSet]
  BY Zenon DEF Sound, Typed
<1>1. PICK d \in Askers : ReadPublished(d) \/ Supervise(d) \/ Confirm(d)
  <2>1. asker' # asker
    BY Zenon
  <2>2. PICK d \in Askers : Ask(d) \/ AskerSteps(d) \/ AskerKilled(d)
    BY Zenon, <2>1 DEF CcNext, cc_vars, GitAdds, SupervisorBoots, SupervisorEnds, RunSettles,
       CheckoutLost, AllAnswered
  <2>3. ~Ask(d) /\ ~AskerKilled(d) /\ ~ReserveKey(d) /\ ~AwaitLease(d)
    BY <1>0, SMTT(60) DEF Ask, AskerKilled, ReserveKey, AwaitLease, To, Says, CallSet
  <2>4. ~StartGit(d) /\ ~GitReturns(d) /\ ~CheckStage(d) /\ ~StageRun(d)
    BY <1>0, SMTT(60) DEF StartGit, GitReturns, CheckStage, StageRun, To, Says, CallSet
  <2>5. ~StageNode(d) /\ ~Publish(d) /\ ~VerifyLive(d) /\ ~Answered(d)
    BY <1>0, SMTT(60) DEF StageNode, Publish, VerifyLive, Answered, To, Says, CallSet
  <2> QED
    BY Zenon, <2>2, <2>3, <2>4, <2>5 DEF AskerSteps
<1>2. d = c
  BY Zenon, <1>1 DEF ReadPublished, Supervise, Confirm, To, Says, Sound, Typed
<1> QED
  BY SMTT(60), <1>1, <1>2 DEF ReadPublished, Supervise, Confirm, To, Says, Sound, Typed, Leased,
     CallSet, Building

(* Only a call that saw no published run has Git make the checkout.         *)
LEMMA RevivalStep == Sound /\ [CcNext]_cc_vars => NoRevival
<1> SUFFICES ASSUME Sound, [CcNext]_cc_vars, shown # "none", ~site.checkout
             PROVE  ~site'.checkout /\ ~site'.adding
  BY Zenon DEF NoRevival
<1>1. ~site.adding /\ site \in SiteSet
  BY Zenon DEF Sound, Typed, Staged
<1>2. site' = site \/ RunSettles
  BY Zenon, <1>1 DEF CcNext, cc_vars, AskerSteps, Ask, ReserveKey, AwaitLease, StartGit, GitReturns,
     CheckStage, StageRun, StageNode, Publish, ReadPublished, VerifyLive, Supervise, Confirm,
     Answered, AskerKilled, GitAdds, SupervisorBoots, SupervisorEnds, CheckoutLost, AllAnswered
<1> QED
  BY SMTT(60), <1>1, <1>2 DEF RunSettles

(* Calls with one key, of any callers, for any requests, killed anywhere and *)
(* repeated, build one run between them: the lease of run/caller_create.rs   *)
(* admits one builder, a published run is whole and is never made again, the *)
(* answer is given beside a ready supervisor, and `creation_uncertain` has a *)
(* mishap behind it.                                                         *)
THEOREM CallerCreationSafe == CcSpec => CallerCreatesOnce
<1> DEFINE Step == /\ CcTypeOK' /\ BuildsAlone' /\ PublishedIsWhole' /\ UncertainIsReal'
                   /\ AnswerIsSupervised /\ NoRevival
<1>1. ASSUME Sound, [CcNext]_cc_vars PROVE Step
  <2>1. Sound'
    BY Zenon, <1>1, SoundStep
  <2>2. CcTypeOK' /\ BuildsAlone' /\ PublishedIsWhole' /\ UncertainIsReal'
    BY <2>1, SoundSafe, PTL
  <2> QED
    BY Zenon, <1>1, <2>2, AnswerStep, RevivalStep
<1>2. CcInit => Sound
  BY Zenon, SoundInit
<1>3. Sound /\ [CcNext]_cc_vars => Sound'
  BY Zenon, SoundStep
<1> QED
  BY <1>1, <1>2, <1>3, PTL DEF CcSpec, CallerCreatesOnce

===============================================================================
