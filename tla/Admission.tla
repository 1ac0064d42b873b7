----------------------------- MODULE Admission -----------------------------
(***************************************************************************)
(* The admission gate between run creation and `run upgrade-lock`          *)
(* (run/admission.rs, run/upgrade_survey.rs): the shared and exclusive     *)
(* flock, the durable inhibit marker, the survey of published runs and     *)
(* unpublished creations, moving proven-abandoned creations aside, the     *)
(* activation program that inherits the gate, timeouts, kills and          *)
(* recovery.                                                               *)
(*                                                                         *)
(* A creation is one `run create`.  The launcher pane it opened belongs to *)
(* tmux and outlives it, holding neither the gate nor a lease.             *)
(***************************************************************************)
EXTENDS Integers, FiniteSets

CONSTANTS
  Creations,   \* run ids of creations that may start
  Old,         \* a run published before
  Mishaps      \* scenarios: kills, failures and operator calls still to come

ASSUME AdmissionAssumption == Old \notin Creations

VARIABLES
  births,     \* the creations
  elder,      \* the earlier run: whether it is live, and its state schema
  upgrade,    \* the `run upgrade-lock` process
  activation, \* the activation program
  inhibited,  \* the inhibit marker: "none", "ours" or a file of another form
  install,    \* the installation: "old", "torn" while being replaced, "new"
  mishap      \* what is left of the scenario

adm_vars == <<births, elder, upgrade, activation, inhibited, install, mishap>>

\* at: how far the files are; admitted: its process holds the gate shared;
\* pane: its launcher ("boot") or its worker behind a handshake ("live");
\* cut: an upgrade was killed between moving it and probing it again.
Unborn == [at |-> "none", admitted |-> FALSE, pane |-> "none", shake |-> FALSE,
           cut |-> FALSE]

\* at: where the process is; aside: creations still to be moved; moving: the
\* one just moved; told: its last answer.
NoUpgrade == [at |-> "idle", recover |-> FALSE, abandon |-> FALSE, allow |-> FALSE,
              schema |-> 1, aside |-> {}, moving |-> Old, told |-> "none"]

AdmInit ==
  /\ births = [i \in Creations |-> Unborn]
  /\ elder \in [live : BOOLEAN, schema : {1, 2}]
  /\ upgrade = NoUpgrade
  /\ activation = "none"
  /\ inhibited \in {"none", "odd"}
  /\ install = "old"
  /\ mishap \in Mishaps

Mishap(kind) ==
  mishap[kind] > 0 /\ mishap' = [mishap EXCEPT ![kind] = @ - 1]

-----------------------------------------------------------------------------
(* The gate.                                                               *)

SharedHeld == \E i \in Creations : births[i].admitted

\* The activation program inherits the descriptor of the flock.
ExclusiveHeld == upgrade.at # "idle" \/ activation # "none"

ensure_not_inhibited == inhibited = "none"

\* A creation holds the gate shared from before staging until it returns.
admit(i) ==
  /\ births[i].at = "none" /\ ~births[i].admitted
  /\ ~ExclusiveHeld /\ ensure_not_inhibited
  /\ births' = [births EXCEPT ![i].admitted = TRUE]
  /\ UNCHANGED <<elder, upgrade, activation, inhibited, install, mishap>>

Birth(i, new) ==
  /\ births' = [births EXCEPT ![i] = new]
  /\ UNCHANGED <<elder, upgrade, activation, inhibited, install>>

StageBirth(i) ==
  /\ births[i].admitted /\ births[i].at = "none"
  /\ Birth(i, [births[i] EXCEPT !.at = "staged", !.pane = "boot"])
  /\ UNCHANGED mishap

\* The handshake goes into the staging directory; it fails closed when that
\* path is gone.
Handshaken(i) ==
  /\ births[i].pane = "boot"
  /\ Birth(i, IF births[i].at = "staged"
              THEN [births[i] EXCEPT !.pane = "live", !.shake = TRUE]
              ELSE [births[i] EXCEPT !.pane = "none"])
  /\ UNCHANGED mishap

PublishRun(i) ==
  /\ births[i].admitted /\ births[i].at = "staged" /\ births[i].pane = "live"
  /\ Birth(i, [births[i] EXCEPT !.at = "pub", !.admitted = FALSE])
  /\ UNCHANGED mishap

\* A failing creation rolls back; a killed one leaves everything.
CreateFails(i) ==
  /\ births[i].admitted /\ Mishap("fail")
  /\ Birth(i, [Unborn EXCEPT !.at = "gone"])

CreateKilled(i) ==
  /\ births[i].admitted /\ births[i].at = "staged" /\ Mishap("kill")
  /\ Birth(i, [births[i] EXCEPT !.admitted = FALSE])

WorkerEnds(i) ==
  /\ births[i].pane = "live" /\ ~births[i].admitted
  /\ Birth(i, [births[i] EXCEPT !.pane = "none"])
  /\ UNCHANGED mishap

ElderEnds ==
  /\ elder.live
  /\ elder' = [elder EXCEPT !.live = FALSE]
  /\ UNCHANGED <<births, upgrade, activation, inhibited, install, mishap>>

-----------------------------------------------------------------------------
(* `run upgrade-lock`.                                                     *)

Upgrading(new) ==
  /\ upgrade' = new
  /\ UNCHANGED <<births, elder, activation, inhibited, install>>

Return(what) ==
  Upgrading([NoUpgrade EXCEPT !.told = what])

\* Waits for every holder of the gate, up to a deadline.
acquire_exclusive ==
  /\ upgrade.at = "idle" /\ ~SharedHeld /\ ~ExclusiveHeld
  /\ Mishap("call")
  /\ \E recover, abandon, allow \in BOOLEAN, schema \in {1, 2} :
       Upgrading([NoUpgrade EXCEPT !.at = "check", !.recover = recover,
                    !.abandon = abandon, !.allow = allow, !.schema = schema])

\* Recovery needs our own marker (and the operator's confirmation); anything
\* else needs no marker at all.
CheckMarker ==
  /\ upgrade.at = "check"
  /\ IF upgrade.recover <=> inhibited = "ours"
     THEN IF ensure_not_inhibited \/ upgrade.recover
          THEN Upgrading([upgrade EXCEPT !.at = "survey"])
          ELSE Return("inhibited")
     ELSE Return("inhibited")
  /\ UNCHANGED mishap

survey_staging == {i \in Creations : births[i].at = "staged"}

\* A published run counts while its status, its worker, its merge or its
\* supervisor is live.
survey_runs ==
  {i \in Creations : births[i].at = "pub" /\ births[i].pane = "live"}
    \cup (IF elder.live THEN {Old} ELSE {})

SchemaOf(r) == IF r = Old THEN elder.schema ELSE 1

\* A recorded or handshaken worker that is alive, or a held lock.
probe_staging(i) == births[i].shake /\ births[i].pane = "live"

\* What the survey found is acceptable under the operator's overrides.
accept ==
  /\ upgrade.abandon \/ survey_staging = {}
  /\ upgrade.allow \/ survey_runs = {}
  /\ survey_runs # {} =>
       upgrade.schema = 1 /\ \A r \in survey_runs : SchemaOf(r) = upgrade.schema
  /\ \A i \in survey_staging : ~probe_staging(i)

\* Survey and acceptance happen under the gate and change nothing.
Survey ==
  /\ upgrade.at = "survey"
  /\ IF accept
     THEN Upgrading([upgrade EXCEPT !.at = "mark", !.aside = survey_staging])
     ELSE Return("refused")
  /\ UNCHANGED mishap

\* The marker is durable before anything is moved or started.
inhibit ==
  /\ upgrade.at = "mark"
  /\ inhibited' = "ours"
  /\ upgrade' = [upgrade EXCEPT !.at = "move"]
  /\ UNCHANGED <<births, elder, activation, install, mishap>>

\* Rename the staging tree aside ...
MoveAside(i) ==
  /\ upgrade.at = "move" /\ i \in upgrade.aside
  /\ births' = [births EXCEPT ![i].at = "aside"]
  /\ upgrade' = [upgrade EXCEPT !.at = "probe", !.aside = @ \ {i}, !.moving = i]
  /\ UNCHANGED <<elder, activation, inhibited, install, mishap>>

\* Faulty variant: nobody looks again after the rename.
Reprobe_never(i) ==
  /\ upgrade.at = "probe" /\ upgrade.moving = i
  /\ Upgrading([upgrade EXCEPT !.at = "move", !.moving = Old])
  /\ UNCHANGED mishap

\* ... and probe the moved tree again: a handshake may have landed between
\* the first probe and the rename.  Then the move is undone.
Reprobe(i) ==
  /\ upgrade.at = "probe" /\ upgrade.moving = i
  /\ IF probe_staging(i)
     THEN /\ births' = [births EXCEPT ![i].at = "staged"]
          /\ upgrade' = [NoUpgrade EXCEPT !.told = "creation_live"]
          /\ UNCHANGED <<elder, activation, inhibited, install>>
     ELSE Upgrading([upgrade EXCEPT !.at = "move", !.moving = Old])
  /\ UNCHANGED mishap

\* The receipt is written and the activation program started; either may
\* fail, with the marker in place.
Activate ==
  /\ upgrade.at = "move" /\ upgrade.aside = {}
  /\ \/ /\ activation' = "running" /\ install' = "torn"
        /\ upgrade' = [upgrade EXCEPT !.at = "watch"]
        /\ UNCHANGED <<births, elder, inhibited, mishap>>
     \/ Mishap("fail") /\ Return("failed")

\* The program ends well, or badly: then it may have rolled back or not.
ActivationEnds ==
  /\ activation = "running"
  /\ \/ activation' = "done" /\ install' = "new" /\ UNCHANGED mishap
     \/ Mishap("fail") /\ activation' = "failed" /\ install' \in {"old", "torn"}
  /\ UNCHANGED <<births, elder, upgrade, inhibited>>

\* Nobody waits for a program whose parent was killed.
ActivationGone ==
  /\ activation \in {"done", "failed"} /\ upgrade.at # "watch"
  /\ activation' = "none"
  /\ UNCHANGED <<births, elder, upgrade, inhibited, install, mishap>>

\* The program is awaited up to its timeout and then killed.
Watch ==
  /\ upgrade.at = "watch"
  /\ upgrade' = IF activation = "done" THEN [upgrade EXCEPT !.at = "clear"]
                ELSE [NoUpgrade EXCEPT !.told = "failed"]
  /\ activation' = "none"
  /\ UNCHANGED <<births, elder, inhibited, install, mishap>>

clear_inhibit ==
  /\ upgrade.at = "clear"
  /\ inhibited' = IF inhibited = "ours" THEN "none" ELSE inhibited
  /\ upgrade' = [NoUpgrade EXCEPT !.told = "done"]
  /\ UNCHANGED <<births, elder, activation, install, mishap>>

UpgradeKilled ==
  /\ upgrade.at # "idle" /\ Mishap("kill")
  /\ upgrade' = NoUpgrade
  /\ births' = [i \in Creations |-> [births[i] EXCEPT
                  !.cut = @ \/ upgrade.moving = i]]
  /\ UNCHANGED <<elder, activation, inhibited, install>>

Quiet == upgrade.at = "idle" /\ activation = "none" /\ ~SharedHeld /\ UNCHANGED adm_vars

-----------------------------------------------------------------------------
UpgradeStep ==
  \/ CheckMarker \/ Survey \/ inhibit \/ Activate \/ Watch \/ clear_inhibit
  \/ \E i \in Creations : MoveAside(i) \/ Reprobe(i)

AdmNext ==
  \/ \E i \in Creations :
       admit(i) \/ StageBirth(i) \/ Handshaken(i) \/ PublishRun(i)
         \/ CreateFails(i) \/ CreateKilled(i) \/ WorkerEnds(i)
  \/ ElderEnds \/ acquire_exclusive \/ UpgradeStep
  \/ ActivationEnds \/ ActivationGone \/ UpgradeKilled \/ Quiet

\* A running upgrade takes its next step; nothing is assumed of the
\* activation program.
AdmFairness == WF_adm_vars(UpgradeStep)

AdmSpec == AdmInit /\ [][AdmNext]_adm_vars /\ AdmFairness

-----------------------------------------------------------------------------
\* The type of the state; what is to be moved aside is still in staging.
AdmTypeOK ==
  /\ births \in [Creations -> [at : {"none", "staged", "pub", "aside", "gone"},
                               admitted : BOOLEAN, pane : {"none", "boot", "live"},
                               shake : BOOLEAN, cut : BOOLEAN]]
  /\ elder \in [live : BOOLEAN, schema : {1, 2}]
  /\ upgrade.at \in {"idle", "check", "survey", "mark", "move", "probe", "watch", "clear"}
  /\ upgrade.aside \subseteq {i \in Creations : births[i].at = "staged"}
  /\ activation \in {"none", "running", "done", "failed"}
  /\ inhibited \in {"none", "ours", "odd"}
  /\ install \in {"old", "torn", "new"}

\* While the activation program runs no creation is in flight, even if the
\* CLI that started it was killed (admission.rs: "killing the CLI parent
\* cannot silently unlock while its activation process still runs").
ActivationAlone == activation = "running" => ~SharedHeld

\* Two activation programs never run at once: a recovery waits for the
\* program of an upgrade whose CLI was killed.
OneActivation ==
  upgrade.at = "move" /\ upgrade'.at = "watch" => activation = "none"

\* A creation is never admitted onto a half-replaced installation: after a
\* failure, a timeout or a kill the marker refuses it until an activation
\* has succeeded.
AdmittedOnWhole == SharedHeld => install # "torn"

\* A creation moved aside has no live worker: a handshake either was seen by
\* one of the two probes or failed closed on the missing path.  The one way
\* around it is a kill between the rename and the second probe.
AbandonedIsDead ==
  \A i \in Creations :
    births[i].at = "aside" /\ upgrade.at # "probe" /\ ~births[i].cut =>
      births[i].pane # "live"

\* The installation is replaced under a live run only within one state
\* schema, the running binary's, that the operator declared.
LiveRunsFit ==
  activation = "running" => \A r \in survey_runs : SchemaOf(r) = 1

\* An upgrade that began comes to an end, whatever its activation program
\* does: the timeout bounds it.
UpgradeEnds == upgrade.at # "idle" ~> upgrade.at = "idle"

\* An upgrade that answers success leaves the new installation whole and,
\* unless the marker is another program's, admission open.
DoneMeansNew ==
  upgrade.at = "clear" /\ upgrade'.told = "done" => install' = "new" /\ inhibited' # "ours"

\* The installation is replaced alone: no creation in flight, no second
\* activation, no live run of another schema; and what was moved aside for it
\* was dead. Kills of the CLI at any point included.
UpgradesAlone ==
  [][ /\ AdmTypeOK' /\ ActivationAlone' /\ AdmittedOnWhole' /\ AbandonedIsDead'
      /\ LiveRunsFit' /\ OneActivation /\ DoneMeansNew ]_adm_vars

=============================================================================
