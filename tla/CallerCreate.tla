---------------------------- MODULE CallerCreate ----------------------------
(***************************************************************************)
(* `run create` of a caller-owned run.  Every call carries an idempotency  *)
(* key.  The first reserves it together with the plan of its run; a later  *)
(* one waits for the materializer lease of the reserved run and continues  *)
(* from whatever it finds: the Git worktree, the staged run, the published *)
(* run.  Nothing is ever undone: what cannot be told apart from somebody   *)
(* else's work is reported as `creation_uncertain` and preserved.          *)
(***************************************************************************)
EXTENDS Naturals, FiniteSets

CONSTANTS
  Askers,    \* CLI processes that create with the same key
  Requests,  \* what they ask for (repository, branch, title, task)
  Risks      \* scenarios: calls and faults

ASSUME CallerCreateAssumption ==
  /\ Risks \subseteq [calls : Nat, kill : Nat, fail : Nat, settle : Nat, lost : Nat,
                      hurt : {FALSE}]
  /\ "git" \notin Askers /\ "none" \notin Requests

VARIABLES
  slot,    \* the reservation of the key: the request its plan was made for
  lease,   \* processes that hold the lease of the reserved run
  site,    \* the planned branch and checkout
  staged,  \* the private run directory: "none", "dir", "run" or "node"
  shown,   \* the published run: "none", "live" or "over"
  boot,    \* its supervisor: "none", "booting" or "ready"
  asker,   \* the calls
  risk     \* what is left of the scenario, and whether anything happened

cc_vars == <<slot, lease, site, staged, shown, boot, asker, risk>>

Unasked == [at |-> "idle", want |-> "none", said |-> "none"]

CcInit ==
  /\ slot = "none" /\ lease = {}
  /\ site = [branch |-> FALSE, checkout |-> FALSE, adding |-> FALSE]
  /\ staged = "none" /\ shown = "none" /\ boot = "none"
  /\ asker = [c \in Askers |-> Unasked]
  /\ risk \in Risks

-----------------------------------------------------------------------------
Risky(what) ==
  /\ risk[what] > 0
  /\ risk' = [risk EXCEPT ![what] = @ - 1, !.hurt = IF what = "calls" THEN @ ELSE TRUE]

To(c, at) == asker' = [asker EXCEPT ![c].at = at]

\* The call returns; its descriptors close.
Says(c, answer) ==
  /\ asker' = [asker EXCEPT ![c] = [at |-> "idle", want |-> asker[c].want, said |-> answer]]
  /\ lease' = lease \ {c}

\* Arguments, the private parents of the state root and admission come before
\* the reservation, and leave nothing behind when they fail.
Ask(c) ==
  /\ asker[c].at = "idle" /\ Risky("calls")
  /\ \E r \in Requests : asker' = [asker EXCEPT ![c] = [at |-> "key", want |-> r, said |-> "none"]]
  /\ UNCHANGED <<slot, lease, site, staged, shown, boot>>

\* The winner reserves with the lease of its own run already held.  Another
\* request under the key is a conflict.
ReserveKey(c) ==
  /\ asker[c].at = "key"
  /\ \/ /\ slot = "none"
        /\ slot' = asker[c].want /\ lease' = {c}
        /\ To(c, "git")
     \/ /\ slot = asker[c].want /\ To(c, "wait")
        /\ UNCHANGED <<slot, lease>>
     \/ /\ slot \notin {"none", asker[c].want} /\ Says(c, "conflict")
        /\ UNCHANGED slot
  /\ UNCHANGED <<site, staged, shown, boot, risk>>

\* A blocking flock: free once every process that inherited it is gone.
AwaitLease(c) ==
  /\ asker[c].at = "wait" /\ lease = {}
  /\ lease' = {c}
  /\ To(c, "git")
  /\ UNCHANGED <<slot, site, staged, shown, boot, risk>>

\* The planned checkout, registered, on the planned branch.
verify_checkout == site.checkout /\ site.branch /\ ~site.adding

\* Faulty variant: a missing checkout is always made.
StartGit_always(c) ==
  /\ asker[c].at = "git"
  /\ \/ /\ site.checkout /\ To(c, IF shown # "none" THEN "read" ELSE "check")
        /\ UNCHANGED <<lease, site>>
     \/ /\ ~site.checkout /\ ~site.branch /\ ~site.adding
        /\ site' = [site EXCEPT !.adding = TRUE, !.branch = TRUE]
        /\ lease' = lease \cup {"git"} /\ To(c, "adding")
     \/ ~site.checkout /\ site.branch /\ Says(c, "uncertain") /\ UNCHANGED site
  /\ UNCHANGED <<slot, staged, shown, boot, risk>>

\* A published run is left alone.  A branch without its checkout may be
\* half of a Git operation.
StartGit(c) ==
  /\ asker[c].at = "git"
  /\ \/ shown # "none" /\ To(c, "read") /\ UNCHANGED <<lease, site>>
     \/ shown = "none" /\ site.checkout /\ To(c, "check") /\ UNCHANGED <<lease, site>>
     \/ /\ shown = "none" /\ ~site.checkout /\ ~site.branch
        /\ site' = [site EXCEPT !.adding = TRUE, !.branch = TRUE]
        /\ lease' = lease \cup {"git"} /\ To(c, "adding")
     \/ /\ shown = "none" /\ ~site.checkout /\ site.branch
        /\ Says(c, "uncertain") /\ UNCHANGED site
  /\ UNCHANGED <<slot, staged, shown, boot, risk>>

\* `git worktree add` inherits the lease and may outlive its parent.
GitAdds ==
  /\ site.adding
  /\ \/ site' = [site EXCEPT !.adding = FALSE, !.checkout = TRUE] /\ UNCHANGED risk
     \/ site' = [site EXCEPT !.adding = FALSE] /\ Risky("fail")
  /\ lease' = lease \ {"git"}
  /\ UNCHANGED <<slot, staged, shown, boot, asker>>

GitReturns(c) ==
  /\ asker[c].at = "adding" /\ ~site.adding
  /\ \/ site.checkout /\ To(c, "check") /\ UNCHANGED lease
     \/ ~site.checkout /\ Says(c, "uncertain")
  /\ UNCHANGED <<slot, site, staged, shown, boot, risk>>

\* A staged run is continued, a stage without run.created is preserved.
CheckStage(c) ==
  /\ asker[c].at = "check"
  /\ \/ ~verify_checkout /\ Says(c, "uncertain") /\ UNCHANGED staged
     \/ /\ verify_checkout /\ staged = "none"
        /\ staged' = "dir" /\ To(c, "run") /\ UNCHANGED lease
     \/ verify_checkout /\ staged = "dir" /\ Says(c, "uncertain") /\ UNCHANGED staged
     \/ /\ verify_checkout /\ staged = "run"
        /\ To(c, "node") /\ UNCHANGED <<staged, lease>>
     \/ /\ verify_checkout /\ staged = "node"
        /\ To(c, "publish") /\ UNCHANGED <<staged, lease>>
  /\ UNCHANGED <<slot, site, shown, boot, risk>>

\* The locks of the fence, their identities, and run.created naming them.
StageRun(c) ==
  /\ asker[c].at = "run"
  /\ \/ staged' = "run" /\ To(c, "node") /\ UNCHANGED <<lease, risk>>
     \/ Risky("fail") /\ Says(c, "error") /\ UNCHANGED staged
  /\ UNCHANGED <<slot, site, shown, boot>>

StageNode(c) ==
  /\ asker[c].at = "node"
  /\ \/ staged' = "node" /\ To(c, "publish") /\ UNCHANGED <<lease, risk>>
     \/ Risky("fail") /\ Says(c, "error") /\ UNCHANGED staged
  /\ UNCHANGED <<slot, site, shown, boot>>

\* One rename of the whole directory.
Publish(c) ==
  /\ asker[c].at = "publish"
  /\ \/ /\ verify_checkout
        /\ shown' = "live" /\ To(c, "read") /\ UNCHANGED lease
     \/ ~verify_checkout /\ Says(c, "uncertain") /\ UNCHANGED shown
  /\ UNCHANGED <<slot, site, staged, boot, risk>>

\* The manifest, the node and the fence match the reservation.  A settled
\* run is answered as it is.
ReadPublished(c) ==
  /\ asker[c].at = "read"
  /\ To(c, IF shown = "over" THEN "answer" ELSE "verify")
  /\ UNCHANGED <<slot, lease, site, staged, shown, boot, risk>>

\* The checkout of a live run is verified again.
VerifyLive(c) ==
  /\ asker[c].at = "verify"
  /\ \/ verify_checkout /\ To(c, "supervise") /\ UNCHANGED lease
     \/ ~verify_checkout /\ Says(c, "uncertain")
  /\ UNCHANGED <<slot, site, staged, shown, boot, risk>>

\* A live recorded supervisor must have said it is ready.
Supervise(c) ==
  /\ asker[c].at = "supervise"
  /\ \/ boot = "ready" /\ To(c, "answer") /\ UNCHANGED <<lease, boot>>
     \/ boot = "booting" /\ Says(c, "unconfirmed") /\ UNCHANGED boot
     \/ boot = "none" /\ boot' = "booting" /\ To(c, "await") /\ UNCHANGED lease
  /\ UNCHANGED <<slot, site, staged, shown, risk>>

Confirm(c) ==
  /\ asker[c].at = "await"
  /\ \/ boot = "ready" /\ To(c, "answer") /\ UNCHANGED lease
     \/ boot = "none" /\ Says(c, "unconfirmed")
  /\ UNCHANGED <<slot, site, staged, shown, boot, risk>>

Answered(c) ==
  /\ asker[c].at = "answer" /\ Says(c, "run")
  /\ UNCHANGED <<slot, site, staged, shown, boot, risk>>

-----------------------------------------------------------------------------
(* The supervisor, settlement, and a kill of the caller's process.         *)

SupervisorBoots ==
  /\ boot = "booting"
  /\ \/ boot' = "ready" /\ UNCHANGED risk
     \/ boot' = "none" /\ Risky("fail")
  /\ UNCHANGED <<slot, lease, site, staged, shown, asker>>

\* A supervisor leaves a settled run, and may be killed before.
SupervisorEnds ==
  /\ boot = "ready"
  /\ \/ shown = "over" /\ UNCHANGED risk
     \/ shown = "live" /\ Risky("lost")
  /\ boot' = "none"
  /\ UNCHANGED <<slot, lease, site, staged, shown, asker>>

\* The run is merged or discarded, and its checkout cleaned.
RunSettles ==
  /\ shown = "live" /\ Risky("settle")
  /\ shown' = "over"
  /\ site' \in {site, [branch |-> FALSE, checkout |-> FALSE, adding |-> FALSE]}
  /\ UNCHANGED <<slot, lease, staged, boot, asker>>

\* Somebody removes the checkout of a live run or an unpublished one.
CheckoutLost ==
  /\ site.checkout /\ Risky("lost")
  /\ site' = [site EXCEPT !.checkout = FALSE]
  /\ UNCHANGED <<slot, lease, staged, shown, boot, asker>>

AskerKilled(c) ==
  /\ asker[c].at # "idle" /\ Risky("kill")
  /\ Says(c, "killed")
  /\ UNCHANGED <<slot, site, staged, shown, boot>>

AllAnswered ==
  /\ \A c \in Askers : asker[c].at = "idle"
  /\ UNCHANGED cc_vars

-----------------------------------------------------------------------------
AskerSteps(c) ==
  \/ ReserveKey(c) \/ AwaitLease(c) \/ StartGit(c) \/ GitReturns(c)
  \/ CheckStage(c) \/ StageRun(c) \/ StageNode(c) \/ Publish(c)
  \/ ReadPublished(c) \/ VerifyLive(c) \/ Supervise(c) \/ Confirm(c) \/ Answered(c)

CcNext ==
  \/ \E c \in Askers : Ask(c) \/ AskerSteps(c) \/ AskerKilled(c)
  \/ GitAdds \/ SupervisorBoots \/ SupervisorEnds
  \/ RunSettles \/ CheckoutLost \/ AllAnswered

CcFairness ==
  /\ \A c \in Askers : WF_cc_vars(AskerSteps(c))
  /\ WF_cc_vars(GitAdds) /\ WF_cc_vars(SupervisorBoots)

CcSpec == CcInit /\ [][CcNext]_cc_vars /\ CcFairness

-----------------------------------------------------------------------------
(* Properties.                                                             *)

\* The files a caller-owned creation moves through: reservation, lease, Git
\* worktree, stage and published run (run/caller_create.rs).
CcTypeOK ==
  /\ slot \in Requests \cup {"none"}
  /\ lease \subseteq Askers \cup {"git"}
  /\ site \in [branch : BOOLEAN, checkout : BOOLEAN, adding : BOOLEAN]
  /\ staged \in {"none", "dir", "run", "node"}
  /\ shown \in {"none", "live", "over"} /\ boot \in {"none", "booting", "ready"}
  /\ \A c \in Askers : asker[c].want \in Requests \cup {"none"}

\* Past the reservation.
Building == {"git", "adding", "check", "run", "node", "publish", "read", "verify",
             "supervise", "await"}

\* At most one call works on the reserved run, and none besides an orphaned
\* `git worktree add` of a killed one (the lease is inherited by Git).
BuildsAlone ==
  /\ Cardinality({c \in Askers : asker[c].at \in Building}) <= 1
  /\ site.adding => \A c \in Askers : asker[c].at \in Building => asker[c].at = "adding"

\* A published run has its node and the fence its run.created names, however
\* many calls were killed on the way.
PublishedIsWhole ==
  shown # "none" => staged = "node" /\ slot # "none"

\* `creation_uncertain` is said only when a call was killed, a step failed or
\* the checkout was taken away or the run settled: concurrent calls alone
\* never cause it.
UncertainIsReal ==
  \A c \in Askers : asker[c].said = "uncertain" => risk.hurt

\* A call decides to answer with the run only when it asked for that very
\* run and the run is settled or has a supervisor that said it is ready.
AnswerIsSupervised ==
  \A c \in Askers : asker[c].at # "answer" /\ asker'[c].at = "answer" =>
    slot = asker[c].want /\ (shown = "over" \/ boot = "ready")

\* Once published, a run's checkout is never made again: a lost reply retried
\* after settlement and cleanup revives nothing.
NoRevival ==
  shown # "none" /\ ~site.checkout => ~site'.checkout /\ ~site'.adding

\* Every call returns: callers being few, again and again nobody is in one.
CallsReturn == []<>(\A c \in Askers : asker[c].at = "idle")

\* Calls with one key, killed anywhere and repeated, build one run between
\* them, answer only when it is whole and supervised, and never bring a
\* settled one back.
CallerCreatesOnce ==
  [][ /\ CcTypeOK' /\ BuildsAlone' /\ PublishedIsWhole' /\ UncertainIsReal'
      /\ AnswerIsSupervised /\ NoRevival ]_cc_vars

=============================================================================
