------------------------------- MODULE MCMerge ------------------------------
(***************************************************************************)
(* A run with one worker, its drivers and its supervisor.                  *)
(***************************************************************************)
EXTENDS Merge

CONSTANTS n1, d1, d2

MCNodeIds == {n1}
MCDrivers == {d1, d2}
MCSymmetry == Permutations(MCDrivers)
Run(resident) == [source_branch |-> 9, agent_owner |-> "taskfleet",
                  resident |-> resident]
MCCreated == {Run(FALSE)}
MCEither == {Run(FALSE), Run(TRUE)}
MCRootData == [branch |-> 1, base_sha |-> 0, agent_pid |-> 1,
               source_branch |-> 9, session |-> 1]

(* Two drivers that a resident lock does not serialise are bounded more    *)
(* tightly: no crash, and no commit while they are at work.                *)
RaceBounds ==
    is_resident \/ (crashes = 0 /\ Range(git.worker) \cap 2..MaxCommits = {})

=============================================================================
