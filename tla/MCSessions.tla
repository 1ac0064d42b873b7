---------------------------- MODULE MCSessions ------------------------------
(***************************************************************************)
(* The two kinds of session that outlive one launch: a resident node with  *)
(* its rounds, and a caller-owned Pi with its writer fence.  No run is both, *)
(* so one of them is at work in a behaviour and the other is at rest, in a *)
(* state it does not leave.                                                *)
(***************************************************************************)
EXTENDS Resident, Settlement

TwoClients == {"c1", "c2"}
ThreeLaunches == 1..3
AllVerbs == {"message", "land", "cancel", "merge"}

Lot(c, k, f, l, m) == [calls |-> c, kill |-> k, fail |-> f, lose |-> l, move |-> m]

Lots == {Lot(2, 1, 0, 0, 0), Lot(1, 0, 1, 1, 0), Lot(1, 0, 1, 0, 1), Lot(1, 1, 0, 0, 1)}

TwoOperators == {"p", "q"}
OneKey == {"k"}
AllOps == {"merge", "salvage", "cancel", "discard"}

Trial(calls, launch, kill, crash, move, stray, bad) ==
  [calls |-> calls, launch |-> launch, kill |-> kill, crash |-> crash,
   move |-> move, stray |-> stray, bad |-> bad]

NoTrial == Trial(0, 0, 0, 0, 0, 0, 0)
SomeTrials ==
  {NoTrial, Trial(2, 1, 1, 0, 0, 0, 0), Trial(2, 1, 0, 1, 0, 0, 0), Trial(1, 1, 0, 0, 1, 0, 1),
   Trial(1, 2, 0, 0, 0, 0, 0), Trial(2, 0, 1, 0, 0, 0, 1), Trial(2, 0, 0, 0, 0, 1, 1),
   Trial(1, 1, 0, 0, 0, 1, 0)}

-----------------------------------------------------------------------------

\* A resident that was settled and removed.
ResidentAtRest ==
    /\ node = [FreshNode EXCEPT !.st = "done"]
    /\ wtree = [there |-> FALSE, dirty |-> FALSE, rebasing |-> FALSE,
                ahead |-> FALSE, behind |-> FALSE]
    /\ proc = [l \in Launches |-> IF l = 1 THEN [a |-> 0, st |-> "gone"] ELSE Unlaunched]
    /\ op = [c \in Clients |-> Resting] /\ holder = "none"
    /\ tick = [at |-> "idle", round |-> 0] /\ lot = Lot(0, 0, 0, 0, 0) /\ orphan = FALSE

SettlementAtRest == SetInit /\ trial = NoTrial

VARIABLE at_work   \* which of the components this behaviour is about

SessionsInit ==
    \/ at_work = "resident" /\ ResInit
        /\ SettlementAtRest
    \/ at_work = "settlement" /\ SetInit
        /\ ResidentAtRest

SessionsNext ==
    /\ UNCHANGED at_work
    /\ \/ at_work = "resident" /\ ResNext
          /\ UNCHANGED set_vars
       \/ at_work = "settlement" /\ SetNext
          /\ UNCHANGED res_vars

suite_vars == <<res_vars, set_vars, at_work>>

SessionsSpec ==
    /\ SessionsInit /\ [][SessionsNext]_suite_vars
    /\ ResFairness /\ SetFairness

\* No session is left hanging: verbs return, an idle round and a worker nobody
\* recorded are dealt with, a merge whose driver died is resolved and its
\* checkout removed.
SessionsResolve ==
    /\ VerbsReturn /\ IdleIsSettled /\ StrandedEnds
    /\ PendingResolves /\ MergedIsCleaned

=============================================================================
