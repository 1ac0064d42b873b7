---------------------------- MODULE MCCreation ------------------------------
(***************************************************************************)
(* How runs come into being: creations under one idempotency key, the gate *)
(* that an upgrade closes to them, and creations whose agent is the caller's *)
(* own.  The gate knows of a creation only that it is admitted and staged, so *)
(* one of the three is at work in a behaviour and the others are at rest, in *)
(* a state they do not leave.                                              *)
(***************************************************************************)
EXTENDS Create, Admission, CallerCreate

TwoCreators == {"a", "b"}
FiveIds == 1..5
Scenarios == {[kills |-> 2, errs |-> 0], [kills |-> 0, errs |-> 2]}

TwoBirths == {1, 2}
Scenes == {[kill |-> 2, fail |-> 0, call |-> 2], [kill |-> 0, fail |-> 1, call |-> 3]}

ThreeAskers == {"x", "y", "z"}
TwoRequests == {"r1", "r2"}

Risk(calls, kill, fail, settle, lost) ==
  [calls |-> calls, kill |-> kill, fail |-> fail, settle |-> settle, lost |-> lost,
   hurt |-> FALSE]

NoRisk == Risk(0, 0, 0, 0, 0)
SomeRisks ==
  {NoRisk, Risk(3, 2, 0, 0, 0), Risk(3, 1, 0, 1, 0), Risk(3, 1, 1, 0, 0),
   Risk(2, 0, 0, 1, 1), Risk(2, 1, 0, 0, 1)}

-----------------------------------------------------------------------------

\* A key that belongs to somebody else, and calls that were told so.
CreateAtRest ==
    /\ key = [NoKey EXCEPT !.run = 1, !.by = "caller"] /\ runs = [i \in Ids |-> Blank]
    /\ maker = [c \in Creators |-> [Away EXCEPT !.out = "conflict"]]
    /\ child = FALSE /\ chance = [kills |-> 0, errs |-> 0]

\* An admission that somebody inhibited by hand.
AdmissionAtRest ==
    /\ births = [i \in Creations |-> Unborn] /\ elder = [live |-> FALSE, schema |-> 1]
    /\ upgrade = NoUpgrade /\ activation = "none" /\ inhibited = "odd" /\ install = "old"
    /\ mishap = [kill |-> 0, fail |-> 0, call |-> 0]

CallerCreateAtRest == CcInit /\ risk = NoRisk

VARIABLE at_work   \* which of the components this behaviour is about

CreationInit ==
    \/ at_work = "create" /\ CreateInit
        /\ AdmissionAtRest /\ CallerCreateAtRest
    \/ at_work = "admission" /\ AdmInit
        /\ CreateAtRest /\ CallerCreateAtRest
    \/ at_work = "caller" /\ CcInit
        /\ CreateAtRest /\ AdmissionAtRest

CreationNext ==
    /\ UNCHANGED at_work
    /\ \/ at_work = "create" /\ CreateNext
          /\ UNCHANGED <<adm_vars, cc_vars>>
       \/ at_work = "admission" /\ AdmNext
          /\ UNCHANGED <<create_vars, cc_vars>>
       \/ at_work = "caller" /\ CcNext
          /\ UNCHANGED <<create_vars, adm_vars>>

suite_vars == <<create_vars, adm_vars, cc_vars, at_work>>

CreationSpec ==
    /\ CreationInit /\ [][CreationNext]_suite_vars
    /\ CreateFairness /\ AdmFairness /\ CcFairness

\* A creation that is repeated gets its run, a worker that was started for
\* nothing ends, and every upgrade and every call of a caller returns.
CreationEnds == Converges /\ OrphanWorkerEnds /\ UpgradeEnds /\ CallsReturn

=============================================================================
