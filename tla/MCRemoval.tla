----------------------------- MODULE MCRemoval ------------------------------
(***************************************************************************)
(* What Taskfleet removes from the machine: the checkout, branch and pane  *)
(* of a node that ended, the displays that take a pane's place, the work a *)
(* user gives up, and the skill files of another version.  The four do not *)
(* touch each other, so one of them is at work in a behaviour and the      *)
(* others are at rest, in a state they do not leave.                       *)
(***************************************************************************)
EXTENDS Teardown, Displays, Disposal, Skills

CONSTANTS c1, c2
TwoCommits == {c1, c2}
EveryEvidence == {"pi", "claude", "none"}

TwoRuns == 1 .. 2
OneAndTwo == [n \in 1 .. 2 |-> n]
SomeHindrances == {[user |-> 2, trouble |-> 0], [user |-> 1, trouble |-> 1]}

TwoNodes == {"n1", "n2"}
TwoReasons == {"r1", "r2"}
TwoHands == {"h1", "h2"}
Chore(verb, node, reason, force, sound) ==
    [verb |-> verb, node |-> node, reason |-> reason, force |-> force, sound |-> sound]
SomeChores ==
    {Chore("discard", AnyNode, "r1", TRUE, TRUE), Chore("discard", AnyNode, "r1", FALSE, TRUE),
     Chore("discard", "n1", "r2", FALSE, TRUE), Chore("salvage", AnyNode, "none", TRUE, TRUE),
     Chore("salvage", AnyNode, "none", TRUE, FALSE)}
Chance(calls, touches, kills, faults, nodes, status, live) ==
    [calls |-> calls, touches |-> touches, kills |-> kills, faults |-> faults,
     nodes |-> nodes, status |-> status, live |-> live]
SomeOdds ==
    {Chance(3, 0, 1, 1, {"n1"}, "failed", FALSE), Chance(1, 2, 0, 0, {"n1"}, "failed", FALSE),
     Chance(2, 1, 0, 1, {"n1"}, "failed", FALSE), Chance(1, 0, 0, 0, {"n1"}, "running", TRUE),
     Chance(3, 0, 0, 0, TwoNodes, "failed", FALSE)}

TwoVersions == {"v1", "v2"}
TwoBundles ==
    [v \in TwoVersions |->
       IF v = "v1" THEN [s \in {"keep", "old"} |-> IF s = "keep" THEN {"dag"} ELSE {}]
       ELSE [s \in {"keep"} |-> {}]]
Ask(force, name, agents) == [force |-> force, name |-> name, agents |-> agents]
SomeRequests ==
    {Ask(TRUE, "*", Layouts), Ask(FALSE, "*", Layouts), Ask(TRUE, "keep", Layouts),
     Ask(FALSE, "keep", {"claude"})}
SomeEdited ==
    {File("claude", "old", "body"), File("claude", "old", "dag"), File("pi", "old", "body"),
     File("claude", "keep", "body"), File("claude", "keep", "dag"), File("pi", "keep", "dag"), File("codex", "old", "body")}
Trial(a, b, c, d, e, f) ==
    [calls |-> a, edits |-> b, kills |-> c, faults |-> d, spoils |-> e, swaps |-> f]
SomeTrials == {Trial(2, 1, 0, 0, 0, 1), Trial(3, 0, 1, 0, 0, 1), Trial(2, 0, 1, 1, 0, 1),
               Trial(2, 0, 0, 0, 1, 1)}

-----------------------------------------------------------------------------

\* A torn-down merged node.
TeardownAtRest ==
    /\ fate = "merged" /\ refs = [r \in {"source"} |-> {}] /\ tree = NoTree
    /\ told = [made |-> {}, exposed |-> {}, lost |-> {}]
    /\ relic = [kind |-> "none", status |-> "complete", live |-> FALSE, size |-> 0, seen |-> -1,
                copy |-> -1, pane |-> FALSE, marker |-> FALSE, writer |-> FALSE]
    /\ sess = [alive |-> FALSE, attached |-> FALSE, sibling |-> FALSE, raced |-> FALSE]
    /\ clean = [pc |-> "end", cleaned |-> TRUE]
    /\ room = [late |-> 0, faults |-> 0, crashes |-> 0]

\* Runs whose displays expired.
DisplaysAtRest ==
    /\ mux = [gen |-> 1, win |-> [i \in {} |-> Foreign], next |-> MaxWindow + 1]
    /\ rec = [n \in Runs |-> [NoDisplayYet EXCEPT !.state = "expired"]]
    /\ sup = [n \in Runs |-> [pc |-> "done", id |-> NoId]]
    /\ mnt = Unscheduled /\ left = [user |-> 0, trouble |-> 0]
    /\ past = [slow |-> FALSE, closed |-> {}]

\* Nodes with nothing retained and nobody to call.
DisposalAtRest ==
    /\ yard = [n \in DNodes |-> Bare] /\ repo = "own" /\ watcher = "gone"
    /\ worker = [who |-> "none", clear |-> TRUE, told |-> TRUE]
    /\ book = [status |-> "failed", seq |-> 0, receipt |-> [n \in DNodes |-> NoReceipt],
               upgrade |-> [n \in DNodes |-> FALSE]]
    /\ keeper = Nobody /\ hand = [h \in Hands |-> AtHome]
    /\ odds = Chance(0, 0, 0, 0, {}, "failed", FALSE)
    /\ traces = [touched |-> FALSE, late |-> FALSE, torn |-> FALSE, misfired |-> FALSE,
                 unsound |-> FALSE]

\* A machine on which nothing was installed.
SkillsAtRest ==
    /\ binary = "v1" /\ marks = [s \in SkillNames |-> NoMark] /\ ins = NoInstall
    /\ homedir = [p \in Files |-> "none"] /\ flat = [prompts |-> {}, comps |-> {}]
    /\ prov = [whole |-> TRUE, files |-> [p \in PiFiles |-> "none"]]
    /\ diary = [last |-> "none", mine |-> {}, settled |-> {}, raced |-> FALSE, failed |-> FALSE,
                req |-> NoRequest, ver |-> "none"]
    /\ budget = Trial(0, 0, 0, 0, 0, 0)

VARIABLE at_work   \* which of the components this behaviour is about

RemovalInit ==
    \/ at_work = "teardown" /\ TeardownInit
        /\ DisplaysAtRest /\ DisposalAtRest /\ SkillsAtRest
    \/ at_work = "displays" /\ DisplaysInit
        /\ TeardownAtRest /\ DisposalAtRest /\ SkillsAtRest
    \/ at_work = "disposal" /\ DisposalInit
        /\ TeardownAtRest /\ DisplaysAtRest /\ SkillsAtRest
    \/ at_work = "skills" /\ SkillsInit
        /\ TeardownAtRest /\ DisplaysAtRest /\ DisposalAtRest

RemovalNext ==
    /\ UNCHANGED at_work
    /\ \/ at_work = "teardown" /\ TeardownNext
          /\ UNCHANGED <<display_vars, disposal_vars, skills_vars>>
       \/ at_work = "displays" /\ DisplaysNext
          /\ UNCHANGED <<teardown_vars, disposal_vars, skills_vars>>
       \/ at_work = "disposal" /\ DisposalNext
          /\ UNCHANGED <<teardown_vars, display_vars, skills_vars>>
       \/ at_work = "skills" /\ SkillsNext
          /\ UNCHANGED <<teardown_vars, display_vars, disposal_vars>>

suite_vars == <<teardown_vars, display_vars, disposal_vars, skills_vars, at_work>>

RemovalSpec ==
    /\ RemovalInit /\ [][RemovalNext]_suite_vars
    /\ TeardownFairness /\ DisplaysFairness /\ DisposalFairness

\* Removal comes to an end: the cleanup of a node, the retention of its
\* display, and every discard and salvage.
RemovalEnds == CleanupEnds /\ RetentionEnds /\ HandsReturn

=============================================================================
