------------------------------ MODULE MCCancel ------------------------------
(***************************************************************************)
(* A run with up to two nodes, reported on by an agent, a confirmed merge  *)
(* and a supervisor's backstop.                                            *)
(***************************************************************************)
EXTENDS Cancel

CONSTANTS n1, n2

MCNodeIds == {n1, n2}
MCCreated == [source_branch |-> 9, agent_owner |-> "taskfleet",
              resident |-> FALSE]
MCRootData == [branch |-> 1, base_sha |-> 1, agent_pid |-> 1,
               source_branch |-> 9, session |-> 1]

AgentDone == [NoReport EXCEPT !.success = "true", !.origin = "agent"]
Backstop == [NoReport EXCEPT !.success = "false", !.origin = "supervisor"]
Merged == [NoReport EXCEPT !.success = "true", !.via = TRUE,
                           !.origin = "run-merge", !.op_id = 1]
NoVerdict == [NoReport EXCEPT !.origin = "agent"]
MCReports == {AgentDone, Backstop, Merged, NoVerdict}

=============================================================================
