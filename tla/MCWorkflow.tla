---------------------------- MODULE MCWorkflow ----------------------------
EXTENDS WorkflowEngine, TLC
CONSTANTS e1, e2, n1, n2, n3

MCDeps == (n1 :> {}) @@ (n2 :> {n1}) @@ (n3 :> {})
MCDecisions == {<<>>, <<n2, "done">>, <<n2, n3>>, <<"review">>}
MCPlans ==
  {[mode |-> "dag", policy |-> "skip_dependents", parallel |-> 2, manual |-> FALSE, rounds |-> 1],
   [mode |-> "dag", policy |-> "fail_workflow", parallel |-> 1, manual |-> TRUE, rounds |-> 1],
   [mode |-> "graph", policy |-> "fail_workflow", parallel |-> 1, manual |-> FALSE, rounds |-> 1],
   [mode |-> "discussion", policy |-> "continue", parallel |-> 2, manual |-> FALSE, rounds |-> 1]}

MCGraph == {p \in MCPlans : p.mode = "graph"}
===========================================================================
