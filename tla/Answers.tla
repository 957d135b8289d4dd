------------------------------ MODULE Answers ------------------------------
(* What stands between a request and its answer in one process: the rate   *)
(* limiter in front of the endpoints, and the agents behind them.  Beside  *)
(* them the gate that lets a version of them be deployed, which asks its   *)
(* own questions of its own tenant.                                        *)
EXTENDS AgentWorkflow, RateLimiter, Evaluation

vars == <<workflowVars, limiterVars, evaluationVars>>

TypeOK == WorkflowTypeOK /\ LimiterTypeOK /\ EvaluationTypeOK

Init == WorkflowInit /\ LimiterInit /\ EvaluationInit

Next ==
    \/ WorkflowNext /\ UNCHANGED <<limiterVars, evaluationVars>>
    \/ LimiterNext /\ UNCHANGED <<workflowVars, evaluationVars>>
    \/ EvaluationNext /\ UNCHANGED <<workflowVars, limiterVars>>

Spec == Init /\ [][Next]_vars
=============================================================================
