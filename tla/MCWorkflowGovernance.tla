------------------------ MODULE MCWorkflowGovernance ------------------------
EXTENDS WorkflowGovernance

CONSTANTS openai, deepseek, qwen

O(family, cost) == [family |-> family, cost |-> cost]
\* A cheap day, one on which one family offers everything first, one whose plan auditor
\* is of the planner's family, and one without research and with a dear verifier.
Cheap == [role \in Roles |->
            CASE role \in {"plan", "execute"} -> <<O(qwen, 0)>>
              [] role = "research_enhance" -> <<O(qwen, 1)>>
              [] role \in {"audit", "verify", "plan_audit"} ->
                    <<O(qwen, 0), O(deepseek, Unpriced), O(deepseek, 1)>>
              [] role = "quality_enhance" -> <<O(qwen, 1)>>]
MCOfferSets == {Cheap,
    [role \in Roles |-> IF role = "plan_audit" THEN <<O(openai, 0), O(deepseek, 0)>>
                        ELSE <<O(openai, 1), O(deepseek, 1)>>],
    [Cheap EXCEPT !.plan_audit = <<O(openai, 0)>>],
    [Cheap EXCEPT !.research_enhance = <<>>, !.verify = <<O(openai, 2)>>]}

Contract == [version |-> "v2", tier |-> "complex", soft |-> 1, elastic |-> 7, hard |-> 9,
             maxStage |-> 2, checks |-> 2, planLoops |-> 2, resultLoops |-> 1, research |-> TRUE,
             sourced |-> TRUE, workspace |-> FALSE, unattended |-> FALSE, approved |-> FALSE,
             local |-> FALSE, frontier |-> FALSE]
MCContracts == {Contract,
    [Contract EXCEPT !.tier = "standard", !.research = FALSE, !.workspace = TRUE, !.planLoops = 1,
                     !.elastic = 6, !.hard = 8],
    [Contract EXCEPT !.tier = "simple", !.local = TRUE, !.workspace = TRUE],
    [Contract EXCEPT !.tier = "simple", !.local = TRUE, !.checks = 3],
    [Contract EXCEPT !.tier = "simple", !.checks = 0],
    [Contract EXCEPT !.version = "v1", !.soft = 6, !.elastic = 6, !.hard = 6, !.frontier = TRUE],
    [Contract EXCEPT !.sourced = FALSE],
    [Contract EXCEPT !.unattended = TRUE],
    [Contract EXCEPT !.planLoops = 3]}
=============================================================================
