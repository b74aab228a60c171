------------------------- MODULE WorkflowGovernance -------------------------
(***************************************************************************)
(* Workflow contracts, plans and checkpoints (governance.py), with the     *)
(* role pipeline of a route plan (router.py 4181-4250).  workflow-plan     *)
(* turns a contract into stages and says whether they may be run;          *)
(* workflow-check turns what was found after a stage into a decision.      *)
(* Neither calls a model nor remembers anything: the agent that runs the   *)
(* stages one at a time is external, and honest here: it does what the     *)
(* decisions say and reports what it spent and repaired.                   *)
(*                                                                         *)
(* Costs are units.  A criterion status stands for the worst one.          *)
(***************************************************************************)
EXTENDS Integers, FiniteSets, Sequences, SequencesExt

CONSTANTS
    Contracts,     \* contracts as written, before validate_workflow_contract
    OfferSets,     \* the role candidates of the day: functions from Roles
    Families,      \* model families
    OpenAI,        \* that of the workspace models
    NoFamily,
    Unpriced,      \* the cost of a stage that nobody knows
    MaxRedesigns   \* bound: how often the agent redesigns

Roles == {"plan", "research_enhance", "plan_audit", "execute", "audit", "verify",
          "quality_enhance"}

\* What _role_policy_choices offers for a role, in its order.
Offer == [family: Families, cost: Nat \cup {Unpriced}]
NoChoice == [family |-> NoFamily, cost |-> Unpriced]
Codex == [family |-> OpenAI, cost |-> 0]
Closeout == [family |-> NoFamily, cost |-> 0]

\* What a contract says that the plan and the checkpoints read.
ContractInfo ==
    [version: {"v1", "v2"}, tier: {"simple", "standard", "complex"},
     soft: Int, elastic: Int, hard: Int, maxStage: Int, checks: Int, planLoops: Int,
     resultLoops: Int, research: BOOLEAN, sourced: BOOLEAN, workspace: BOOLEAN,
     unattended: BOOLEAN, approved: BOOLEAN, local: BOOLEAN, frontier: BOOLEAN]

ASSUME GovernanceConstants ==
    /\ Contracts \subseteq ContractInfo
    /\ OpenAI \in Families /\ NoFamily \notin Families /\ Unpriced \notin Nat
    /\ OfferSets \subseteq [Roles -> Seq(Offer)]
    /\ MaxRedesigns \in Nat

-----------------------------------------------------------------------------
(* Contracts *)

\* _normalized_budget_policy and validate_workflow_contract: what they refuse.
Valid(c) ==
    /\ 0 < c.soft /\ 0 < c.maxStage
    /\ c.soft <= c.elastic /\ c.elastic <= c.hard
    /\ c.maxStage <= c.elastic
    /\ c.version = "v1" => c.soft = c.hard
    /\ c.checks \in 0..3
    /\ c.planLoops \in 0..2 /\ c.resultLoops \in 0..2

-----------------------------------------------------------------------------
(* Role selection *)

\* The first candidate within the stage limit that is of another family than the
\* route it is to check.
Chosen(offers, limit, other) ==
    LET i == SelectInSeq(offers, LAMBDA o : /\ o.cost # Unpriced /\ o.cost <= limit
                                            /\ o.family # other.family)
    IN  IF i = 0 THEN NoChoice ELSE offers[i]

\* _build_role_pipeline: plan_audit is independent from research_enhance, audit from
\* plan and verify from execute.
Pipeline(offers, limit) ==
    LET first == [role \in Roles |-> Chosen(offers[role], limit, NoChoice)]
    IN  [first EXCEPT
            !.plan_audit = Chosen(offers.plan_audit, limit, first.research_enhance),
            !.audit = Chosen(offers.audit, limit, first.plan),
            !.verify = Chosen(offers.verify, limit, first.execute)]

-----------------------------------------------------------------------------
(* Plans *)

Row(stage, by, policy) == [stage |-> stage, by |-> by, policy |-> policy]

\* Of the two local gates only a missing process checkpoint verifier costs nothing.
CostOf(row) == IF row.by = NoChoice /\ row.stage = "process_checkpoint" THEN 0 ELSE row.by.cost

Executor(c, sel) == IF c.workspace THEN Codex ELSE sel.execute

\* The plan auditor verifies as well if it differs from the executor.
Verifier(c, sel) ==
    IF sel.plan_audit # NoChoice /\ sel.plan_audit.family # Executor(c, sel).family
    THEN sel.plan_audit ELSE sel.verify

\* The stages of _build_legacy_workflow_plan.
LegacyRows(c, sel) ==
    {Row("plan_design", sel.plan, "required"),
     Row("plan_audit", sel.audit, "required"),
     Row("execute", sel.execute, "required"),
     Row("process_checkpoint", sel.verify, "conditional"),
     Row("final_verify", sel.verify, "required")}
    \cup IF c.frontier THEN {Row("quality_enhance", sel.quality_enhance, "conditional")} ELSE {}

\* The stages of build_workflow_plan: those of every tier, and those of the others
\* than simple.
SimpleRows(c, sel) ==
    {Row("plan_design", Codex, "controller_required"),
     Row("execute", Executor(c, sel),
         IF Executor(c, sel) # NoChoice /\ ~c.workspace THEN "required" ELSE "controller_required"),
     Row("process_checkpoint", Verifier(c, sel), "conditional"),
     Row("closeout", Closeout, "local_required")}
ReviewRows(c, sel) ==
    {Row("research_enhance", sel.research_enhance, IF c.research THEN "required" ELSE "conditional"),
     Row("plan_audit", sel.plan_audit, "required"),
     Row("plan_repair", Executor(c, sel), "conditional"),
     Row("plan_delta_verify", sel.plan_audit, "conditional"),
     Row("final_verify", Verifier(c, sel), "required"),
     Row("result_repair", Executor(c, sel), "conditional"),
     Row("final_delta_verify", Verifier(c, sel), "conditional")}

Simple(c) == c.tier = "simple"
Rows(c, sel) ==
    IF c.version = "v1" THEN LegacyRows(c, sel)
    ELSE SimpleRows(c, sel) \cup IF Simple(c) THEN {} ELSE ReviewRows(c, sel)

\* Mutant of Times: one checkpoint is reserved.
TimesOnce(c, row) == 1

\* How often a conditional stage is reserved for.
Times(c, row) == IF row.stage = "process_checkpoint" THEN c.checks ELSE 1

Required(rows) == {row \in rows : row.policy # "conditional"}
Known(rows) == {row \in rows : CostOf(row) # Unpriced}

Ceiling(c, rows) ==
    SumFunction([row \in Known(Required(rows)) |-> CostOf(row)])
    + SumFunction([row \in Known(rows \ Required(rows)) |-> CostOf(row) * Times(c, row)])

External(rows) == {row \in rows : row.policy = "required"}
Same(a, b) == a # NoChoice /\ a.family = b.family

\* Mutant of HardStop: independence is left to the pipeline.
HardStopDependent(c, sel, rows) ==
    \/ c.unattended /\ ~c.approved
    \/ c.local /\ External(rows) # {}
    \/ c.research /\ ~Simple(c) /\ ~c.sourced
    \/ \E row \in Required(rows) : row.by = NoChoice
    \/ Ceiling(c, rows) > c.hard

LegacyHardStop(c, sel, rows) ==
    \/ c.unattended /\ ~c.approved
    \/ c.local
    \/ \E role \in {"plan", "audit", "execute", "verify"} : sel[role] = NoChoice
    \/ Same(sel.plan, sel.audit) \/ Same(sel.execute, sel.verify)
    \/ \E row \in External(rows) : CostOf(row) = Unpriced
    \/ Ceiling(c, rows) > c.elastic

\* The hard stops of build_workflow_plan.  The plan auditor may be missing like the
\* research route, or be of the family of either.
HardStop(c, sel, rows) ==
    \/ c.unattended /\ ~c.approved
    \/ c.local /\ External(rows) # {}
    \/ c.research /\ ~Simple(c) /\ ~c.sourced
    \/ \E row \in Required(rows) : row.by = NoChoice
    \/ ~Simple(c) /\ sel.plan_audit.family \in {OpenAI, sel.research_enhance.family}
    \/ ~Simple(c) /\ Same(Executor(c, sel), Verifier(c, sel))
    \/ \E row \in External(rows) : CostOf(row) = Unpriced
    \/ Ceiling(c, rows) > c.hard

Approval(c, rows) == c.version = "v2" /\ Ceiling(c, rows) > c.elastic

PlanOf(c, candidates) ==
    LET sel == Pipeline(candidates, c.maxStage)
        rows == Rows(c, sel)
        stopped == IF c.version = "v1" THEN LegacyHardStop(c, sel, rows) ELSE HardStop(c, sel, rows)
    IN  [rows |-> rows, ceiling |-> Ceiling(c, rows), stopped |-> stopped,
         ready |-> ~stopped /\ ~Approval(c, rows)]
-----------------------------------------------------------------------------
(* Checkpoints *)

Finding == [alignment: {"aligned", "uncertain", "deviated"}, evidence: BOOLEAN, scope: BOOLEAN,
            criteria: {"pass", "fail", "unknown", "not_checked"}, redesign: BOOLEAN]
NoFinding == [alignment |-> "aligned", evidence |-> TRUE, scope |-> FALSE,
              criteria |-> "pass", redesign |-> FALSE]

Decision == {"continue", "verify_required", "repair_required", "redesign_required",
             "authorization_required", "complete", "stop"}

\* Unresolved is what is unknown, and where a workflow may end what was not checked.
Open(stage, f) ==
    \/ f.criteria \in {"fail", "unknown"}
    \/ f.criteria = "not_checked" /\ stage \in {"final_verify", "final_delta_verify", "closeout"}
Doubts(stage, f) == f.alignment # "aligned" \/ f.scope \/ ~f.evidence \/ Open(stage, f)

Overspent(c, spent) == spent > IF c.version = "v1" THEN c.elastic ELSE c.hard

LegacyDecision(c, stage, f, spent) ==
    LET hard == Overspent(c, spent) \/ f.alignment = "deviated"
    IN  CASE stage = "final_verify" -> IF hard \/ Doubts(stage, f) THEN "stop" ELSE "complete"
          [] stage # "final_verify" /\ hard -> "stop"
          [] stage # "final_verify" /\ ~hard ->
                IF Doubts(stage, f) THEN "verify_required" ELSE "continue"

\* Mutant of Repair: one repair too many.
RepairOnceMore(loops, limit) == IF loops <= limit THEN "repair_required" ELSE "stop"

Repair(loops, limit) == IF loops < limit THEN "repair_required" ELSE "stop"

\* evaluate_workflow_checkpoint of a v2 contract: the first line that applies.
NewDecision(c, stage, f, spent, loops) ==
    IF Overspent(c, spent) \/ f.alignment = "deviated" THEN "stop"
    ELSE IF spent > c.elastic THEN "authorization_required"
    ELSE IF stage = "plan_audit" /\ f.redesign THEN "redesign_required"
    ELSE IF stage \in {"plan_audit", "plan_delta_verify"} /\ (Open(stage, f) \/ ~f.evidence)
         THEN Repair(loops, c.planLoops)
    ELSE IF stage \in {"final_verify", "final_delta_verify"} /\ Doubts(stage, f)
         THEN Repair(loops, c.resultLoops)
    ELSE IF stage = "closeout" THEN (IF Doubts(stage, f) THEN "stop" ELSE "complete")
    ELSE IF Doubts(stage, f) THEN "verify_required"
    ELSE "continue"

Decided(c, stage, f, spent, loops) ==
    IF c.version = "v1" THEN LegacyDecision(c, stage, f, spent)
    ELSE NewDecision(c, stage, f, spent, loops)

-----------------------------------------------------------------------------
(* A workflow, run by its agent *)

VARIABLES
    contract,
    offers,    \* the role candidates of the day
    plan,      \* the plan workflow-plan wrote
    pc,        \* contract, plan, perform, check, verify, authorize, or how it ended
    at,        \* the stage
    spent,
    count,     \* how often each kind of optional step was taken
    finding    \* the last finding

vars == <<contract, offers, plan, pc, at, spent, count, finding>>

Ended == {"rejected", "not ready", "complete", "stop", "handed over"}
Stage == {"plan_design", "research_enhance", "plan_audit", "plan_repair", "plan_delta_verify",
          "execute", "process_checkpoint", "final_verify", "result_repair",
          "final_delta_verify", "closeout", "quality_enhance"}
Counted == {"plan_repair", "result_repair", "checks", "redesigns", "grants"}

NoPlan == [rows |-> {}, ceiling |-> 0, stopped |-> TRUE, ready |-> FALSE]
RowsAt(stage) == {row \in plan.rows : row.stage = stage}

\* The stage that follows one in the order of the plan, without optional ones.
Following(stage) ==
    CASE stage = "plan_design" ->
            IF RowsAt("plan_audit") = {} THEN "execute"
            ELSE IF RowsAt("research_enhance") = {} THEN "plan_audit" ELSE "research_enhance"
      [] stage = "research_enhance" -> "plan_audit"
      [] stage \in {"plan_audit", "plan_delta_verify"} -> "execute"
      [] stage = "plan_repair" -> "plan_delta_verify"
      [] stage = "execute" -> "process_checkpoint"
      [] stage = "process_checkpoint" ->
            IF RowsAt("final_verify") = {} THEN "closeout" ELSE "final_verify"
      [] stage = "result_repair" -> "final_delta_verify"
      [] stage \in {"final_verify", "final_delta_verify"} -> "closeout"
      [] stage \in {"closeout", "quality_enhance"} -> "closeout"

Checked == {"plan_audit", "plan_delta_verify", "process_checkpoint", "final_verify",
            "final_delta_verify", "closeout"}
Loops(stage) ==
    count[IF stage \in {"plan_audit", "plan_delta_verify"} THEN "plan_repair" ELSE "result_repair"]

Init ==
    /\ contract \in Contracts
    /\ offers \in OfferSets
    /\ plan = NoPlan
    /\ pc = "contract" /\ at = "plan_design" /\ spent = 0
    /\ count = [k \in Counted |-> 0]
    /\ finding = NoFinding

\* build_workflow_plan.
MakePlan ==
    /\ pc = "contract"
    /\ IF Valid(contract)
       THEN pc' = "plan" /\ plan' = PlanOf(contract, offers)
       ELSE pc' = "rejected" /\ UNCHANGED plan
    /\ UNCHANGED <<contract, offers, at, spent, count, finding>>

\* A plan that is ready is run.  One that waits for approval is made anew under a
\* contract with a higher elastic limit, or dropped.
Start ==
    /\ pc = "plan"
    /\ \/ /\ pc' = IF plan.ready THEN "perform" ELSE "not ready"
          /\ UNCHANGED contract
       \/ /\ ~plan.ready /\ ~plan.stopped
          /\ contract' = [contract EXCEPT !.elastic = contract.hard]
          /\ pc' = "contract"
    /\ UNCHANGED <<offers, plan, at, spent, count, finding>>

\* A call costs at most what was projected, its limit.
Pay(row) == \E cost \in 0..CostOf(row) : spent' = spent + cost

Take(k) == count' = [count EXCEPT ![k] = @ + 1]

\* Conditional research may be left out; the process checkpoint itself is local.
Perform ==
    /\ pc = "perform"
    /\ \/ at = "process_checkpoint" /\ UNCHANGED spent
       \/ /\ at # "process_checkpoint"
          /\ \E row \in RowsAt(at) : row.by # NoChoice /\ Pay(row)
       \/ /\ at = "research_enhance" /\ UNCHANGED spent
          /\ \E row \in RowsAt(at) : row.policy = "conditional"
    /\ IF at \in {"plan_repair", "result_repair"} THEN Take(at) ELSE UNCHANGED count
    /\ IF at \in Checked THEN pc' = "check" /\ UNCHANGED at
       ELSE pc' = "perform" /\ at' = Following(at)
    /\ UNCHANGED <<contract, offers, plan, finding>>

\* workflow-check, and what the agent does next.
Check ==
    /\ pc = "check"
    /\ finding' \in Finding
    /\ LET decision == Decided(contract, at, finding', spent, Loops(at))
           redesign == decision = "redesign_required" /\ count["redesigns"] < MaxRedesigns
       IN  /\ CASE decision = "continue" -> pc' = "perform" /\ at' = Following(at)
                 [] decision = "repair_required" ->
                        /\ pc' = "perform"
                        /\ at' = IF at \in {"plan_audit", "plan_delta_verify"}
                                 THEN "plan_repair" ELSE "result_repair"
                 [] decision = "redesign_required" ->
                        /\ pc' = IF redesign THEN "perform" ELSE "handed over"
                        /\ at' = "plan_design"
                 [] decision = "verify_required" -> pc' = "verify" /\ UNCHANGED at
                 [] decision = "authorization_required" -> pc' = "authorize" /\ UNCHANGED at
                 [] decision \in {"complete", "stop"} -> pc' = decision /\ UNCHANGED at
           /\ IF redesign THEN Take("redesigns") ELSE UNCHANGED count
    /\ UNCHANGED <<contract, offers, plan, spent>>

\* The verifier of the process checkpoint is called as often as the contract says;
\* then the stage is checked again.
VerifyDoubt ==
    /\ pc = "verify"
    /\ \E row \in RowsAt("process_checkpoint") :
          IF count["checks"] < contract.checks /\ row.by # NoChoice
          THEN Pay(row) /\ Take("checks") /\ pc' = "check"
          ELSE pc' = "handed over" /\ UNCHANGED <<spent, count>>
    /\ UNCHANGED <<contract, offers, plan, at, finding>>

\* The operator raises the elastic limit, or ends the workflow.
Authorize ==
    /\ pc = "authorize"
    /\ \/ pc' = "check" /\ contract' = [contract EXCEPT !.elastic = contract.hard] /\ Take("grants")
       \/ pc' = "handed over" /\ UNCHANGED <<contract, count>>
    /\ UNCHANGED <<offers, plan, at, spent, finding>>

Next == MakePlan \/ Start \/ Perform \/ Check \/ VerifyDoubt \/ Authorize

GovernanceSpec == Init /\ [][Next]_vars

-----------------------------------------------------------------------------
(* Properties *)

\* The position in the plan: a stage that is performed is one of the plan's, and the
\* counts of an honest agent keep to the contract (governance.py 738-830).
GovernanceTypeOK ==
    /\ contract.elastic <= contract.hard \/ pc \in {"contract", "rejected"}
    /\ offers \in OfferSets /\ at \in Stage /\ spent \in Nat /\ finding \in Finding
    /\ pc \in {"contract", "plan", "perform", "check", "verify", "authorize"} \cup Ended
    /\ pc \in {"perform", "check"} => Cardinality(RowsAt(at)) = 1
    /\ pc \notin {"contract", "rejected"} =>
          count["plan_repair"] <= contract.planLoops /\ count["result_repair"] <= contract.resultLoops
    /\ count["checks"] \in 0..3 /\ count["redesigns"] \in 0..MaxRedesigns

\* In a plan that may be run, whoever executes or repairs is not verified by a route of
\* its own family, and whoever designed or researched the plan not audited by one;
\* under local_only no stage is required to call out; every stage that must be run has
\* a route within the stage limit and a price; and what any stage costs has its share
\* in the ceiling, unless it is the checkpoint of a contract without checks: all this
\* although routes are chosen per role and one of them may end up in several stages
\* (governance.py 545-560, 655-690; router.py 4181-4250).
ReadyPlanIsSound ==
    plan.ready =>
        LET by(stages) == {row.by.family : row \in {x \in plan.rows : x.stage \in stages}}
            makers == by({"execute", "plan_repair", "result_repair"})
        IN  /\ ~Simple(contract) \/ contract.version = "v1" =>
                  /\ by({"final_verify", "final_delta_verify"}) \cap makers = {}
                  /\ by({"plan_audit", "plan_delta_verify"})
                        \cap by({"plan_design", "research_enhance"}) = {}
            /\ contract.local => \A row \in plan.rows : row.policy # "required"
            /\ \A row \in External(plan.rows) : CostOf(row) <= contract.maxStage
            /\ plan.ceiling <= contract.elastic
            /\ \A row \in plan.rows :
                  /\ CostOf(row) # Unpriced
                  /\ row.stage # "process_checkpoint" \/ contract.checks > 0
                  => CostOf(row) <= plan.ceiling

\* The ceiling of the plan covers a run of it that repairs the plan and the result at
\* most once and is not sent back to design, so that such a run never asks for money;
\* and a workflow that completes has kept to its elastic limit, ends with everything
\* proved, and its last repair was verified (governance.py 675-690, 760-812).  With two
\* repairs the ceiling is not enough: one of each is reserved.
RunStaysWithinPlan ==
    /\ /\ count["plan_repair"] <= 1 /\ count["result_repair"] <= 1
       /\ count["redesigns"] = 0 /\ pc \notin {"contract", "rejected", "not ready"}
       => spent <= plan.ceiling /\ pc # "authorize"
    /\ pc = "complete" =>
          /\ spent <= contract.elastic
          /\ finding.criteria = "pass" /\ finding.evidence /\ ~finding.scope
          /\ at = IF contract.version = "v1" THEN "final_verify" ELSE "closeout"
=============================================================================
