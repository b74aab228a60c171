-------------------------- MODULE GoldenEvaluation --------------------------
(***************************************************************************)
(* golden-eval and promotion-check (evaluation.py): a candidate route runs *)
(* the cases of a suite, then the baseline does if the candidate passed    *)
(* the hard gates, and a decision weighs the report, the route's history   *)
(* and a blind review.  Each case is one exact call of run_llm_task, whose *)
(* routes come from RouteSelection: all those the provider and model       *)
(* filters match.  The cost ledger is one file that every process of the   *)
(* user appends to; a case that failed is looked up in it.                 *)
(*                                                                         *)
(* Rates are percentages, costs are units, and an unknown cost is that of  *)
(* a route without a price.                                                *)
(***************************************************************************)
EXTENDS RouteSelection, Sequences, SequencesExt

CONSTANTS
    Inventory,    \* what configured_models returns meanwhile
    Matches,      \* the routes the filters of each route match
    Candidate,
    Baseline,     \* a route or NoRoute
    NoRoute,
    Suites,       \* suites as written, before validate_golden_suite
    Absent,       \* a threshold a suite does not give
    Reviews,      \* external: blind reviews somebody may hand in
    NoReview,
    Allowances,   \* the flags --allow-paid and --allow-unprotected-trial
    Window,       \* rows of the ledger that count as history
    MaxOthers     \* bound: ledger rows of other processes

\* A suite file that validate_golden_suite accepts.
Threshold == Nat \cup {Absent}
Switch == BOOLEAN \cup {Absent}
SuiteInfo == [task: TaskTypes, role: BOOLEAN, simple: BOOLEAN, governed: BOOLEAN,
              schema: BOOLEAN,    \* its prompts hold a JSON schema
              local: BOOLEAN, cases: Nat \ {0}, maxCallCost: Nat \ {0},
              minCases: Threshold, minPass: Threshold, maxRegression: Threshold,
              maxCost: Threshold, minHealth: Threshold,
              baselineRequired: Switch, reviewRequired: Switch,
              minReview: Threshold, minWinOrTie: Threshold, maxLosses: Threshold]

ASSUME GoldenConstants ==
    /\ Suites \subseteq SuiteInfo /\ Allowances \subseteq [paid: BOOLEAN, trial: BOOLEAN]
    /\ IsInventory(Inventory)
    /\ Candidate \in DOMAIN Inventory
    /\ Baseline \in DOMAIN Inventory \cup {NoRoute} /\ NoRoute \notin Routes
    /\ Matches \in [DOMAIN Inventory -> SUBSET Routes]
    /\ \A r \in DOMAIN Inventory : r \in Matches[r]
    /\ Window \in Nat \ {0} /\ MaxOthers \in Nat

HealthMinSamples == 3

-----------------------------------------------------------------------------
(* Thresholds *)

\* The Python idioms "x or d" and "d if x is None else x".
OrElse(x, d) == IF x \in {Absent, 0} THEN d ELSE x
Given(x, d) == IF x = Absent THEN d ELSE x
AtLeast(low, x) == IF x < low THEN low ELSE x

\* validate_golden_suite, for a suite it accepts: at least three cases and health
\* samples are asked for, and max_candidate_losses cannot be 0.
Normalised(s) ==
    [s EXCEPT !.minCases = AtLeast(3, OrElse(@, 5)),
              !.minPass = Given(@, 80),
              !.maxRegression = Given(@, 0),
              !.maxCost = Given(@, 0),
              !.minHealth = AtLeast(3, OrElse(@, 3)),
              !.baselineRequired = Given(@, TRUE),
              !.reviewRequired = Given(@, s.role),
              !.minReview = Given(@, 80),
              !.minWinOrTie = Given(@, 80),
              !.maxLosses = OrElse(@, 1)]

-----------------------------------------------------------------------------
VARIABLES
    suite,
    allow,
    stage,     \* resolve, candidate, baseline, report or refused
    pc,        \* within a run: idle, attempt or failed
    prior,     \* the length of the ledger when the case began
    left,      \* the routes its call may still try
    ledger,    \* the terminal rows of the suite's task
    runs,      \* the case records of both routes
    verdict    \* the last decision, and the review it used

vars == <<suite, allow, stage, pc, prior, left, ledger, runs, verdict>>

Stages == {"candidate", "baseline"}
RouteOf(s) == IF s = "candidate" THEN Candidate ELSE Baseline
Compared == {Candidate, Baseline} \ {NoRoute}

Cost == Nat \cup {Unpriced}
Sampled == {"model_call", "model_failure"}
Event == Sampled \cup {"infrastructure failure", "invalid_structured_output", "budget_incident"}
NoCase == [stage |-> "other", case |-> 0]

\* A row of the suite's task, and who wrote it.
Row == [of: [stage: Stages, case: Nat] \cup {NoCase},
        route: Routes, event: Event, cost: Cost]

\* row is the place of the ledger row a case was found by, 0 if there is none.
Case == [ran: BOOLEAN, ok: BOOLEAN, passed: BOOLEAN, row: Nat, cost: Cost]
Skipped == [ran |-> FALSE, ok |-> FALSE, passed |-> FALSE, row |-> 0, cost |-> Unpriced]

Init ==
    /\ suite \in {Normalised(s) : s \in Suites}
    /\ allow \in Allowances
    /\ stage = "resolve" /\ pc = "idle" /\ prior = 0 /\ left = {}
    /\ ledger = <<>>
    /\ runs = [s \in Stages |-> <<>>]
    /\ verdict = [status |-> "none", review |-> NoReview]

-----------------------------------------------------------------------------
(* The run of a route *)

\* The flags a compared route needs.
Permitted(r) ==
    (Free(Inventory[r]) \/ allow.paid) /\ (ExecutionEnabled(Inventory[r]) \/ allow.trial)

Resolve ==
    /\ stage = "resolve"
    /\ stage' = IF /\ \A r \in Compared : Permitted(r)
                   /\ suite.baselineRequired => Baseline # NoRoute
                THEN "candidate" ELSE "refused"
    /\ UNCHANGED <<suite, allow, pc, prior, left, ledger, runs, verdict>>

\* The call of a case; prices are given for one token of input, and no guard factor is.
Asked ==
    LET route == RouteOf(stage)
    IN  Effective([task |-> suite.task, role |-> suite.role, simple |-> suite.simple,
                   preferFree |-> Free(Inventory[route]), paid |-> allow.paid,
                   local |-> suite.local, limit |-> suite.maxCallCost, floor |-> 0,
                   input |-> 1, output |-> 0, estimate |-> 1, guard |-> 1,
                   only |-> Matches[route], avoid |-> {},
                   schema |-> suite.schema, controls |-> FALSE,
                   exact |-> TRUE, trial |-> allow.trial])

CaseNumber == Len(runs[stage]) + 1

BeginCase ==
    /\ stage \in Stages /\ pc = "idle" /\ CaseNumber <= suite.cases
    /\ prior' = Len(ledger)
    /\ \E up \in SUBSET Routes :
          LET choices == Admitted(Inventory, Asked) \cap up
          IN  left' = choices /\ pc' = IF choices = {} THEN "failed" ELSE "attempt"
    /\ UNCHANGED <<suite, allow, stage, ledger, runs, verdict>>

Write(of, r, events, cost) ==
    ledger' = ledger \o [i \in DOMAIN events |->
                            [of |-> of, route |-> r, event |-> events[i], cost |-> cost]]
WriteOwn(r, events, cost) == Write([stage |-> stage, case |-> CaseNumber], r, events, cost)

\* Mutant of NextTry: the loop does not notice that no route is left.
NextTryForever(r) ==
    /\ left' = left \ {r}
    /\ pc' = "attempt"
    /\ UNCHANGED <<suite, allow, stage, prior, runs, verdict>>

NextTry(r) ==
    /\ left' = left \ {r}
    /\ pc' = IF left = {r} THEN "failed" ELSE "attempt"
    /\ UNCHANGED <<suite, allow, stage, prior, runs, verdict>>

Refuse(r) ==
    /\ ~Affordable(Inventory[r], Asked)
    /\ WriteOwn(r, <<"budget_incident">>, 0)
    /\ NextTry(r)

\* A failure of a free route costs nothing, that of a paid one is unknown; an output
\* left unfinished costs what its usage says.
Fail(r) ==
    /\ Affordable(Inventory[r], Asked)
    /\ \E event \in {"model_failure", "infrastructure failure"} :
       \E cost \in IF Free(Inventory[r]) THEN {0}
                   ELSE {Unpriced} \cup IF suite.governed THEN {} ELSE {Inventory[r].price} :
          WriteOwn(r, <<event>>, cost)
    /\ NextTry(r)

\* The call ends here, the other routes untried.
End ==
    /\ pc' = "failed" /\ left' = {}
    /\ UNCHANGED <<suite, allow, stage, prior, runs, verdict>>

\* What a governed call answered, or left unfinished, is not the JSON asked for.
Invalid(r) ==
    /\ suite.governed /\ Affordable(Inventory[r], Asked)
    /\ WriteOwn(r, <<"invalid_structured_output">>,
                IF Free(Inventory[r]) THEN 0 ELSE Inventory[r].price)
    /\ End

\* The call cost more than its limit, with an answer or with an unfinished one, which
\* has a row of its own.
Overrun(r) ==
    /\ Affordable(Inventory[r], Asked) /\ ~Free(Inventory[r])
    /\ \E before \in {<<>>, IF suite.governed THEN <<"invalid_structured_output">>
                             ELSE <<"model_failure">>} :
          WriteOwn(r, before \o <<"budget_incident">>, Asked.limit + 1)
    /\ End

Answer(r) ==
    /\ Affordable(Inventory[r], Asked)
    /\ \E passed \in BOOLEAN :
          LET cost == IF Free(Inventory[r]) THEN 0 ELSE Inventory[r].price
          IN  /\ WriteOwn(r, <<"model_call">>, cost)
              /\ runs' = [runs EXCEPT ![stage] = Append(@,
                    [ran |-> TRUE, ok |-> TRUE, passed |-> passed,
                     row |-> Len(ledger) + 1, cost |-> cost])]
    /\ pc' = "idle" /\ left' = {}
    /\ UNCHANGED <<suite, allow, stage, prior, verdict>>

Attempt ==
    /\ pc = "attempt"
    /\ \E r \in left : Refuse(r) \/ Fail(r) \/ Invalid(r) \/ Overrun(r) \/ Answer(r)

\* Mutant of FailedCaseRow: any row of the route since the run began.
FailedCaseRowOld(route) ==
    SelectLastInSubSeq(ledger, 1, Len(ledger), LAMBDA row : row.route = route)

\* _new_route_terminal_ledger_row: the last row of exactly the route that was not
\* there when the case began.
FailedCaseRow(route) ==
    SelectLastInSubSeq(ledger, prior + 1, Len(ledger), LAMBDA row : row.route = route)

\* The case is recorded by that row, and the remaining cases are skipped.
CaseFails ==
    /\ pc = "failed"
    /\ LET i == FailedCaseRow(RouteOf(stage))
           failed == [ran |-> TRUE, ok |-> FALSE, passed |-> FALSE, row |-> i,
                      cost |-> IF i = 0 THEN Unpriced ELSE ledger[i].cost]
       IN  runs' = [runs EXCEPT ![stage] =
                [n \in 1..suite.cases |->
                    IF n < CaseNumber THEN @[n] ELSE IF n = CaseNumber THEN failed ELSE Skipped]]
    /\ pc' = "idle" /\ left' = {}
    /\ UNCHANGED <<suite, allow, stage, prior, ledger, verdict>>

\* Other processes use the same ledger.
OtherRow ==
    /\ Cardinality({i \in DOMAIN ledger : ledger[i].of = NoCase}) < MaxOthers
    /\ stage # "refused"
    /\ \E r \in Compared, event \in Event :
          Write(NoCase, r, <<event>>, IF event = "model_call" /\ Free(Inventory[r]) THEN 0 ELSE Unpriced)
    /\ UNCHANGED <<suite, allow, stage, pc, prior, left, runs, verdict>>

-----------------------------------------------------------------------------
(* The report and the decision *)

Ran(s) == {n \in DOMAIN runs[s] : runs[s][n].ran}
Succeeded(s) == {n \in DOMAIN runs[s] : runs[s][n].ok}
Passed(s) == Cardinality({n \in DOMAIN runs[s] : runs[s][n].passed})
UnknownCosts(s) == {n \in Ran(s) : runs[s][n].cost = Unpriced}
TotalCost(s) == SumFunction([n \in Ran(s) \ UnknownCosts(s) |-> runs[s][n].cost])

\* Mutant of HardGates: failed calls are forgiven.
HardGatesLenient ==
    /\ Len(runs["candidate"]) >= suite.minCases
    /\ Passed("candidate") * 100 >= OrElse(suite.minPass, 80) * suite.cases
    /\ UnknownCosts("candidate") = {}
    /\ suite.maxCost = 0 \/ TotalCost("candidate") <= suite.maxCost

\* The gates of the report that promotion-check repeats.
HardGates ==
    /\ Len(runs["candidate"]) >= suite.minCases
    /\ Cardinality(Succeeded("candidate")) = suite.cases
    /\ Passed("candidate") * 100 >= OrElse(suite.minPass, 80) * suite.cases
    /\ UnknownCosts("candidate") = {}
    /\ suite.maxCost = 0 \/ TotalCost("candidate") <= suite.maxCost

\* _candidate_passes_baseline_entry: a paid baseline is not run for nothing.
PassesBaselineEntry ==
    /\ Len(runs["candidate"]) >= suite.minCases
    /\ Cardinality(Succeeded("candidate")) = suite.cases
    /\ Passed("candidate") * 100 >= OrElse(suite.minPass, 80) * suite.cases
    /\ UnknownCosts("candidate") = {}
    /\ suite.maxCost = 0 \/ TotalCost("candidate") <= suite.maxCost

FinishRun ==
    /\ stage \in Stages /\ pc = "idle" /\ CaseNumber > suite.cases
    /\ stage' = IF stage = "candidate" /\ Baseline # NoRoute /\ PassesBaselineEntry
                THEN "baseline" ELSE "report"
    /\ UNCHANGED <<suite, allow, pc, prior, left, ledger, runs, verdict>>

\* The route's rows in the last part of the ledger, without failures of the network
\* (route_performance_stats).
Samples(route) ==
    {i \in DOMAIN ledger : /\ i > Len(ledger) - Window
                           /\ ledger[i].route = route /\ ledger[i].event \in Sampled}
Degraded(route) ==
    LET answered == {i \in Samples(route) : ledger[i].event = "model_call"}
    IN  /\ Cardinality(Samples(route)) >= HealthMinSamples
        /\ 2 * Cardinality(answered) < Cardinality(Samples(route))

HealthGates ==
    Cardinality(Samples(Candidate)) >= suite.minHealth /\ ~Degraded(Candidate)

HasBaseline == runs["baseline"] # <<>>
Regression == Passed("baseline") - Passed("candidate")

\* A baseline that was not configured is missed if it is required; one that was
\* skipped because of the candidate is not.
BaselineGates ==
    /\ suite.baselineRequired => Baseline # NoRoute
    /\ HasBaseline =>
        /\ Cardinality(Succeeded("baseline")) = suite.cases
        /\ Regression * 100 <= suite.maxRegression * suite.cases

\* A review counts what it says of the candidate: losses, cases judged good enough.
ReviewGates(review) ==
    suite.reviewRequired =>
        /\ review # NoReview
        /\ review.independent /\ review.complete /\ HasBaseline
        /\ (suite.cases - review.losses) * 100 >= OrElse(suite.minWinOrTie, 80) * suite.cases
        /\ review.good * 100 >= OrElse(suite.minReview, 80) * suite.cases
        /\ review.losses <= OrElse(suite.maxLosses, 1)

\* promotion-check may be run again and again, later rows counted.
Decide ==
    /\ stage = "report"
    /\ \E review \in Reviews \cup {NoReview} :
          verdict' = [review |-> review,
                      status |-> IF /\ HardGates /\ BaselineGates
                                    /\ HealthGates /\ ReviewGates(review)
                                 THEN "pass" ELSE "hold"]
    /\ UNCHANGED <<suite, allow, stage, pc, prior, left, ledger, runs>>

Next ==
    \/ Resolve \/ BeginCase \/ Attempt \/ CaseFails \/ FinishRun
    \/ Decide \/ OtherRow

GoldenSpec == Init /\ [][Next]_vars
-----------------------------------------------------------------------------
(* Properties *)

\* The run, its records and the ledger (evaluation.py 314-451).
GoldenTypeOK ==
    /\ suite \in {Normalised(s) : s \in Suites} /\ allow \in Allowances
    /\ stage \in Stages \cup {"resolve", "report", "refused"}
    /\ pc \in {"idle", "attempt", "failed"} /\ (pc # "idle" => stage \in Stages)
    /\ left \subseteq DOMAIN Inventory /\ (pc = "attempt") = (left # {})
    /\ prior \in 0..Len(ledger)
    /\ \A i \in DOMAIN ledger : ledger[i] \in Row
    /\ \A s \in Stages :
          /\ Len(runs[s]) <= suite.cases
          /\ \A n \in DOMAIN runs[s] : runs[s][n] \in Case /\ runs[s][n].row \in 0..Len(ledger)

Alone(route) == \A i \in DOMAIN ledger : ledger[i].of = NoCase => ledger[i].route # route
Own(i, s) == ledger[i].of # NoCase /\ ledger[i].of.stage = s

\* A case is recorded by a row of its own call; a failed one, which is found by time,
\* task and route only, at worst by a row another process wrote in the meantime, and
\* never by one of an earlier case.  If the filters match the route alone and no other
\* process uses it, the report counts the cost of every row of the run, two rows of one
\* call once.  What was called had its flag and was admitted (evaluation.py
\* 292-311, 346-413).
EvidenceIsOwn ==
    \A s \in Stages :
        LET route == RouteOf(s)
        IN  /\ \A n \in DOMAIN runs[s] :
                  LET c == runs[s][n]
                  IN  c.row # 0 =>
                        LET row == ledger[c.row]
                        IN  /\ row.cost = c.cost
                            /\ c.ok => row.event = "model_call" /\ row.route \in Matches[route]
                            /\ ~c.ok => row.route = route
                            /\ \/ row.of = [stage |-> s, case |-> n]
                               \/ ~c.ok /\ row.of = NoCase
            /\ \A i \in DOMAIN ledger :
                  Own(i, s) =>
                    LET row == ledger[i]
                        info == Inventory[row.route]
                    IN  /\ Free(info) \/ allow.paid
                        /\ ExecutionEnabled(info) \/ allow.trial
                        /\ suite.local => TrustedLocal(info)
                        /\ Matches[route] = {route} /\ Alone(route)
                           /\ row.of.case \in DOMAIN runs[s] =>
                                LET last == runs[s][row.of.case].row
                                IN  /\ ledger[last].of = row.of /\ ledger[last].cost = row.cost
                                    /\ i # last => ledger[last].event = "budget_incident"

\* A candidate that may be registered answered every case, at least three of them; if
\* its filters match it alone, the ledger has one row for each of them and no other of
\* its run, and together they cost no more than the suite allows; a configured baseline
\* was run on all of them, not skipped, and did not do better than the suite lets it,
\* although the decision does not look whether it was skipped; and a required review
\* came from another model family and compared the two (evaluation.py 495-506, 645-757).
PromotionIsEarned ==
    verdict.status = "pass" =>
        /\ suite.cases >= 3
        /\ \A n \in 1..suite.cases : \E i \in DOMAIN ledger :
              /\ ledger[i].of = [stage |-> "candidate", case |-> n]
              /\ ledger[i].event = "model_call"
        /\ Matches[Candidate] = {Candidate} =>
              LET row(n) == runs["candidate"][n].row
              IN  /\ {i \in DOMAIN ledger : Own(i, "candidate")} = {row(n) : n \in 1..suite.cases}
                  /\ \A n \in 1..suite.cases : ledger[row(n)].cost # Unpriced
                  /\ suite.maxCost > 0 =>
                        SumFunction([n \in 1..suite.cases |-> ledger[row(n)].cost]) <= suite.maxCost
        /\ Baseline # NoRoute =>
              /\ Len(runs["baseline"]) = suite.cases
              /\ \A n \in 1..suite.cases : runs["baseline"][n].ok
              /\ Regression * 100 <= suite.maxRegression * suite.cases
        /\ suite.reviewRequired => HasBaseline /\ verdict.review.independent
=============================================================================
