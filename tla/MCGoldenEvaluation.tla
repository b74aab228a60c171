-------------------------- MODULE MCGoldenEvaluation --------------------------
(***************************************************************************)
(* A paid candidate, a baseline on trial quota whose filters also match a  *)
(* dearer route, and three cases, governed output in one suite.  The other *)
(* suite never gets to its baseline: three answers of the candidate cost   *)
(* more than it allows.                                                    *)
(***************************************************************************)
EXTENDS GoldenEvaluation

CONSTANTS cand, base, twin, none

MCTaskTypes == {"audit", "plan"}
MCRoutes == {cand, base, twin}
Info(kind, price) == [kind |-> kind, price |-> price, band |-> 0,
                      native |-> TRUE, openrouter |-> FALSE,
                      tasks |-> MCTaskTypes, listed |-> MCTaskTypes]
MCInventory == [r \in MCRoutes |-> CASE r = cand -> Info("paid", 1)
                                     [] r = base -> Info("trial", 0)
                                     [] r = twin -> Info("paid", 2)]
MCMatches == [r \in MCRoutes |-> IF r = cand THEN {cand} ELSE {base, twin}]

Suite == [task |-> "audit", role |-> TRUE, simple |-> FALSE, governed |-> TRUE,
          schema |-> TRUE,
          local |-> FALSE, cases |-> 3,
          minCases |-> Absent, minPass |-> 60, maxRegression |-> Absent, maxCost |-> Absent,
          maxCallCost |-> 1, minHealth |-> Absent, baselineRequired |-> Absent,
          reviewRequired |-> Absent, minReview |-> 60, minWinOrTie |-> 60, maxLosses |-> 0]
MCSuites == {[Suite EXCEPT !.minCases = 3],
             [Suite EXCEPT !.task = "plan", !.governed = FALSE, !.schema = FALSE,
                           !.minCases = 3, !.minPass = 30,
                           !.maxCost = 2, !.reviewRequired = FALSE]}

MCReviews == {[independent |-> i, complete |-> TRUE, losses |-> 1, good |-> 2] : i \in BOOLEAN}
MCAllowances == {[paid |-> TRUE, trial |-> TRUE], [paid |-> TRUE, trial |-> FALSE]}
=============================================================================
