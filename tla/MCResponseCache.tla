--------------------------- MODULE MCResponseCache ---------------------------
(***************************************************************************)
(* Three routes, a local, a free and a paid one, whose declarations change *)
(* (the free one starts to cost, the local one disappears, the paid one    *)
(* loses its price and its native schemas), and seven calls over them.     *)
(***************************************************************************)
EXTENDS ResponseCache, TLC

CONSTANTS local, free, paid, t1, t2

MCRoutes == {local, free, paid}
MCTasks == {t1, t2}
MCSymmetry == Permutations(MCTasks)
MCTaskTypes == {"draft", "plan"}

Info(kind, price, band, native) ==
    [kind |-> kind, price |-> price, band |-> band, native |-> native, openrouter |-> native,
     tasks |-> MCTaskTypes, listed |-> MCTaskTypes]

Before == [r \in MCRoutes |-> CASE r = local -> Info("local", 0, 1, FALSE)
                                [] r = free -> Info("free", 0, 2, FALSE)
                                [] r = paid -> Info("paid", 1, 2, TRUE)]
After == [r \in {free, paid} |-> CASE r = free -> Info("paid", 1, 2, FALSE)
                                   [] r = paid -> Info("paid", Unpriced, 2, FALSE)]
MCInventories == {Before, After}

Draft == [task |-> "draft", role |-> FALSE, simple |-> FALSE, preferFree |-> TRUE,
          paid |-> TRUE, local |-> FALSE, limit |-> 2, input |-> 1, output |-> 1,
          estimate |-> 2, guard |-> 1, floor |-> 0, only |-> MCRoutes, schema |-> FALSE,
          controls |-> FALSE, avoid |-> {}, exact |-> FALSE, trial |-> FALSE]
Unpaid == [Draft EXCEPT !.preferFree = FALSE, !.paid = FALSE]
MCAsked == {Draft,
            [Draft EXCEPT !.guard = 2],
            [Draft EXCEPT !.simple = TRUE, !.avoid = {local}],
            [Draft EXCEPT !.local = TRUE],
            [Draft EXCEPT !.task = "plan", !.role = TRUE, !.floor = 2, !.limit = NoLimit,
                          !.schema = TRUE, !.controls = TRUE],
            [Draft EXCEPT !.exact = TRUE, !.only = {free}, !.estimate = 3],
            Unpaid}

MCKey(c) == [c EXCEPT !.exact = FALSE, !.trial = FALSE, !.guard = 1]
Seed(c, route, made, stamp, valid) ==
    [k \in {MCKey(Effective(c))} |->
        [route |-> route, stamp |-> stamp, origin |-> Effective(c), made |-> made,
         valid |-> valid]]
MCSeeds == {[k \in {} |-> 0],
            Seed(Draft, free, Before[free], 0, TRUE),
            Seed(Draft, paid, Before[paid], 0, FALSE),
            Seed(Unpaid, paid, Info("free", 0, 2, FALSE), 0, TRUE)}
=============================================================================
