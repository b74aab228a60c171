--------------------------- MODULE MCRouteHealth ---------------------------
(* Small instances of RouteHealth. *)
EXTENDS RouteHealth

CONSTANTS listed, found, s1, s2

MCRoutes == {listed, found}
MCDeclared == {listed}
MCTrials == {found}
MCNone == {}

MCTransient == [gone |-> FALSE, dead |-> FALSE]
MCMissing == [gone |-> TRUE, dead |-> TRUE]
MCUsual == {MCTransient, MCMissing}
MCOdd == {[gone |-> TRUE, dead |-> FALSE], [gone |-> FALSE, dead |-> TRUE]}
MCEvery == MCUsual \cup MCOdd

MCPair == {s1, s2}
MCTaskAndTrial == [s \in MCPair |-> IF s = s1 THEN "task" ELSE "trial"]
MCTaskAndRefresh == [s \in MCPair |-> IF s = s1 THEN "task" ELSE "refresh"]
MCRefreshAndAdapter == [s \in MCPair |-> IF s = s1 THEN "refresh" ELSE "adapter"]

=============================================================================
