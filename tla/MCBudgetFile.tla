---------------------------- MODULE MCBudgetFile ----------------------------
(* A small instance of BudgetFile for TLC. *)
EXTENDS BudgetFile, TLC

CONSTANT c3

\* Two of the calls run in threads of one process.
MCPid == [c \in Calls |-> IF c = c3 THEN "second" ELSE "first"]

MCInitialFiles == {Empty}

MCRequests == {[max |-> 3, callMax |-> 2, reserved |-> 1]}
=============================================================================
