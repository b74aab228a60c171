----------------------------- MODULE MCPaidCall -----------------------------
(* Small instances of PaidCall for TLC. *)
EXTENDS PaidCall, TLC

CONSTANTS a, b

Route(kind, projected) == [kind |-> kind, projected |-> projected]

Task(budget, output, choices) ==
    [budget |-> budget, output |-> output, max |-> 3, callMax |-> 2, choices |-> choices]

Inherited(spent) ==
    [owner |-> "here", max |-> 3, status |-> "active", spent |-> spent,
     res |-> NoReservation, source |-> NoSource]

MCCalls == UNION {{t} \X DOMAIN Plan[t].choices : t \in Tasks}

MCRequests == {[max |-> 3, callMax |-> 2, reserved |-> r] : r \in Amount}

MCCosts == {0, 1, 2, 4}

MCFewCosts == {0, 1, 2, 3}

MCNoLegacyStates == {}

-----------------------------------------------------------------------------
(* Two tasks of one workflow, one of them with governed output.  A settlement *)
(* can pass the call limit, the workflow limit and the largest amount.        *)

MCWorkflowPlan ==
    (a :> Task("workflow", "json", <<Route("paid", 2), Route("paid", 1)>>)) @@
    (b :> Task("workflow", "text", <<Route("paid", 1), Route("free", 0)>>))

MCWorkflowFiles == {Inherited(1)}

-----------------------------------------------------------------------------
(* Every kind of choice in one task: skipped by the gate, free, without a     *)
(* workflow; an earlier release may still write its own budget file.          *)

MCMixedPlan ==
    (a :> Task("workflow", "text", <<Route("paid", Unpriced), Route("paid", 1)>>)) @@
    (b :> Task("single", "json", <<Route("paid", 3), Route("paid", 2), Route("free", 0)>>))

MCMixedFiles == {Empty}

MCMixedLegacyStates ==
    {[max |-> 3, status |-> "active", spent |-> 1, res |-> NoReservation]}
=============================================================================
