------------------------- MODULE MCAdapterLifecycle -------------------------
(* Small instances of AdapterLifecycle. *)
EXTENDS AdapterLifecycle, TLC

CONSTANTS text, vision, ours, other

MCRoutes == {ours, other}

\* Two adapters of one model, by modality; one of them was another model's before.
MCTwins ==
    {[adapter |-> text, route |-> ours, state |-> "candidate"],
     [adapter |-> vision, route |-> ours, state |-> "shadow"],
     [adapter |-> vision, route |-> other, state |-> "production"]}

\* "other" passed: a decision that is of no use for "ours".
MCDecisions == {[route |-> ours, passed |-> TRUE], [route |-> other, passed |-> TRUE]}

MCRequests ==
    [target: {"candidate", "qualified", "production", "retired"}, healthy: {TRUE}, approved: {TRUE}]
    \cup {[target |-> "candidate", healthy |-> FALSE, approved |-> TRUE],
          [target |-> "production", healthy |-> TRUE, approved |-> FALSE]}

Symmetry == Permutations(Commands)

=============================================================================
