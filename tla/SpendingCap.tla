----------------------------- MODULE SpendingCap -----------------------------
(***************************************************************************)
(* What a workflow budget promises, with no files, formats or ids: an      *)
(* account with a fixed limit that admits a call only while the spend and  *)
(* every open liability, the new one included, fit under the limit.        *)
(***************************************************************************)
EXTENDS Integers

CONSTANT Calls

VARIABLES
    stage,      \* "none" until the account is opened, then "active" or "stopped"
    limit,
    spent,
    liability,  \* the sum of the open reservations
    admitted    \* the calls that were let through

capVars == <<stage, limit, spent, liability, admitted>>

CapInit ==
    /\ stage \in {"none", "active", "stopped"}
    /\ limit \in Nat
    /\ spent \in Nat
    /\ liability \in Nat
    /\ stage = "none" => spent = 0 /\ liability = 0
    /\ admitted = {}

\* The account is opened, empty or with what an earlier one left.
Open ==
    /\ stage = "none"
    /\ stage' \in {"active", "stopped"}
    /\ limit' \in Nat
    /\ spent' \in Nat
    /\ liability' \in Nat
    /\ UNCHANGED admitted

Admit ==
    \E c \in Calls \ admitted :
        /\ admitted' = admitted \cup {c}
        /\ stage \in {"none", "active"} /\ stage' = "active"
        /\ limit' \in Nat /\ spent' \in Nat /\ liability' \in Nat
        /\ stage = "active" => limit' = limit /\ spent' = spent /\ liability' >= liability
        /\ spent' + liability' <= limit'

\* A cost is charged against some liability, a liability is given up, or the
\* account is stopped.
Charge ==
    /\ stage \in {"active", "stopped"}
    /\ spent' \in Nat /\ spent' >= spent
    /\ liability' \in Nat /\ liability' <= liability
    /\ stage' \in {stage, "stopped"}
    /\ UNCHANGED <<limit, admitted>>

CapNext == Open \/ Admit \/ Charge

CapSpec == CapInit /\ [][CapNext]_capVars
=============================================================================
