--------------------------- MODULE WorkflowBudget ---------------------------
(***************************************************************************)
(* The pure part of budget.py: the content of one workflow's state file in *)
(* the budget authority, and what each call does to that content.          *)
(*                                                                         *)
(* Money is counted in whole units.  The code's 1e-9 and 1e-12 tolerances  *)
(* only absorb the rounding of binary floats, so comparisons are exact     *)
(* here.  FloatMax stands for the largest finite float: a sum above it is  *)
(* the infinity that math.isfinite rejects.                                *)
(***************************************************************************)
EXTENDS Integers, FiniteSets

CONSTANTS
    Calls,         \* reservation ids drawn by this release (one per paid attempt)
    LegacyIds,     \* reservation ids found in files of an earlier release
    LegacyStates,  \* contents an earlier release can have left in its own file
    FloatMax,      \* the largest finite amount
    Unreadable,    \* a legacy file that fails validation
    NoSource       \* "no migration record"

NonFinite == FloatMax + 1      \* NaN and the infinities, read or requested
Amount    == 0..FloatMax       \* what _finite_amount accepts
Ids       == Calls \cup LegacyIds
Status    == {"active", "stopped"}

\* The "reservations" object of a state file: reservation id -> reserved cost.
Reservations == UNION {[S -> Amount] : S \in SUBSET Ids}

\* What is read of a v1 file once it has passed validation.
LegacyContent == [max: 1..FloatMax, status: Status, spent: Amount, res: Reservations]

\* The content of the authority's file.  "owner" compares its
\* budget_authority_id with this authority, and is "none" when there is no file
\* or an empty object; "source" is the content whose fingerprint the migration
\* record holds.
State == [owner: {"none", "unset", "here", "elsewhere"}, max: 0..NonFinite,
          status: Status, spent: 0..NonFinite, res: Reservations,
          source: LegacyStates \cup {NoSource}]

NoReservation == [i \in {} |-> 0]

Empty == [owner |-> "none", max |-> 0, status |-> "active", spent |-> 0,
          res |-> NoReservation, source |-> NoSource]

Established(s) == s.owner # "none"

Request == [max: 0..NonFinite, callMax: 0..NonFinite, reserved: 0..NonFinite]

ASSUME BudgetConstants ==
    /\ FloatMax \in Nat
    /\ Calls \cap LegacyIds = {}
    /\ IsFiniteSet(LegacyIds)
    /\ NoSource \notin LegacyStates
    /\ Unreadable \notin LegacyStates
    /\ LegacyStates \subseteq LegacyContent
    /\ \A l \in LegacyStates : DOMAIN l.res \subseteq LegacyIds

-----------------------------------------------------------------------------
(* Sums over reservations.  A reservation of a units is counted as the a    *)
(* pairs <<id, 1>> .. <<id, a>>, so that a sum is the size of a finite set.  *)

Units(f) == {u \in (DOMAIN f) \X (1..FloatMax) : u[2] <= f[u[1]]}
Total(f) == Cardinality(Units(f))

With(f, id, amount) == [i \in DOMAIN f \cup {id} |-> IF i = id THEN amount ELSE f[i]]
Without(f, id)      == [i \in DOMAIN f \ {id} |-> f[i]]

Exposure(s) == s.spent + Total(s.res)

-----------------------------------------------------------------------------
(* Shared checks *)

IsFinite(x) == x \in Amount
IsPositive(x) == x \in 1..FloatMax

\* _validated_authority_amounts
AuthorityValid(s) ==
    /\ IsPositive(s.max)
    /\ IsFinite(s.spent)
    /\ Total(s.res) <= FloatMax

-----------------------------------------------------------------------------
(* Import of a v1 file.  "found" is the set of contents of the legacy files *)
(* that exist, one member per fingerprint.                                  *)

\* Mutant of ImportBlocked: a legacy file that changed since its import is overlooked.
ImportBlockedOnce(s, found) ==
    Unreadable \in found \/ \E x, y \in found : x # y

ImportBlocked(s, found) ==
    \/ Unreadable \in found
    \/ \E x, y \in found : x # y
    \/ Established(s) /\ found # {} /\ s.source \notin found

\* Mutant of Adopt: the open reservations of the earlier release are not taken over.
AdoptWithoutReservations(content) ==
    [owner |-> "here", max |-> content.max, status |-> content.status,
     spent |-> content.spent, res |-> NoReservation, source |-> content]

Adopt(content) ==
    [owner |-> "here", max |-> content.max, status |-> content.status,
     spent |-> content.spent, res |-> content.res, source |-> content]

Imported(s, found) ==
    IF Established(s) \/ found = {} THEN s ELSE Adopt(CHOOSE l \in found : TRUE)

-----------------------------------------------------------------------------
(* reserve_workflow_budget *)

RequestInvalid(req) ==
    ~(IsPositive(req.max) /\ IsFinite(req.callMax) /\ IsFinite(req.reserved))

Fresh(req) ==
    [owner |-> "here", max |-> req.max, status |-> "active", spent |-> 0,
     res |-> NoReservation, source |-> NoSource]

\* The state the checks look at: imported, or created by this very request.
Opened(s, found, req) ==
    LET i == Imported(s, found) IN IF Established(i) THEN i ELSE Fresh(req)

Owned(s) == [s EXCEPT !.owner = "here"]

Unusable(s) == ~AuthorityValid(s) \/ s.owner = "elsewhere"

\* Mutant of OverLimit: the open reservations of other calls are not counted.
OverLimitAlone(s, req) == s.spent + req.reserved > req.max

\* A projection that overflows is above every finite maximum.
OverLimit(s, req) == Exposure(s) + req.reserved > req.max

Refused(s, req) == s.max # req.max \/ s.status # "active" \/ OverLimit(s, req)

\* Mutant of Hold: the reservation table is replaced instead of extended.
HoldOnly(s, id, amount) == [s EXCEPT !.res = With(NoReservation, id, amount)]

Hold(s, id, amount) == [s EXCEPT !.res = With(s.res, id, amount)]

Granted(s, found, req) ==
    LET o == Opened(s, found, req)
    IN  ~RequestInvalid(req) /\ ~ImportBlocked(s, found) /\ ~Unusable(o) /\ ~Refused(o, req)

\* Mutant of AfterReserve: the requested maximum is stored before it is compared.
AfterReserveRaisingMax(s, found, id, req) ==
    LET o == Opened(s, found, req)
    IN  IF RequestInvalid(req) \/ ImportBlocked(s, found) THEN s
        ELSE IF Unusable(o) THEN o
        ELSE IF Refused(o, req) THEN [Owned(o) EXCEPT !.max = req.max]
        ELSE Hold(Owned(o), id, req.reserved)

\* What is on disk afterwards.  A refusal raises, and the state as changed so
\* far is saved all the same: the "finally" of _locked_state runs.
AfterReserve(s, found, id, req) ==
    LET o == Opened(s, found, req)
    IN  IF RequestInvalid(req) \/ ImportBlocked(s, found) THEN s
        ELSE IF Unusable(o) THEN o
        ELSE IF Refused(o, req) THEN Owned(o)
        ELSE Hold(Owned(o), id, req.reserved)

-----------------------------------------------------------------------------
(* release_workflow_reservation *)

AfterRelease(s, id) == [s EXCEPT !.res = Without(s.res, id)]

-----------------------------------------------------------------------------
(* finalize_workflow_reservation *)

SettleInvalid(s, cost) == ~IsFinite(cost) \/ ~AuthorityValid(s)

\* Mutant of SettleOverflows: the sum is not checked.
SettleNeverOverflows(s, cost) == FALSE

SettleOverflows(s, cost) == s.spent + cost > FloatMax

\* The call raises instead of settling.
SettleRaises(s, cost) == SettleInvalid(s, cost) \/ SettleOverflows(s, cost)

\* Mutant of Violation: only the limit of the single call stops the workflow.
ViolationOfCall(s, req, cost) == cost > req.callMax \/ s.max # req.max

Violation(s, req, cost) ==
    cost > req.callMax \/ s.max # req.max \/ s.spent + cost > s.max

\* Mutant of Charged: the reservation is kept beside the settled cost.
ChargedTwice(s, id, cost) == [s EXCEPT !.spent = s.spent + cost]

\* Mutant of Charged: the estimate is charged instead of the cost.
ChargedEstimate(s, id, cost) ==
    [s EXCEPT !.res = Without(s.res, id),
              !.spent = s.spent + (IF id \in DOMAIN s.res THEN s.res[id] ELSE cost)]

\* The settlement itself.  The incident or the warning is written after it and
\* before the stop, so this is what is saved when that write fails.
Charged(s, id, cost) ==
    [s EXCEPT !.res = Without(s.res, id), !.spent = s.spent + cost]

\* Mutant of AfterSettle: a settlement within the limits reactivates the workflow.
AfterSettleReopening(s, id, req, cost) ==
    IF SettleInvalid(s, cost) THEN s
    ELSE IF SettleOverflows(s, cost) THEN [s EXCEPT !.status = "stopped"]
    ELSE [Charged(s, id, cost)
            EXCEPT !.status = IF Violation(s, req, cost) THEN "stopped" ELSE "active"]

AfterSettle(s, id, req, cost) ==
    IF SettleInvalid(s, cost) THEN s
    ELSE IF SettleOverflows(s, cost) THEN [s EXCEPT !.status = "stopped"]
    ELSE [Charged(s, id, cost)
            EXCEPT !.status = IF Violation(s, req, cost) THEN "stopped" ELSE @]
=============================================================================
