--------------------------- MODULE RouteSelection ---------------------------
(***************************************************************************)
(* Which routes run_llm_task may try for a call, in which order, and which *)
(* cached answers it may still use (router.py 1140-1166, 1553-1768,        *)
(* 3312-3355, 6226-6345).                                                  *)
(*                                                                         *)
(* An inventory is what configured_models returns, less the routes whose   *)
(* adapter lifecycle state forbids them: a function from routes to what is *)
(* declared of them.  The provider and model filters are one set of a      *)
(* call; what a call needs the endpoint to be able to do is its own.       *)
(***************************************************************************)
EXTENDS Integers, FiniteSets

CONSTANTS
    Routes,     \* provider/model pairs
    TaskTypes,
    Unpriced,   \* the price of a token of a route without one
    NoLimit     \* the max_cost_usd of a call without one

ASSUME SelectionConstants == Unpriced \notin Nat /\ NoLimit \notin Nat

\* "local" is free, of billing class local and on a loopback host; "trial" is an
\* unguarded trial quota; "free" is every other free route.
RouteInfo == [kind: {"local", "free", "trial", "paid"}, price: Nat \cup {Unpriced},
              band: Nat,
              native: BOOLEAN,            \* it takes a native JSON schema
              openrouter: BOOLEAN,        \* its family is OpenRouter
              tasks: SUBSET TaskTypes,    \* those its modality suits
              listed: SUBSET TaskTypes]   \* those _choice_task_types lists

IsInventory(inv) == DOMAIN inv \subseteq Routes /\ \A r \in DOMAIN inv : inv[r] \in RouteInfo

CallInfo == [task: TaskTypes,
             role: BOOLEAN,          \* the task is a role with quality bands
             simple: BOOLEAN,        \* judged simple, and no vision or transcript task
             preferFree: BOOLEAN, paid: BOOLEAN,
             local: BOOLEAN,         \* local_only without allow_external
             limit: Nat \cup {NoLimit},
             input: Nat,             \* tokens of its messages
             output: Nat,            \* tokens of output it reserves
             estimate: Nat,          \* token_estimate + 128, and 1024 of output
             guard: Nat \ {0},       \* input_token_guard_factor, 1 if it has none
             floor: Nat,             \* the least quality band
             only: SUBSET Routes,    \* what the provider and model filters match
             schema: BOOLEAN,        \* its response format is a JSON schema
             controls: BOOLEAN,      \* it has OpenRouter controls
             avoid: SUBSET Routes,
             exact: BOOLEAN,         \* allow_unqualified_explicit_route
             trial: BOOLEAN]         \* allow_unprotected_trial_route

Free(info) == info.kind # "paid"
FreeOnlyEligible(info) == info.kind \in {"local", "free"}
ExecutionEnabled(info) == info.kind # "trial"
TrustedLocal(info) == info.kind = "local"

\* The budget gate before a call is sent (_budget_status at 6380-6387).  A price includes
\* the route's own guard factors, which both checks apply.  Without max_output_tokens the
\* output is cut to what the limit leaves, and output is the least.
Affordable(info, call) ==
    call.limit # NoLimit /\ ~Free(info) =>
        /\ info.price # Unpriced
        /\ info.price * (call.input * call.guard + call.output) <= call.limit

\* The one before a cached answer is used: it knows neither the messages nor the output
\* nor the guard factor of the call (_budget_status at 3352 with the tokens of 6143).
WithinEstimate(info, call) ==
    call.limit # NoLimit /\ ~Free(info) =>
        info.price # Unpriced /\ info.price * call.estimate <= call.limit

\* A simple task that prefers free routes never pays (router.py 6055-6056).
Effective(call) ==
    [call EXCEPT !.paid = @ /\ ~(call.simple /\ call.preferFree /\ ~call.role)]

\* Routes of the modality of the task, without unguarded trials (_model_choices).
Suited(inv, call) ==
    {r \in DOMAIN inv : ExecutionEnabled(inv[r]) /\ call.task \in inv[r].tasks}

\* Its two pools (_model_choices with only_free, _paid_fallback_choices).
FreeRoutes(inv, call) == {r \in Suited(inv, call) : FreeOnlyEligible(inv[r])}
PaidRoutes(inv, call) == {r \in Suited(inv, call) : ~Free(inv[r])}

\* Both if the call may pay, and for a role only the routes of its quality floor
\* (_role_policy_choices).
Pool(inv, call) ==
    {r \in FreeRoutes(inv, call) \cup (IF call.paid THEN PaidRoutes(inv, call) ELSE {}) :
        call.role => inv[r].band >= call.floor}

\* The pool of a golden evaluation: whatever the filter matches, trials included.
ExactPool(inv, call) ==
    {r \in DOMAIN inv : call.task \in inv[r].listed /\ (Free(inv[r]) \/ call.paid)}

\* What the provider and model filters match, and what the call asks to try last.
Named(call, r) == r \in call.only
Avoided(call, r) == r \in call.avoid

\* The endpoint can do what the call needs (6325-6345).
Able(info, call) ==
    (call.schema => info.native) /\ (call.controls => info.openrouter)

\* The routes a call may try, as far as the inventory decides (6226-6345).
Admitted(inv, call) ==
    {r \in IF call.exact THEN ExactPool(inv, call) ELSE Pool(inv, call) :
        /\ call.local => TrustedLocal(inv[r])
        /\ ExecutionEnabled(inv[r]) \/ (call.exact /\ call.trial)
        /\ Named(call, r) /\ Able(inv[r], call)}

\* Mutant of Rank: paid routes come first.
RankPaidFirst(inv, call, r) ==
    (IF Avoided(call, r) THEN 2 ELSE 0)
    + (IF call.role \/ call.exact \/ Free(inv[r]) # call.preferFree THEN 0 ELSE 1)

\* The preferred kind first, and avoided routes after all others.  The order among
\* equals, and that of roles, which follows cost and history, is left open.
Rank(inv, call, r) ==
    (IF Avoided(call, r) THEN 2 ELSE 0)
    + (IF call.role \/ call.exact \/ Free(inv[r]) = call.preferFree THEN 0 ELSE 1)

NextRoutes(inv, call, left) ==
    {r \in left : \A s \in left : Rank(inv, call, r) <= Rank(inv, call, s)}

\* Mutant of StillAllowed: a paid answer may serve a call that wants free ones.
StillAllowedPaid(inv, call, r) ==
    /\ r \in Suited(inv, call)
    /\ call.local => TrustedLocal(inv[r])
    /\ Named(call, r)
    /\ call.role => inv[r].band >= call.floor
    /\ WithinEstimate(inv[r], call)

\* _cached_choice_policy_status, which does not look at what the endpoint can do.
StillAllowed(inv, call, r) ==
    /\ r \in Suited(inv, call)
    /\ call.preferFree /\ Free(inv[r]) => FreeOnlyEligible(inv[r])
    /\ call.preferFree /\ ~call.paid => Free(inv[r])
    /\ call.local => TrustedLocal(inv[r])
    /\ Named(call, r)
    /\ call.role => inv[r].band >= call.floor
    /\ WithinEstimate(inv[r], call)
=============================================================================
