# Verification of smart-llm-router

TLA+ models of the router in `src/smart_llm_router/`, checked with TLC on small
instances and, where marked, proved with TLAPS for every value of the constants.
Line numbers below are those of the sources at this commit; `PROJECT.json` maps
every definition to its lines.

## 1. The system

The router sends a task to one of many model routes. Free routes come first; a
paid route is tried only inside a budget. It is a library and a command line
program: there is no server. Concurrency comes from several processes (agents,
the scheduled health cycle, shells) and threads that share the same files.

| component | state it keeps | operations | interacts with |
|---|---|---|---|
| workflow budget authority (`budget.py`) | one JSON file per workflow: maximum, spend, status, open reservations, migration record; a lock file | reserve, release, finalize; import of v1 files of earlier releases | called by the paid call loop; reads legacy directories; writes incidents, warnings, receipts |
| paid call loop (`router.py` `run_llm_task` 6350-6953) | locals of one attempt: choice, reservation, settled or not | gate, reserve, send, settle, record, release, next choice | budget authority, provider, ledger, route health, response cache |
| route health and cooldown (`router.py` 937-1211, 5582-5828, 7572-7585) | `route-state` and health-evidence files; a map each task loads once | record success or failure, refresh, maintain, clear | the loop, route selection |
| response cache (2460-2572, 3298-3355, 6126-6222, 6619-6636) | one JSON file, bounded | look up with a policy recheck, drop, store, evict | the loop, route selection |
| route selection (1140-1166, 1553-1768, 6226-6346) | none | filter, order, role policy, paid fallback | health, discovery, settings |
| structured output and thinking plan (2581-3290, 4691-4817) | none | validate an answer, split output tokens | the loop |
| free pool discovery (800-935, 7514-7546) | discovered-models file | merge, staleness | selection |
| provider transport and adapters (4913-5497) | none | one request with a timeout | the loop |
| adapter lifecycle (`lifecycle.py`) | a state file and a receipt per transition | evaluate, persist | promotion decisions |
| workflow governance (`governance.py`, role pipeline in `router.py` 4181-4250) | none; contracts passed in | validate a contract, build a plan, evaluate a checkpoint | the agent that runs the plan |
| golden evaluation (`evaluation.py`) | case records of a run; reads the ledger | run suites, decide promotion | the loop, the ledger, lifecycle |
| upstream request controls (`controls.py`) | none | validate, decide whether the cache may be used | the loop, the cache |
| configuration, credential catalog, incidents, command line | none, or write-only records | parse, validate, print | everything |

What is hard:

* **Interleaving.** Several callers share one workflow file. Admission is a check
  on what was read, and the calls it admits are under way while others write.
* **Legacy files.** An earlier release may be running beside this one and
  rewriting its own copy of the budget, outside the authority's lock.
* **Failure between steps.** An entry point that raises still saves the state as
  changed so far (the `finally` of `_locked_state`); incidents and receipts are
  written in between; a process may die anywhere.
* **One handler for many errors.** Everything after the reservation runs in one
  `try`; a file error after a settled answer and a provider timeout take the same
  path.
* **Boundaries.** Amounts may be NaN or infinite, finite sums may overflow, costs
  exceed estimates.
* **Stale maps.** Health, cache and lifecycle files are rewritten from copies
  that were read long before.
* **One rule, two places.** A cached answer is rechecked by other code than the one
  that selects routes; whether a baseline ran and whether it won, whether a verifier
  is independent and who it is, are decided in different functions.
* **Attribution.** A failed evaluation case is looked up in a ledger every process
  appends to, by task, provider and model.

What makes each component correct:

* authority: exposure stays within the maximum up to settlement variance; no
  reservation or settlement is lost, repeated or reset; a stop is final; an
  import is never undone and disagreeing legacy files block admission;
* paid call loop: nothing paid is sent without its reservation; what is owed is
  charged or still reserved; verdicts are final; tasks end and leave nothing
  reserved;
* route health: while nobody interferes, the files show what last happened to
  each route; under interference, cooldowns stay bounded by real failures and
  an unconfigured route is tried only after a real, recent answer, or on a trial
  that a golden evaluation was permitted;
* response cache and route selection: a hit answers the very question, and was made by a
  route that could do what the call needs and was allowed to get its input; every
  answer obeys the policy of its call; entries are lost only to
  overlapping or failed saves;
* lifecycle: only allowed transitions, production only with its evidence, the
  state file agrees with a receipt; a route is let through on a promotion;
* governance: nobody verifies its own family in a plan that may be run; a run that
  follows its plan stays within the ceiling; a workflow completes only with
  everything proved, after its last repair was verified;
* evaluation: a case is judged by its own call; a candidate passes only if it answered
  every case within its cost and did not lose to a baseline that really ran.

`PROJECT.json` lists the hazards at their lines, with the properties that cover
each one or the reason why none does.

## 2. The modules

```
            SpendingCap                 what a budget promises
                ^   refined by
WorkflowBudget -> BudgetAuthority       the file's content; the authority's steps
                ^            ^          refined by
           BudgetFile     PaidCall      lock/temp/rename; the attempt loop

      RouteSelection                    which routes a call may try; the recheck
        ^          ^     extended by
ResponseCache  GoldenEvaluation         the unlocked cache; cases, ledger, promotion

RouteHealth                             the two unlocked files of route health
AdapterLifecycle                        declarations, gates, receipts; the check of a route
WorkflowGovernance                      contracts, plans, checkpoints, an agent that runs them
```

**WorkflowBudget** has no variables. It is the content of a state file (`State`)
and what each entry point makes of it: `AfterReserve`, `AfterRelease`,
`AfterSettle`, each with the early returns of the code in their order. Money is
counted in whole units: the code's tolerances of 1e-9 and 1e-12 absorb float
rounding only, so comparisons are exact. `FloatMax` is the largest finite float
and `NonFinite` stands for NaN and the infinities, so the finite-number checks
and the settlement overflow are real cases. A sum of reservations is the size of
the set of their units, which needs no recursion and lets the provers use the
library's facts about cardinality.

**BudgetAuthority** is one workflow with any number of callers. Its variables are
the file, the legacy files, and per caller (one per reservation id) how far it
is, what it scanned and what it asked for; `charged`, `inherited` and `overrun`
are histories that only properties read. Each entry point is one action, since
it runs under the file lock; the scan of the legacy files is an action of its own,
because those files are outside the lock and `LegacyChanges` may rewrite them
at any time. `ReserveFails`, `SettleFails` and `SettleUnreported` are file errors:
the last one is the settlement that was saved while its incident or warning could
not be written.

**SpendingCap** is the abstract account: a limit, a spend and a liability, and
admission only while all fit. `BudgetAuthority!ImplementsCap` states the
refinement; the mapping is `Stage`, `file.max`, `file.spent`, the sum of the open
reservations, and the callers that were let through.

**BudgetFile** takes `_locked_state` apart: wait for the lock, read, scan, write the
temporary file (named after the process), rename, unlock; any step can raise and
any process can die between two steps, its lock then being dropped by the system.
`ImplementsAuthority` says that every behaviour is one of `BudgetAuthority`: the
rename is the one step at which an entry point takes effect.

**PaidCall** is the loop of `run_llm_task`: one process per task, with the gate,
the scan, the reservation, the send, the reply, the settlement, the records and
the three exception handlers as steps. Attempt `i` of task `t` is caller `<<t, i>>`
of `BudgetAuthority`; `reservation` and `reservation_finalized` are read off that
caller's `phase`. A route is its kind and its projected cost (or no price); a
reply is its kind and its cost. Ledger, health and cache writes are steps that
can fail (`RecordFails`, `Onward`), since the handlers react to that; their
content is left out. `troubled` is a history of attempts for which a settlement or a file
operation raised, so that properties can say exactly where their exceptions are.

**RouteHealth** is the cooldown map and the health evidence, two files that no lock
protects, and any number of sessions that use them: a task that prefers free routes
(which refreshes the pool first when every route cools down, then loads the map
again), a golden evaluation, a specialised adapter (which loads the map once to filter and once to use),
a refresh of the pool, and the command that clears the cooldowns. A task may try what is
`Eligible` (`_is_execution_eligible_choice`): a route that does not cool down and that the
configuration names or the evidence shows as healthy. A session of kind "trial" is a task
with the two permissions of `evaluation.py` 358-373: it takes the routes its filters match,
skips the refresh, and may besides try a free route of billing class `trial_quota`
(`Trials`) that does not cool down, declared and healthy or not (`OnTrial`, `router.py`
6311-6317). `Barred` are the trials without a guard, which no other session may try. All
enabled routes are one pool here; which of them a task type or a role leaves is in
`RouteSelection`. A session keeps
the copy of the map it loaded (`copy`) and each record rewrites the whole file from
it; the evidence is read again for each record (`seen`) and rewritten as well. A
rewrite is two steps, since `write_text` truncates the file and then fills it, and a
load in between sees an empty map. Two writers that overlap (`pen` is "mixed") leave
the content of one of them or a mixture that is no JSON, or not even text; in the
last case (`states.bad`) every load raises. A cooldown is `[until, count, dead]`: `dead` is
what `classify_route_failure` makes of the stored reason, which a load uses to renew
the quarantine; `gone` (a 404 or 410) is what the cooldown's length depends on,
and the two need not agree. Lengths are one quarantine and one progressive
capped cooldown; Retry-After and the lengths per error class are left out. `latest`,
`lastOk`, `lastBad`, `gone` and `overlap` are histories. `Horizon`, `MaxFaults` and
`MaxActive` bound the instants, the file errors and deaths, and how many sessions
are at work at once.

**AdapterLifecycle** is one directory of declarations, any number of `adapter-lifecycle`
commands and any number of checks of a route (`_adapter_lifecycle_route_allowed`). A
command reads a declaration, written by hand or a state file as it is then, judges
the transition (`Judged`), writes the receipt and, when it passed, the state file;
between these steps every other command may run, and it may fail or die at each
write (`Fail`). A write is one step, since it is a rename of a temporary file. A
check lists the files (`List`) and reads them one by one in any order (`Read`) while
commands replace them. The evidence of a request is whether the route is healthy and
whether the owner's part is complete; that of a promotion decision is its route and
whether it passed. Operators' declarations (`Handwritten`) are what a state rests
on when no receipt led to it.

**RouteSelection** has no variables. A route is what an inventory declares of it: its
kind (local, free, an unguarded trial quota, paid), price of a token, quality band, task
types, and whether it takes native JSON schemas and is an OpenRouter route. `Admitted` is what `run_llm_task` may try for a call, `Rank` the order it tries
them in as far as a property depends on it (free before paid where preferred, avoided
last), `StillAllowed` the recheck of a cached route (`_cached_choice_policy_status`).
The recheck is translated from its own lines and differs from the selection in what it
looks at. Each has its own price of a call: the gate before a send (`Affordable`, 6348-6387)
multiplies by the input of the real messages, the guard factor and the output reserved;
the recheck (`WithinEstimate`, 3352) by `token_estimate + 128` and the default output, without
a guard factor. The two numbers of tokens are independent in a call. Only the selection looks
at what the endpoint can do (`Able`: native schemas, OpenRouter controls, 6325-6345). The
provider and model filters, which both apply, are one set of a call.

**ResponseCache** is the cache file and any number of tasks: lookup, recheck, removal
of an entry that is rejected, selection, the attempts one by one, the store. A task
takes its settings once (`seen`), while keys, lifecycle states and discovered routes
are those of the day (`Visible`), and `Reconfigure` changes them at any time. A save
is computed from what was read (`copy`, after eviction), then truncates, then fills the
file; reads between these steps see an empty file, a part of one, or what cannot be decoded.
`book` is the history of entries stored and not rejected, by which the loss of one can be
stated; `origin` and `made` of an entry are histories too: the call it was stored for, and
what its route was declared as when it answered. The key of an entry (`KeyOf`) is the call
without the permissions of a golden evaluation and without the guard factor, which
`_cache_key` leaves out. Initial entries are some that this release stored, since its cache
policy version is part of the key. Attempts are a route that is skipped, fails or answers; reservations and records are
in `PaidCall` and `RouteHealth`.

**GoldenEvaluation** is a `golden-eval` and the `promotion-check` that follows: the
thresholds of a suite as `validate_golden_suite` leaves them, each case as one call with
the attempts of its loop and the rows they write, the search for the row of a failed
case (`FailedCaseRow`), the skipped cases after it, the entry check of the baseline,
the report and the decision. Other processes append to the same ledger at any step
(`OtherRow`). A row carries who wrote it (`of`), which only properties read.
Whether a case passes its assertions is open, and a blind review is a record of its
counts and its two conditions.

**WorkflowGovernance** is `workflow-plan` and `workflow-check` as pure operators (`PlanOf`,
`Decided`) and an agent that uses them: it makes the plan, performs the stages in order,
pays at most what a stage was projected at, reports any finding at each checkpoint, and does
what the decision says. The agent is external; it is honest, since the code keeps no
record by which it could notice another one. v1 and v2 contracts have their own
stages, hard stops and decisions.

The `MC*` modules give the constants small values. Operators whose comment
begins with "Mutant of" are not part of any model: each is a plausible slip in the
definition that follows it, kept to show that a property can fail.

## 3. The runs

| run | instance | shows |
|---|---|---|
| `budget` | 2 callers (symmetric), 2 legacy directories over three v1 contents, absent and unreadable, rewritten at any time; amounts up to 5; four initial files (none, v1 in place, another authority's copy, a non-finite one); requests with a different maximum and a non-finite estimate | `TypeOK`, `ActiveWithinMax`, `ExposureBounded`, `ReservationsMatchCallers`, `SpentIsAccounted`, `StopIsFinal`, `NothingIsReset`, `ImportedIsKept`, `AdmissionAgreesWithLegacy`, `ImplementsCap` |
| `paid_workflow` | 2 tasks of one workflow, 2 routes each, one task with governed output, a maximum of 3 of which 1 is spent | `PaidTypeOK`, `SentIsReserved`, `OwedIsAccounted`, `LeftoversAreExplained`, `FinalVerdicts`, `ImplementsAuthority` |
| `paid_mixed` | a workflow task and one with only a per-call limit; unpriced, overpriced, paid and free routes; a v1 file that changes | `AnswersArePaidFor`, `TaskEnds`, `ReservationResolved` |
| `paid_liability` | as `paid_workflow` | violation of `LiabilityKept` |
| `file` | 3 calls, 2 of them threads of one process; a legacy directory that becomes unreadable and is removed | `CopyIsCurrent`, `ImplementsAuthority`, `LockIsFreed` |
| `health_shared` | a task and a golden evaluation at once, a configured route and a discovered one on a guarded trial quota, 2 instants, usual failures (transient; gone and dead) | `HealthTypeOK`, `CooldownsAreBounded`, `UndeclaredNeedsSuccess` |
| `health_alone` | a refresh and an adapter one after the other, 3 instants, all four combinations of `gone` and `dead`, one fault | `LoneSessionIsExact` |
| `health_quarantine` | a task and a refresh at once, the routes of `health_shared`, 2 instants, usual failures | violation of `QuarantineIsKept` |
| `lifecycle` | 2 adapters, one of which was declared for two models, 3 commands (symmetric), 1 check of a route; requests with and without each kind of evidence | `LifecycleTypeOK`, `StateHasReceipt`, `NoSkippedStage`, `AllowedIsBacked` |
| `cache` | 2 tasks (symmetric) with any of 7 calls; a local, a free and a paid route, which start to cost, disappear and lose their price and native schemas; 4 initial files; room for 1 entry; 1 fault | `CacheTypeOK`, `AnswersObeyPolicy`, `NothingLostWithoutOverlap`, `HitIsAdmissible` |
| `golden` | a paid candidate, a baseline on trial quota whose filters also match a dearer route, 2 suites of 3 cases, with and without governed output and review, 1 row of another process, history of 4 rows | `GoldenTypeOK`, `EvidenceIsOwn`, `PromotionIsEarned` |
| `governed` | 9 contracts (v1, v2, simple, standard, complex, local only, unattended, without sources, without conditional checks, one that is refused), 4 days of role candidates, 1 redesign | `GovernanceTypeOK`, `ReadyPlanIsSound`, `RunStaysWithinPlan` |

*Why these bounds are enough.* In the budget and paid-call runs every bound is on
the instance and none cuts a behaviour short: the state spaces are finite because
reservation ids are drawn once. `RouteHealth` adds bounds in its guards. A lost
update, a torn read and a mixed file each need two sessions, one route to lose and
one to record; a copy of the map is stale after one tick, and the evidence after one
tick with a time to live of 0. Alone, a cooldown of 1 can start, end and start again
with a longer one within 3 instants while a quarantine of 3 is still running. The
discovered route of the instances is on a guarded trial quota, so that a task tries it on
evidence and a golden evaluation without any; routes without a guard (`Barred`) only take
steps away from the sessions without a permission, and are in the theorems. Three
commands take an adapter from shadow through every gate to production, or two of them
while the third is stale or fails; what a check of a route can get wrong needs two files
and a command that replaces one between its reads. A lost update, a double use of
an allowance and a settlement after a stop need two callers; an imported reservation is
a third claim on the maximum. Amounts up to 5 hold an admission at the limit, a
variance, an overrun of the call, of the workflow, and a sum that overflows. Two
directories can agree, disagree or change one after the other. Two routes per
task are what it takes to fall back once; the third one of `paid_mixed` gives a
gate rejection, an overrun and a free route. Three calls in two processes have a
pair that shares a temporary file and a pair that does not; that the file protocol
agrees with the authority while v1 contents are imported is what the theorem
`FileImplementsAuthority` adds to `file`, and what such imports do is in `budget`.

In `cache`, two saves that overlap, a lookup between a truncation and its fill, and an
entry stored under one inventory and looked up under another all need two tasks; with
room for one entry every second store evicts, and the seeds give the first lookup
something that no task of the instance stored. The seven calls differ in each part that
the recheck and the selection treat differently: one has a guard factor that only the gate
sees, one an estimate beyond its limit that only the recheck sees, one needs native
schemas and OpenRouter, which its route loses. In `golden`, three cases are the
least a suite may have, so the first, a middle and the last one can fail; one foreign row
can be the very one that a failed case finds, and one filter that matches two routes
lets another route answer. In `governed`, the ceilings lie between the soft, elastic and
hard limits of some contracts and beyond those of others, and `planLoops` is up to 2, the
most a contract may ask for.

*Deadlock* is off where the system may stop: every caller has resolved its
reservation, every task, session, command, evaluation or workflow has ended, every
process has died. `budget` checks
it, since legacy files keep changing.

*Fairness.* `PaidFairness` is weak fairness of each task's own steps. A task is
straight-line code: it waits only for the file lock, which `file` shows
to be freed by every holder, and for the provider, whose request carries a timeout
(`request_timeout or settings.timeout`). Nothing is assumed about crashes, and a crashed
task counts as ended. `FileSpec` assumes weak fairness of the step of a call that
is inside the lock; nothing is assumed about who gets the lock.

### What the violations show

* `LiabilityKept` (`router.py` 6678). When a settlement is refused (the sum
  overflows), `finalize_workflow_reservation` stops the workflow and keeps the
  reservation "as a conservative liability lock" (`budget.py` 497-499). It raises
  `BudgetLimitExceeded`; the loop's handler for that exception finds
  `reservation_finalized` still false and releases the reservation.
* `QuarantineIsKept` (`router.py` 1193). A task and a refresh load the same map; the
  refresh records the 404 of one route, then the task records a failure of another
  and writes its copy, in which the first route never failed. With nothing
  failing and nobody writing any more, the route is available again, although it is
  to stay out for 30 days "until a fresh health run explicitly clears the route".

### Behaviour worth knowing, without a run of its own

Some of what the models do is the code's plain behaviour, visible at one place, and either
no document denies it or no search is needed to see it. Properties that speak of it
name it as their exception.

* Overruns. The incident of an overrun is written before the status is set (`budget.py`
  535); if that write raises, the new spend is saved and the workflow stays active with
  its maximum passed. Later reservations are still refused by the projection.
* Failing records. The ledger rows of invalid governed output are appended inside the `try`
  (`router.py` 6582); an append that raises takes the path of a failed call and the next
  route is tried, although the decision is `fail_closed_no_retry_no_fallback`. In the same
  way a failed cache or health write after a paid answer discards it and buys another.
* Receipts. A receipt that passed says `state_change_persisted` (`README.md` 93) and is
  written before the state file (`lifecycle.py` 216-231); a failure between the two leaves
  a receipt of a change that was not made. The opposite order would leave states
  without receipts, which `StateHasReceipt` excludes.
* Declarations. "declared adapters must be qualified or production" (`CHANGELOG.md` 374),
  but when two adapters declare one route, the file that the directory yields first
  decides (`router.py` 1551).
* Cache. A file that is no UTF-8 makes every later lookup raise until somebody removes it
  (3298-3309); a bound of 0 keeps every entry (`ordered[-0:]`); a call that neither
  prefers free routes nor may pay is served a paid answer from the cache although it
  could not be sent for one. Only the library interface makes such a call.
* Hits and sends. A hit is rechecked by an estimate of its own and not against what the
  endpoint can do (3312-3355), so an answer may be served whose route the same call could not
  be sent to, because the guard factor or the real messages put it past `max_cost_usd` or
  because the route no longer takes JSON schemas; nothing is paid for a hit. The other
  way, an entry may be rejected whose route the gate would admit. That such an answer was still
  made for the same schema and controls rests on the key alone (2510-2572).
* Trials. A golden evaluation with both permissions tries a trial-quota route on its
  cooldown alone, never having seen it answer (6311-6317); `UndeclaredNeedsSuccess` names it as
  its exception.
* Thresholds. Some are read by `or`, so that 0 losses mean 1, a rate of 0 means 80 per
  cent and a cost of 0 no limit (`evaluation.py` 140, 501, 663, 741-745).
* Filters. Provider and model filters match parts of names, so the call of a case may be
  answered by another route than the one compared, unlike the comment at
  `evaluation.py` 368-371; `EvidenceIsOwn` states the exact accounting where they match one.
* Ceilings. A plan reserves one repair of each kind while a contract allows two, and
  redesigns are not counted; the elastic limit is then what holds a run
  (`governance.py` 683-690).

## 4. The proofs

Every invariant and action property of the runs that pass is a theorem, for every value
of the constants that satisfies the assumptions of its modules; what TLC alone checks is
at the end of this section.

`BudgetAuthority_proofs` starts with what adding and removing an entry does to a sum of
reservations, and proves, for any number of callers,
directories, amounts and requests, every property of `budget`. The assumptions are those the modules name: `BudgetConstants`
(ids are distinct, v1 contents are well-formed), `AuthorityConstants` (what the
initial files are) and `EarlierReleaseKeptCap`: a v1 file, and a file the instance starts
with, is not active past its maximum. An earlier release is taken to stop such a workflow, as
this one does; the importer (`budget.py` 128-159) does not check it, so a v1 file edited by
hand could break it, as could a start from a file whose overrun went unreported (535).
Within a run that second case is reached, and excepted, as `SettleUnreported`.

The inductive invariant `IInv` is the conjunction of the type invariant, the
state invariants, and what they do not say by themselves: the tables are finite,
the ids of the settled calls are exactly those of the callers that settled,
a file that is not established is empty, a caller that holds a reservation finds
the file established, and reserved amounts are those of the request. Each action
has a lemma about the content (`GrantedFacts`, `SettleFacts`, ...) and one about
the invariant (`ReserveStep`, `SettleStep`, ...); `NextIInv` puts them together.
The action properties follow from the effect lemmas under the same invariant, and
`AuthorityImplementsCap` maps every step of the authority to a step or a stutter of the
account.

`BudgetFile_proofs` proves that the file protocol implements the authority
(`FileImplementsAuthority`), so all that is proved of the authority holds of it
(`FileIsCap` carries the abstract account along). Its invariant `FileInv` says that
only the holder of the lock is past the wait, that its copy is the state on disk
(`CopyIsCurrent`), that what it computed fits the entry point it is in, and that the
temporary file it is about to rename holds its own content. With it, the rename
is a step of the authority and every other step, failures and deaths included,
is a stutter.

`PaidCall_proofs` proves, from `PaidCallConstants`, the refinement and every safety
property of the loop for any number of tasks and choices. `PaidInv` has one part
for the attempt a task is at (`Current`: for each label, what the reply and the
authority's `phase` of this attempt can be), one for each attempt it left behind
(`Past`: paid for or excused, freed, and not a final verdict) and one for each
attempt it may still make (`Future`: untouched). It is inductive only together with
`IInv` of the authority, which says what is in the file for a caller in a given
phase; a step of another task disturbs neither, since the attempts of two tasks are
different callers. By the refinement the loop inherits what is proved of the authority:
`PaidIsCap` says that the tasks of a workflow spend from one abstract cap.

`RouteHealth_proofs` proves, from `HealthConstants`, what the two files still
guarantee for any number of routes and sessions, with every lost update, torn file,
file error and death. The invariant `HealthInv` has a part for the types (`Frame`), one for
the histories (`Clocks`: nothing happened later than now), and two that must speak of
every copy as well as of the files, because any copy may become the file:
`Cooldowns` (each entry is explained by a failure that happened) and `Evidence` (no
success is recorded later than the latest real one). `UndeclaredSucceeded` follows
from the last: evidence that is within the time to live is never newer than a real answer,
so whatever a task tries on evidence had one, and what is left is a trial that was permitted.

`LoneExact` needs a second invariant, `LoneInv`, on top of it. `Lone` says of the time before
the first overlap or fault that at most one session is at work; that without one the
files are `Settled`, which is nearly the property itself; and what a session that is
alone may lack at each of its labels: a success is missing from its copy and from the file
until it is recorded (`Pending`), a failure from the evidence (`Owing`), and a file that is
being rewritten says nothing. `AgreesWith` relates an entry to the latest outcome of its route; it
survives the renewal of a quarantine by a load, the dropping of what is over by a save,
and time.

`AdapterLifecycle_proofs` proves, from `LifecycleConstants`, the four invariants for any
number of adapters, commands and checks. That no gate is skipped is not inductive: a
command judges from a declaration that may be gone when its receipt is written. The
invariant `LifecycleInv` therefore speaks of drafts as well as of receipts
(`Drafts`, `Records`): each of them started from a state that was backed when it was
read, and what is backed stays so, since receipts are only added (`BackedGrows`).
`FilesBacked` carries that over to the state files, through `StateHasReceipt`, and
from there to what a check lets through.

`ResponseCache_proofs` proves, from `SelectionConstants` and `CacheConstants`, every property
of `cache` for any number of tasks, routes, calls, inventories and entries. `CacheInv` has
a part for types (`Frame`), one that every entry anywhere sits under the key of the call it
was stored for and was made by a route that this call could be sent to (`Stock`), one that what is left to try is admitted under the settings the
task took (`Routing`), and one that relates each result to its call and to the routes
that were left when it was made (`Answers`). `HitsAdmissible` has two halves. What the recheck
looks at is compared with the selection of the day, from their definitions; what it does
not look at must come from the past: an entry found under a key was stored by a call that
agrees in every field but those the key leaves out (`SameKeySameRoute` and the lemmas
before it), and the route could do for that call what it is trusted to have done for this one.
`NothingLost` has its own invariant, `Intact`: stamps of the history are distinct,
and while no save has overlapped or broken off, at most one task saves, and the
file, or the map that task is about to write, lacks only what newer entries pushed out
(`Complete`). That eviction keeps this is a counting argument: distinct stamps after a given
one are no more than the numbers after it (`FewAreNewer`).

`GoldenEvaluation_proofs` proves, from `SelectionConstants` and `GoldenConstants`, the
properties of `golden` for any inventory, filters, suite, reviews and number of rows of
other processes. `GoldenInv` says of each record what its row is (`Records`); that a row of the
run belongs to a recorded case or is new and of the current one, and that nothing newer
than the case is of an earlier one (`Placed`), which is why a search by route and time
cannot find an old row; that what was called had its flag (`Allowed`); and, for a route
that nobody else uses and whose filters match it alone, that a call writes nothing
until it ends and then one row, or two that tell the same cost (`Counted`).
`LastRow` is the fact about the search itself.

`PromotionsEarned` needs a second invariant, `EarnedInv`, on top of it. `Answers` and
`Lone` say that a case that was answered has a row, and no other row if only one route
can be tried: such a call writes nothing before its answer (`Untried`). Unlike `Counted`
this asks nothing of the other processes. `Course` says that a report is not changed
once it was read, and that a candidate which passed the entry check was followed by the
whole baseline; the decision itself does not look whether the baseline was skipped, and
is safe only because its own gates repeat the entry check word for word. A suite whose
successes number its cases had every case succeed (`AllSucceeded`), and the report's
total is then the sum over the rows.

`WorkflowGovernance_proofs` proves, from `GovernanceConstants`, the properties of
`governed` for any contracts, candidates, costs, findings and number of redesigns. What
makes a plan sound is proved of the operators: whom role selection may choose and for
how much (`RowType`), that a stage of a plan has one row, that a plan which is ready is
independent and priced (`ReadyIsSound`). The invariant `GovernanceInv` then says that
the plan is still the one its contract asks for, also after the operator raised the
elastic limit (`Planned`, which rests on the plan depending on that limit only through
its approval); where a run is, in an order of the stages that only repairs and redesigns
go back in (`Walked`); that a run which repairs each side at most once has spent at most
what the ceiling reserves for the stages up to the last one it has paid for (`Paid`);
and that what completed was proved (`Proved`). A run that is sent back for a second
repair has already paid for the check after the first, which is why `Paid` is about the
furthest stage (`Reached`) and not about the present one.

*Sums.* The costs of a run and the ceiling of a plan are folds. A fold over a finite set
is unrolled by removing one element; that it is the number of its units (`SumIsUnits`)
is proved from a smallest set that breaks it, since induction over data is out of the
provers' reach while the well-foundedness of the natural numbers is not. From there a
sum is a cardinality: larger summands, more of them, and sums over disjoint sets are
facts about subsets and unions (`SumMonotone`, `SumOfMore`, `SumOfBoth`). Searching for
the last row of a ledger (`HasMax`, `LastRow`) uses the same argument.

Only model-checked: the liveness properties (`TaskEnds`, `ReservationResolved`,
`LockIsFreed`), since fairness and ENABLED are out of the prover's reach. The two
violations are counterexamples, found by TLC on the instance of their run.

## 5. Not modelled, and the plan

Left out of the modules above: the wording of incidents, receipts and ledger rows
(write-only), file modes, time stamps, the token estimate behind a projected
cost, the request body. A workflow id, a stage and an authority id are one model
instance each; another authority's file is `owner = "elsewhere"`.

Not modelled, with the reason:

* **structured output, thinking plan**: arithmetic and text checks on one request, without
  state; callers keep whether an output is valid;
* **free pool discovery**: it decides what an inventory holds. `ResponseCache` lets inventories
  change at any time, and `RouteHealth` takes discovered routes as those outside `Declared`;
* **configuration, credential catalog, command line**: parsed once, printed or passed on;
* **incidents**: write-only; that such a write can fail is in the budget modules;
* **provider transport**: its outcomes are modelled, the requests are not.

Left out of components that are modelled in part: the order of equal routes and of those of a
role, and `route_plan`, which prints the same decisions; the refresh by modality
(`router.py` 5708-5790), which repeats the refresh per probe task, the tasks that skip the
refresh, and cooldown lengths per error class; `validate_task_contract` and route
receipts, which turn one document into another; the assertions on the text of a case, and
the text of a blind packet; the checks of control names and values.

What would come next: the merge of discovered models with its staleness, composed with
`RouteHealth`, and the composition of `RouteHealth` with `RouteSelection`, so that the routes
that are up in `ResponseCache` are those that do not cool down.
