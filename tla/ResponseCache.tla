---------------------------- MODULE ResponseCache ----------------------------
(***************************************************************************)
(* The response cache of run_llm_task (router.py 2460-2572, 3298-3355,     *)
(* 6126-6222, 6619-6636) under concurrent tasks: a task looks its call up, *)
(* rechecks the entry against the policy of the day, and otherwise tries   *)
(* the admitted routes and stores the answer of the first that gives one.  *)
(* No lock protects the file: a save rewrites it from what was read, first *)
(* truncating it, then filling it (Path.write_text).                       *)
(*                                                                         *)
(* A task is one run of run_llm_task.  Reservations, health and the ledger *)
(* are in PaidCall and RouteHealth; here a route is up or down at will.    *)
(***************************************************************************)
EXTENDS RouteSelection

CONSTANTS
    Tasks,
    Cached,       \* those whose effective_cache_enabled is true
    Asked,        \* the calls tasks may be given
    Inventories,  \* what configured_models may return over time
    Seeds,        \* what the file may hold at first
    MaxItems,     \* SMART_LLM_CACHE_MAX_ITEMS
    MaxFaults     \* bound: failed writes and deaths

\* An entry; origin and made are history: the call that stored it, and what its route
\* was declared as when it answered.
Key == CallInfo
Entry == [route: Routes, stamp: Int, origin: CallInfo, made: RouteInfo, valid: BOOLEAN]
IsMap(m) == DOMAIN m \subseteq Key /\ \A k \in DOMAIN m : m[k] \in Entry
NoEntries == [k \in {} |-> 0]

\* Every part of the call but the permissions of a golden evaluation and the guard
\* factor (_cache_key).
KeyOf(call) == [call EXCEPT !.exact = FALSE, !.trial = FALSE, !.guard = 1]

\* A route declared as info may be given the input of the call, and paid for it.
Sendable(info, call) ==
    /\ call.local => TrustedLocal(info)
    /\ Free(info) \/ call.paid
    /\ Able(info, call)

ASSUME CacheConstants ==
    /\ Cached \subseteq Tasks
    /\ Asked \subseteq CallInfo
    /\ \A inv \in Inventories : IsInventory(inv)
    /\ \A m \in Seeds : /\ IsMap(m)
                        /\ \A k \in DOMAIN m : /\ m[k].stamp <= 0 /\ KeyOf(m[k].origin) = k
                                               /\ Sendable(m[k].made, m[k].origin)
                        /\ \A k, l \in DOMAIN m : m[k].stamp = m[l].stamp => k = l
    /\ MaxItems \in Nat /\ MaxFaults \in Nat

VARIABLES
    inventory,
    file,      \* the cache file
    pc,
    call,      \* what each task was asked
    seen,      \* the inventory its settings gave it
    copy,      \* the map it is about to write
    left,      \* the routes it may still try
    result,    \* the answer it has
    clock,     \* the last created_at
    book,      \* history: every entry stored and not rejected since, evicted ones too
    overlap,   \* history: two saves ran at once
    faults     \* history: failed writes and deaths

task == <<pc, call, seen, copy, left, result>>
vars == <<inventory, file, task, clock, book, overlap, faults>>

Ended == {"returned", "raised", "crashed"}
Saving == {"drop", "drop fill", "store", "store fill"}
Label == {"start", "lookup", "select", "attempt", "keep"} \cup Saving \cup Ended

NoResult == [from |-> "none"]
Answer == [from: {"cache", "route"}, route: Routes, origin: CallInfo, made: RouteInfo,
           valid: BOOLEAN]

With(m, k, e) == [x \in DOMAIN m \cup {k} |-> IF x = k THEN e ELSE m[x]]
Without(m, k) == [x \in DOMAIN m \ {k} |-> m[x]]

\* Mutant of Kept: the oldest entries are kept.
KeptOldest(m) ==
    IF Cardinality(DOMAIN m) <= MaxItems \/ MaxItems = 0 THEN m
    ELSE [k \in {x \in DOMAIN m :
                   Cardinality({y \in DOMAIN m : m[y].stamp < m[x].stamp}) < MaxItems} |-> m[k]]

\* _save_response_cache: the newest MaxItems; a bound of 0 keeps everything, since
\* ordered[-0:] is the whole list.
Kept(m) ==
    IF Cardinality(DOMAIN m) <= MaxItems \/ MaxItems = 0 THEN m
    ELSE [k \in {x \in DOMAIN m :
                   Cardinality({y \in DOMAIN m : m[y].stamp > m[x].stamp}) < MaxItems} |-> m[k]]

Whole(m) == [kind |-> "whole", map |-> m]
Cut(kind) == [kind |-> kind, map |-> NoEntries]
HalfWritten == \E o \in Tasks : pc[o] \in {"drop fill", "store fill"}

\* What a read may give: text that is no JSON reads as no entries, and text cut or
\* mixed inside a character raises UnicodeDecodeError, which _load_json lets through.
Reads(m) ==
    \/ file.kind = "whole" /\ m = file.map
    \/ (file.kind \in {"empty", "garbled"} \/ HalfWritten) /\ m = NoEntries
ReadRaises == file.kind = "broken" \/ HalfWritten

\* The settings of a task are its own; keys, lifecycle states and the discovered
\* list are read whenever the routes are.
Visible(t) == [r \in DOMAIN seen[t] \cap DOMAIN inventory |-> seen[t][r]]

Init ==
    /\ inventory \in Inventories
    /\ \E m \in Seeds : file = Whole(m) /\ book = m
    /\ pc = [t \in Tasks |-> "start"]
    /\ call \in [Tasks -> {Effective(c) : c \in Asked}]
    /\ seen = [t \in Tasks |-> NoEntries]
    /\ copy = [t \in Tasks |-> NoEntries]
    /\ left = [t \in Tasks |-> {}]
    /\ result = [t \in Tasks |-> NoResult]
    /\ clock = 0
    /\ overlap = FALSE
    /\ faults = 0

-----------------------------------------------------------------------------
(* Steps *)

Goto(t, label) == pc' = [pc EXCEPT ![t] = label]
Others == <<inventory, call, clock, book, overlap, faults>>

Start(t) ==
    /\ pc[t] = "start"
    /\ seen' = [seen EXCEPT ![t] = inventory]
    /\ Goto(t, IF t \in Cached THEN "lookup" ELSE "select")
    /\ UNCHANGED <<Others, file, copy, left, result>>

\* A save begins once its map is made up from what was read.
Save(t, m, label) ==
    /\ copy' = [copy EXCEPT ![t] = Kept(m)]
    /\ overlap' = (overlap \/ \E o \in Tasks \ {t} : pc[o] \in Saving)
    /\ Goto(t, label)

Usable(t, entry) == StillAllowed(Visible(t), call[t], entry.route) /\ entry.valid

Miss(t) ==
    /\ pc[t] = "lookup"
    /\ \E m \in {file.map, NoEntries} : Reads(m) /\ KeyOf(call[t]) \notin DOMAIN m
    /\ Goto(t, "select")
    /\ UNCHANGED <<Others, file, seen, copy, left, result>>

Hit(t) ==
    /\ pc[t] = "lookup"
    /\ \E m \in {file.map} :
          /\ Reads(m) /\ KeyOf(call[t]) \in DOMAIN m
          /\ LET e == m[KeyOf(call[t])]
             IN  /\ Usable(t, e)
                 /\ result' = [result EXCEPT ![t] =
                        [from |-> "cache", route |-> e.route, origin |-> e.origin,
                         made |-> e.made, valid |-> e.valid]]
    /\ Goto(t, "returned")
    /\ UNCHANGED <<Others, file, seen, copy, left>>

\* An entry the policy or the output check rejects is taken out, and the call made.
Reject(t) ==
    /\ pc[t] = "lookup"
    /\ \E m \in {file.map} :
          /\ Reads(m) /\ KeyOf(call[t]) \in DOMAIN m
          /\ ~Usable(t, m[KeyOf(call[t])])
          /\ Save(t, Without(m, KeyOf(call[t])), "drop")
          /\ book' = Without(book, KeyOf(call[t]))
    /\ UNCHANGED <<inventory, call, clock, faults, file, seen, left, result>>

\* A file that cannot be decoded ends the task before it selects a route.
LookupRaises(t) ==
    /\ pc[t] = "lookup" /\ ReadRaises
    /\ Goto(t, "raised")
    /\ UNCHANGED <<Others, file, seen, copy, left, result>>

\* Cooldowns and health leave some of the admitted routes.
Select(t) ==
    /\ pc[t] = "select"
    /\ \E up \in SUBSET Routes :
          LET choices == Admitted(Visible(t), call[t]) \cap up
          IN  /\ left' = [left EXCEPT ![t] = choices]
              /\ Goto(t, IF choices = {} THEN "raised" ELSE "attempt")
    /\ UNCHANGED <<Others, file, seen, copy, result>>

\* Mutant of NextTry: the loop does not notice that no route is left.
NextTryForever(t, r) ==
    /\ left' = [left EXCEPT ![t] = @ \ {r}]
    /\ Goto(t, "attempt")

\* The loop goes on with the next route, or ends with "all model calls failed".
NextTry(t, r) ==
    /\ left' = [left EXCEPT ![t] = @ \ {r}]
    /\ Goto(t, IF left[t] = {r} THEN "raised" ELSE "attempt")

Skip(t) ==
    /\ pc[t] = "attempt"
    /\ \E r \in NextRoutes(seen[t], call[t], left[t]) :
          ~Affordable(seen[t][r], call[t]) /\ NextTry(t, r)
    /\ UNCHANGED <<Others, file, seen, copy, result>>

\* The route fails and the next one is tried, or its structured output is invalid
\* and the task ends.
Fail(t) ==
    /\ pc[t] = "attempt"
    /\ \E r \in NextRoutes(seen[t], call[t], left[t]) :
          /\ Affordable(seen[t][r], call[t])
          /\ NextTry(t, r) \/ (Goto(t, "raised") /\ UNCHANGED left)
    /\ UNCHANGED <<Others, file, seen, copy, result>>

Succeed(t) ==
    /\ pc[t] = "attempt"
    /\ \E r \in NextRoutes(seen[t], call[t], left[t]) :
          /\ Affordable(seen[t][r], call[t])
          /\ result' = [result EXCEPT ![t] =
                [from |-> "route", route |-> r, origin |-> call[t],
                 made |-> seen[t][r], valid |-> TRUE]]
    /\ Goto(t, IF t \in Cached THEN "keep" ELSE "returned")
    /\ UNCHANGED <<Others, file, seen, copy, left>>

\* The cache is read again, and the answer put into it.
Keep(t) ==
    /\ pc[t] = "keep"
    /\ \E m \in {file.map, NoEntries} :
          LET e == [route |-> result[t].route, stamp |-> clock + 1,
                    origin |-> call[t], made |-> result[t].made, valid |-> TRUE]
          IN  /\ Reads(m)
              /\ Save(t, With(m, KeyOf(call[t]), e), "store")
              /\ book' = With(book, KeyOf(call[t]), e)
    /\ clock' = clock + 1
    /\ UNCHANGED <<inventory, call, faults, file, seen, left, result>>

Truncate(t) ==
    /\ pc[t] \in {"drop", "store"}
    /\ file' = Cut("empty")
    /\ Goto(t, IF pc[t] = "drop" THEN "drop fill" ELSE "store fill")
    /\ UNCHANGED <<Others, seen, copy, left, result>>

\* A write over one that another task put there since may leave a mixture.
Fill(t) ==
    /\ pc[t] \in {"drop fill", "store fill"}
    /\ file' \in {Whole(copy[t])} \cup
          IF file.kind = "empty" THEN {} ELSE {Cut("garbled"), Cut("broken")}
    /\ copy' = [copy EXCEPT ![t] = NoEntries]
    /\ Goto(t, IF pc[t] = "drop fill" THEN "select" ELSE "returned")
    /\ UNCHANGED <<Others, seen, left, result>>

\* What a write that breaks off leaves of the file.  It may also be whole: the ledger
\* row of the answer is appended after the entry, and that can fail as well.
BreakOff(t) ==
    file' \in {file} \cup
        IF pc[t] \in {"drop fill", "store fill"}
        THEN {Whole(copy[t]), Cut("garbled"), Cut("broken")} ELSE {}

\* A file error while an answer is stored counts as a failure of its route, and the
\* next one is called (6862); while an entry is dropped it ends the task.
FileError(t) ==
    /\ \/ /\ pc[t] \in Saving /\ faults < MaxFaults
          /\ faults' = faults + 1 /\ BreakOff(t)
       \/ pc[t] = "keep" /\ ReadRaises /\ UNCHANGED <<file, faults>>
    /\ \/ /\ pc[t] \in {"keep", "store", "store fill"}
          /\ NextTry(t, result[t].route)
          /\ result' = [result EXCEPT ![t] = NoResult]
       \/ pc[t] \in {"drop", "drop fill"} /\ Goto(t, "raised") /\ UNCHANGED <<left, result>>
    /\ copy' = [copy EXCEPT ![t] = NoEntries]
    /\ UNCHANGED <<inventory, call, clock, book, overlap, seen>>

Crash(t) ==
    /\ pc[t] \in Saving /\ faults < MaxFaults
    /\ faults' = faults + 1 /\ BreakOff(t)
    /\ Goto(t, "crashed")
    /\ copy' = [copy EXCEPT ![t] = NoEntries]
    /\ UNCHANGED <<inventory, call, clock, book, overlap, seen, left, result>>

Step(t) ==
    \/ Start(t) \/ Miss(t) \/ Hit(t) \/ Reject(t) \/ LookupRaises(t)
    \/ Select(t) \/ Skip(t) \/ Fail(t) \/ Succeed(t)
    \/ Keep(t) \/ Truncate(t) \/ Fill(t) \/ FileError(t)

\* The configuration, the keys or the lifecycle states change.
Reconfigure ==
    /\ inventory' \in Inventories
    /\ UNCHANGED <<file, task, clock, book, overlap, faults>>

Next == (\E t \in Tasks : Step(t) \/ Crash(t)) \/ Reconfigure

CacheSpec == Init /\ [][Next]_vars

-----------------------------------------------------------------------------
(* Properties *)

\* Two calls that differ at most in what only a golden evaluation may ask and in the
\* guard factor.
SameQuestion(a, b) == \A f \in DOMAIN a \ {"exact", "trial", "guard"} : a[f] = b[f]

\* The file, what tasks hold of it, and the routes a task goes through
\* (router.py 3298-3309, 6346-6351).
CacheTypeOK ==
    /\ inventory \in Inventories
    /\ file.kind \in {"whole", "empty", "garbled", "broken"} /\ IsMap(file.map)
    /\ pc \in [Tasks -> Label]
    /\ \A t \in Tasks :
          /\ call[t] \in CallInfo /\ IsInventory(seen[t]) /\ IsMap(copy[t])
          /\ left[t] \subseteq DOMAIN seen[t]
          /\ pc[t] = "attempt" => left[t] # {}
          /\ result[t] = NoResult \/ result[t] \in Answer
    /\ clock \in Nat /\ IsMap(book) /\ overlap \in BOOLEAN /\ faults \in 0..MaxFaults

\* An answer served from the cache passed the output check and was made for a call that
\* asked for the very same.  When it was made, its route could do what this call needs,
\* was on this machine if the input must be, and was free unless this call may pay: the
\* recheck (3312-3355) does not look back, only the key keeps such answers apart
\* (2510-2572).  Today that route is one the selection (6226-6345) would still consider
\* for the call, up to what the endpoint can do and the cost, which is checked by
\* another estimate: a hit may come from a route that the call could not be sent to.
\* The recheck is weaker in one more place: a call that neither prefers free routes nor
\* may pay gets the answer of a route that has become a paid one.
HitIsAdmissible ==
    [][\A t \in Tasks :
         pc[t] = "lookup" /\ pc'[t] = "returned" =>
            LET c == [call[t] EXCEPT !.exact = FALSE, !.schema = FALSE, !.controls = FALSE]
                hit == result'[t]
            IN  /\ hit.valid /\ SameQuestion(hit.origin, call[t])
                /\ Sendable(hit.made, call[t])
                /\ hit.route \in Admitted(Visible(t), c) \/ ~(c.preferFree \/ c.paid)]_vars

\* What a task returns, cached or not: local_only input has stayed on this machine, the
\* endpoint took the schema and the controls, a role has its quality floor unless a
\* golden evaluation asked, nothing was paid without permission, a call that was sent
\* was projected within its limit and a hit estimated within it, and a call that
\* prefers free routes has paid only when no free one that it does not avoid was left.
AnswersObeyPolicy ==
    \A t \in Tasks : pc[t] = "returned" =>
        LET c == call[t]
            a == result[t]
            info == seen[t][a.route]
        IN  /\ a.route \in c.only
            /\ Sendable(a.made, c)
            /\ c.local => TrustedLocal(info)
            /\ c.role /\ ~(c.exact /\ a.from = "route") => info.band >= c.floor
            /\ IF a.from = "route" THEN Affordable(info, c) ELSE WithinEstimate(info, c)
            /\ a.from = "route" /\ ~Free(info) =>
                  /\ c.paid
                  /\ c.preferFree /\ c.simple => c.role
                  /\ c.preferFree /\ ~c.role /\ ~c.exact =>
                        \A r \in left[t] : Free(seen[t][r]) => r \in c.avoid

\* As long as no two saves ran at once and no write broke off, nothing is lost: an
\* answer that was stored is in the file until it is rejected or replaced or at least
\* MaxItems newer ones came (router.py 3298-3309, 6619-6635).
NothingLostWithoutOverlap ==
    ~overlap /\ faults = 0 /\ (\A t \in Tasks : pc[t] \notin Saving) =>
        /\ file.kind = "whole"
        /\ \A k \in DOMAIN file.map : k \in DOMAIN book /\ file.map[k] = book[k]
        /\ \A k \in DOMAIN book \ DOMAIN file.map :
              MaxItems > 0 /\ book[k].stamp + MaxItems <= clock
=============================================================================
