---------------------------- MODULE RouteHealth ----------------------------
(***************************************************************************)
(* The cooldown map and the health evidence of the routes                  *)
(* (router.py 937-1211) as the processes that share the data directory     *)
(* use them: tasks that prefer free routes (6223-6319, 6619, 6862), golden *)
(* evaluations of an unprotected trial route (6227-6250, 6305-6319), the   *)
(* specialised adapters (5127-5147, 5249-5367), refreshes of the pool      *)
(* (5582-5704, 5793-5828) and the command that clears the cooldowns        *)
(* (2059).  No lock protects the two files.  A session loads the cooldown  *)
(* map once, keeps its copy, and each record of a success or a failure     *)
(* rewrites the whole file from that copy.  A rewrite truncates the file,  *)
(* then fills it (Path.write_text).                                        *)
(***************************************************************************)
EXTENDS Integers, FiniteSets

CONSTANTS
    Routes,      \* provider/model keys
    Declared,    \* those the provider configuration names
    Trials,      \* the free ones of billing class trial_quota
    Barred,      \* the trials that are not guarded: their execution is not enabled
    Sessions,    \* processes that try routes
    Kind,        \* what each session is: "task", "adapter" or "refresh", or "trial", a task
                 \* with allow_unqualified_explicit_route and allow_unprotected_trial_route
    Errors,      \* how a route may fail: gone, a 404 or 410; dead, a text that
                 \* reads as a missing model.  Either comes without the other
    Base, Cap,   \* the cooldown of other failures is Base * failures, at most Cap
    Quarantine,  \* the cooldown of a 404 or 410
    TTL,         \* health_ttl_hours
    Horizon,     \* bound: the last instant
    MaxFaults,   \* bound: failed writes and deaths
    MaxActive    \* bound: sessions at work at once

ASSUME HealthConstants ==
    /\ Declared \subseteq Routes /\ Trials \subseteq Routes /\ Barred \subseteq Trials
    /\ Routes # {}
    /\ Kind \in [Sessions -> {"task", "trial", "adapter", "refresh"}]
    /\ Errors \subseteq [gone: BOOLEAN, dead: BOOLEAN]
    /\ {Base, Cap, TTL, Horizon, MaxFaults, MaxActive} \subseteq Nat /\ Base > 0 /\ Base <= Cap
    /\ Quarantine \in Nat /\ Quarantine > 1

VARIABLES
    now,
    states,     \* the route-state file: its map, and whether reading it raises
    evidence,   \* the health-evidence file
    pc,         \* where each session is
    stage,      \* which load or loop of the session it is in
    copy,       \* its copy of the cooldown map
    seen,       \* its copy of the evidence, while it records
    todo,       \* the routes it may still try
    doing,      \* the outcome it is recording
    pen,        \* how its file write fares: "none", "alone", "mixed" or "gone"
    latest,     \* history: the latest outcome of each route
    lastOk,     \* history: when each route last answered, -1 for never
    lastBad,    \* history: when each route last failed
    gone,       \* history: the routes that answered 404 or 410
    overlap,    \* history: two sessions were active at once
    faults      \* history: failed file writes and deaths

files == <<states, evidence>>
session == <<pc, stage, copy, seen, todo, doing, pen>>
history == <<latest, lastOk, lastBad, gone, overlap, faults>>
vars == <<now, files, session, history>>

Never == -1
Ended == {"done", "raised", "dead"}
Active == {s \in Sessions : pc[s] \notin {"start"} \cup Ended}
Nothing == [r \in {} |-> 0]

\* An entry of each file.
Error == [gone: BOOLEAN, dead: BOOLEAN]
State == [until: Nat, count: Nat \ {0}, dead: BOOLEAN]
Health == [ok: Nat \cup {Never}, bad: Nat \cup {Never}]
IsMap(f, S) == DOMAIN f \subseteq Routes /\ \A r \in DOMAIN f : f[r] \in S

With(f, r, e) == [x \in DOMAIN f \cup {r} |-> IF x = r THEN e ELSE f[x]]
\* Mutant of Without: a success leaves the route in the map.
WithoutNone(f, r) == f
Without(f, r) == [x \in DOMAIN f \ {r} |-> f[x]]

Cooldown(err, count) ==
    IF err.gone THEN Quarantine ELSE IF Base * count <= Cap THEN Base * count ELSE Cap

\* Mutant of Loaded: every cooldown is renewed, whatever its reason.
RenewedAll(f) ==
    [r \in DOMAIN f |->
        IF f[r].until < now + Quarantine - 1
        THEN [f[r] EXCEPT !.until = now + Quarantine - 1] ELSE f[r]]

\* The quarantine of a missing model is renewed by every load.
Loaded(f) ==
    [r \in DOMAIN f |->
        IF f[r].dead /\ f[r].until < now + Quarantine - 1
        THEN [f[r] EXCEPT !.until = now + Quarantine - 1] ELSE f[r]]

\* Saving leaves out the cooldowns that are over.
Kept(f) == [r \in {x \in DOMAIN f : f[x].until > now} |-> f[r]]

Available(f, r) == r \in DOMAIN f => f[r].until <= now

\* The route's health as a snapshot shows it, when it is not cooling down.
Healthy(h, r) ==
    /\ r \in DOMAIN h /\ h[r].ok # Never
    /\ h[r].bad = Never \/ h[r].ok > h[r].bad
    /\ now - h[r].ok <= TTL

\* Mutant of Eligible: every route that is not cooling down.
EligibleAny(f, h, r) == Available(f, r)

\* _is_execution_eligible_choice.
Eligible(f, h, r) ==
    r \notin Barred /\ Available(f, r) /\ (r \in Declared \/ Healthy(h, r))

\* What a task with both permissions of a golden evaluation may try besides.
OnTrial(s, f, r) == Kind[s] = "trial" /\ r \in Trials /\ Available(f, r)

\* Mutant of After: the failure itself is not counted.
AfterUncounted(f, r, err) ==
    LET count == IF r \in DOMAIN f THEN f[r].count ELSE 0
    IN  With(f, r, [until |-> now + Cooldown(err, count), count |-> count,
                    dead |-> err.dead])

After(f, r, err) ==
    LET count == (IF r \in DOMAIN f THEN f[r].count ELSE 0) + 1
    IN  With(f, r, [until |-> now + Cooldown(err, count), count |-> count,
                    dead |-> err.dead])

Transient == [gone |-> FALSE, dead |-> FALSE]

Idle == [kind |-> "none", route |-> CHOOSE r \in Routes : TRUE, at |-> 0]
Outcome == [kind: {"none", "ok", "bad"}, route: Routes, at: Nat]

Init ==
    /\ now = 0
    /\ states = [map |-> Nothing, bad |-> FALSE]
    /\ evidence = Nothing
    /\ pc = [s \in Sessions |-> "start"]
    /\ stage = [s \in Sessions |->
                  CASE Kind[s] = "adapter" -> "pick" [] Kind[s] = "refresh" -> "refresh"
                    [] OTHER -> "first"]
    /\ copy = [s \in Sessions |-> Nothing]
    /\ seen = [s \in Sessions |-> Nothing]
    /\ todo = [s \in Sessions |-> {}]
    /\ doing = [s \in Sessions |-> Idle]
    /\ pen = [s \in Sessions |-> "none"]
    /\ latest = [r \in Routes |-> [kind |-> "none", until |-> 0, err |-> Transient]]
    /\ lastOk = [r \in Routes |-> Never]
    /\ lastBad = [r \in Routes |-> Never]
    /\ gone = {}
    /\ overlap = FALSE
    /\ faults = 0

\* A session that ends takes its copies with it.
End(s, how) ==
    /\ pc' = [pc EXCEPT ![s] = how]
    /\ copy' = [copy EXCEPT ![s] = Nothing]
    /\ seen' = [seen EXCEPT ![s] = Nothing]
    /\ todo' = [todo EXCEPT ![s] = {}]
    /\ doing' = [doing EXCEPT ![s] = Idle]
    /\ pen' = [pen EXCEPT ![s] = "none"]

-----------------------------------------------------------------------------
(* Loading and choosing *)

\* Nothing that is enabled is available (_maybe_refresh_when_free_pool_empty).
PoolEmpty(f) == \A r \in Routes \ Barred : ~Available(f, r)

\* What follows a load: a task whose pool is empty refreshes it first and loads
\* again, a golden evaluation does not; an adapter filters, then loads the copy it will
\* use; a refresh tries those its task and limit leave, cooling down or not.
Plan(s, f) ==
    \/ /\ stage[s] = "first" /\ (Kind[s] = "trial" \/ ~PoolEmpty(f) \/ Routes = Barred)
       /\ pc' = [pc EXCEPT ![s] = "select"]
       /\ UNCHANGED <<stage, todo>>
    \/ /\ stage[s] = "first" /\ Kind[s] = "task" /\ PoolEmpty(f) /\ Routes # Barred
       /\ pc' = [pc EXCEPT ![s] = "load"]
       /\ stage' = [stage EXCEPT ![s] = "nested"]
       /\ UNCHANGED todo
    \/ /\ stage[s] = "second"
       /\ pc' = [pc EXCEPT ![s] = "select"]
       /\ UNCHANGED <<stage, todo>>
    \/ /\ stage[s] \in {"nested", "refresh"}
       /\ pc' = [pc EXCEPT ![s] = "try"]
       /\ \E some \in SUBSET (Routes \ Barred) : todo' = [todo EXCEPT ![s] = some]
       /\ UNCHANGED stage
    \/ /\ stage[s] = "pick"
       /\ pc' = [pc EXCEPT ![s] = "load"]
       /\ stage' = [stage EXCEPT ![s] = "adapter"]
       /\ todo' = [todo EXCEPT ![s] = {r \in Routes \ Barred : Available(f, r)}]
    \/ /\ stage[s] = "adapter"
       /\ pc' = [pc EXCEPT ![s] = "try"]
       /\ UNCHANGED <<stage, todo>>

\* A write to the state file is under way, and may be cut inside a character.
HalfWritten(s) == pc[s] = "fill state" /\ pen[s] # "gone"

\* A file that is empty or no JSON reads as an empty map.  One that is cut or garbled
\* inside a character raises UnicodeDecodeError, which _load_json lets through.
Load(s) ==
    /\ pc[s] \in {"start", "load"} /\ Cardinality(Active \cup {s}) <= MaxActive
    /\ overlap' = (overlap \/ Active \ {s} # {})
    /\ \/ /\ ~states.bad
          /\ copy' = [copy EXCEPT ![s] = Loaded(states.map)]
          /\ Plan(s, copy'[s])
          /\ UNCHANGED <<seen, doing, pen>>
       \/ /\ states.bad \/ \E o \in Sessions : HalfWritten(o)
          /\ End(s, "raised") /\ UNCHANGED stage
    /\ UNCHANGED <<now, files, latest, lastOk, lastBad, gone, faults>>

\* A task keeps the routes that are eligible or on a trial it permits, a golden
\* evaluation those of them that its filters match; the order of trying is left open.
Select(s) ==
    /\ pc[s] = "select"
    /\ \E named \in IF Kind[s] = "trial" THEN SUBSET Routes ELSE {Routes} :
          LET choices == {r \in named : \/ Eligible(copy[s], evidence, r)
                                        \/ OnTrial(s, copy[s], r)}
          IN  \/ /\ choices # {}
                 /\ todo' = [todo EXCEPT ![s] = choices]
                 /\ pc' = [pc EXCEPT ![s] = "try"]
                 /\ UNCHANGED <<copy, seen, doing, pen>>
              \/ choices = {} /\ End(s, "raised")
    /\ UNCHANGED <<now, files, stage, history>>

-----------------------------------------------------------------------------
(* Trying a route and recording the outcome *)

\* A failure enters the copy, then the state file, then the evidence.
Fail(s, r, err) ==
    /\ copy' = [copy EXCEPT ![s] = After(@, r, err)]
    /\ doing' = [doing EXCEPT ![s] = [kind |-> "bad", route |-> r, at |-> now]]
    /\ pc' = [pc EXCEPT ![s] = "open state"]
    /\ latest' = [latest EXCEPT ![r] =
                    [kind |-> "bad", until |-> After(copy[s], r, err)[r].until, err |-> err]]
    /\ lastBad' = [lastBad EXCEPT ![r] = now]
    /\ gone' = IF err.gone THEN gone \cup {r} ELSE gone

\* The next route answers, fails, or (in a task) refuses this request only,
\* which says nothing about the route's health.
Try(s) ==
    /\ pc[s] = "try"
    /\ \E r \in todo[s] :
        /\ todo' = [todo EXCEPT ![s] = @ \ {r}]
        /\ \/ /\ doing' = [doing EXCEPT ![s] = [kind |-> "ok", route |-> r, at |-> now]]
              /\ pc' = [pc EXCEPT ![s] = "read health"]
              /\ UNCHANGED <<copy, latest, lastBad, gone>>
           \/ \E err \in Errors : Fail(s, r, err)
           \/ /\ stage[s] \in {"first", "second"}
              /\ UNCHANGED <<pc, copy, doing, latest, lastBad, gone>>
    /\ UNCHANGED <<now, files, stage, seen, pen, lastOk, overlap, faults>>

\* Nothing is left to try: a refresh is done, a task or an adapter raises, and a
\* task that refreshed the pool loads the map again.
Exhausted(s) ==
    /\ pc[s] = "try" /\ todo[s] = {}
    /\ \/ stage[s] = "refresh" /\ End(s, "done") /\ UNCHANGED stage
       \/ stage[s] \in {"first", "second", "adapter"} /\ End(s, "raised") /\ UNCHANGED stage
       \/ /\ stage[s] = "nested"
          /\ stage' = [stage EXCEPT ![s] = "second"]
          /\ pc' = [pc EXCEPT ![s] = "load"]
          /\ UNCHANGED <<copy, seen, todo, doing, pen>>
    /\ UNCHANGED <<now, files, history>>

ReadHealth(s) ==
    /\ pc[s] = "read health"
    /\ LET r == doing[s].route
           old == IF r \in DOMAIN evidence THEN evidence[r] ELSE [ok |-> Never, bad |-> Never]
       IN  \/ /\ doing[s].kind = "ok"
              /\ seen' = [seen EXCEPT ![s] = With(evidence, r, [old EXCEPT !.ok = now])]
              /\ lastOk' = [lastOk EXCEPT ![r] = now]
              /\ latest' = [latest EXCEPT ![r] =
                              [kind |-> "ok", until |-> 0, err |-> Transient]]
           \/ /\ doing[s].kind = "bad"
              /\ seen' = [seen EXCEPT ![s] =
                            With(evidence, r, [old EXCEPT !.bad = doing[s].at])]
              /\ UNCHANGED <<lastOk, latest>>
    /\ pc' = [pc EXCEPT ![s] = "open health"]
    /\ UNCHANGED <<now, files, stage, copy, todo, doing, pen, lastBad, gone, overlap, faults>>

-----------------------------------------------------------------------------
(* Writing a file: open truncates it, fill writes the content *)

OnState(s) == pc[s] \in {"open state", "fill state"}
OnHealth(s) == pc[s] \in {"open health", "fill health"}

\* The others that have the file open; one of them may write over the rest.
Rivals(s) ==
    {o \in Sessions \ {s} :
        \/ pc[s] = "open state" /\ pc[o] = "fill state" /\ pen[o] # "gone"
        \/ pc[s] = "open health" /\ pc[o] = "fill health"}

Truncate(s) ==
    pen' = [o \in Sessions |->
              IF o = s THEN IF Rivals(s) = {} THEN "alone" ELSE "mixed"
              ELSE IF o \in Rivals(s) THEN "mixed" ELSE pen[o]]

OpenState(s) ==
    /\ pc[s] = "open state"
    /\ states' = [map |-> Nothing, bad |-> FALSE]
    /\ Truncate(s)
    /\ pc' = [pc EXCEPT ![s] = "fill state"]
    /\ UNCHANGED <<now, evidence, stage, copy, seen, todo, doing, history>>

OpenHealth(s) ==
    /\ pc[s] = "open health"
    /\ evidence' = Nothing
    /\ Truncate(s)
    /\ pc' = [pc EXCEPT ![s] = "fill health"]
    /\ UNCHANGED <<now, states, stage, copy, seen, todo, doing, history>>

\* A success leaves the loop of a task or an adapter, whose ledger and cache
\* entries are still to be written; a refresh goes on with the next route.
Recorded(s) == IF doing[s].kind = "ok" /\ stage[s] \in {"first", "second", "adapter"}
               THEN "after" ELSE "try"

\* Two writers that had the file open together may leave the content of one, or
\* parts of both, which is no JSON and may not even be text.
FillState(s) ==
    /\ pc[s] = "fill state"
    /\ \/ pen[s] \in {"alone", "mixed"} /\ states' = [map |-> Kept(copy[s]), bad |-> FALSE]
       \/ /\ pen[s] = "mixed"
          /\ states' \in {[map |-> Nothing, bad |-> b] : b \in BOOLEAN}
       \/ pen[s] = "gone" /\ UNCHANGED states
    /\ pen' = [pen EXCEPT ![s] = "none"]
    /\ pc' = [pc EXCEPT ![s] = IF doing[s].kind = "ok" THEN Recorded(s) ELSE "read health"]
    /\ UNCHANGED <<now, evidence, stage, copy, seen, todo, doing, history>>

\* After a success the route leaves the copy, and the state file is rewritten
\* only if the copy had it.
FillHealth(s) ==
    /\ pc[s] = "fill health"
    /\ \/ evidence' = seen[s]
       \/ pen[s] = "mixed" /\ evidence' = Nothing
    /\ pen' = [pen EXCEPT ![s] = "none"]
    /\ seen' = [seen EXCEPT ![s] = Nothing]
    /\ \/ /\ doing[s].kind = "ok" /\ doing[s].route \in DOMAIN copy[s]
          /\ copy' = [copy EXCEPT ![s] = Without(@, doing[s].route)]
          /\ pc' = [pc EXCEPT ![s] = "open state"]
       \/ /\ ~(doing[s].kind = "ok" /\ doing[s].route \in DOMAIN copy[s])
          /\ pc' = [pc EXCEPT ![s] = Recorded(s)]
          /\ UNCHANGED copy
    /\ UNCHANGED <<now, states, stage, todo, doing, history>>

Finish(s) ==
    /\ pc[s] = "after" /\ End(s, "done")
    /\ UNCHANGED <<now, files, stage, history>>

\* A write that breaks off leaves what it had got to.
BreakOff(s) ==
    /\ states' \in {states} \cup
          {[map |-> Nothing, bad |-> b] : b \in IF HalfWritten(s) THEN BOOLEAN ELSE {}}
    /\ evidence' \in {evidence} \cup IF pc[s] = "fill health" THEN {Nothing} ELSE {}

\* A file error while recording a success, or while writing what comes after it,
\* is handled like a failure of the route.  While recording a failure it ends
\* the session.
FileError(s) ==
    /\ \/ OnState(s) \/ OnHealth(s) \/ pc[s] = "after"
    /\ faults < MaxFaults /\ faults' = faults + 1
    /\ \/ /\ doing[s].kind = "ok"
          /\ Fail(s, doing[s].route, Transient)
          /\ seen' = [seen EXCEPT ![s] = Nothing]
          /\ pen' = [pen EXCEPT ![s] = "none"]
          /\ UNCHANGED todo
       \/ /\ doing[s].kind = "bad" /\ End(s, "raised")
          /\ UNCHANGED <<latest, lastBad, gone>>
    /\ BreakOff(s)
    /\ UNCHANGED <<now, stage, lastOk, overlap>>

-----------------------------------------------------------------------------
(* The surroundings *)

Die(s) ==
    /\ s \in Active /\ End(s, "dead") /\ BreakOff(s)
    /\ faults < MaxFaults /\ faults' = faults + 1
    /\ UNCHANGED <<now, stage, latest, lastOk, lastBad, gone, overlap>>

\* The clear command unlinks the state file; what is written to it afterwards by
\* those that had it open is lost.
ClearRouteState ==
    /\ states # [map |-> Nothing, bad |-> FALSE] \/ \E s \in Sessions : pc[s] = "fill state"
    /\ states' = [map |-> Nothing, bad |-> FALSE]
    /\ pen' = [s \in Sessions |-> IF pc[s] = "fill state" THEN "gone" ELSE pen[s]]
    /\ latest' = [r \in Routes |-> [latest[r] EXCEPT !.until = 0]]
    /\ overlap' = (overlap \/ Active # {})
    /\ UNCHANGED <<now, evidence, pc, stage, copy, seen, todo, doing, lastOk, lastBad, gone, faults>>

Tick ==
    /\ now < Horizon
    /\ now' = now + 1
    /\ UNCHANGED <<files, session, history>>

Next ==
    \/ \E s \in Sessions :
        \/ Load(s) \/ Select(s) \/ Try(s) \/ Exhausted(s) \/ ReadHealth(s)
        \/ OpenState(s) \/ OpenHealth(s) \/ FillState(s) \/ FillHealth(s)
        \/ Finish(s) \/ FileError(s) \/ Die(s)
    \/ ClearRouteState
    \/ Tick

HealthSpec == Init /\ [][Next]_vars

-----------------------------------------------------------------------------
(* Properties *)

\* The type invariant.
HealthTypeOK ==
    /\ now \in Nat
    /\ IsMap(states.map, State) /\ states.bad \in BOOLEAN
    /\ IsMap(evidence, Health)
    /\ pc \in [Sessions -> {"start", "load", "select", "try", "read health", "open health",
                            "fill health", "open state", "fill state", "after"} \cup Ended]
    /\ stage \in [Sessions -> {"first", "nested", "second", "pick", "adapter", "refresh"}]
    /\ \A s \in Sessions : IsMap(copy[s], State) /\ IsMap(seen[s], Health)
    /\ todo \in [Sessions -> SUBSET Routes]
    /\ doing \in [Sessions -> Outcome]
    /\ pen \in [Sessions -> {"none", "alone", "mixed", "gone"}]
    /\ latest \in [Routes -> [kind: {"none", "ok", "bad"}, until: Nat, err: Error]]
    /\ gone \subseteq Routes
    /\ {lastOk, lastBad} \subseteq [Routes -> Nat \cup {Never}]
    /\ overlap \in BOOLEAN /\ faults \in Nat

\* A rewrite from an old copy may bring a cooldown back, but no cooldown, on disk
\* or in a copy, is invented or ends later than the cap after the route's latest
\* failure, or the quarantine if it ever answered 404 or 410; only a model that was
\* reported missing stays out longer (router.py 954-971, 1018-1042, 1183-1193).
CooldownsAreBounded ==
    \A f \in {states.map} \cup {copy[s] : s \in Sessions} : \A r \in DOMAIN f :
        /\ lastBad[r] # Never
        /\ \/ f[r].until <= lastBad[r] + Cap
           \/ r \in gone /\ f[r].until <= lastBad[r] + Quarantine
           \/ f[r].dead

\* A task tries a route that the configuration does not name only after that
\* route really answered within the time to live, whatever lost updates and torn
\* files did to the evidence (router.py 1154-1166, 6318).  The one exception is a
\* trial-quota route in a golden evaluation that was allowed unprotected trials: it
\* is tried unless it is cooling down (6311-6317, evaluation.py 358-373).
UndeclaredNeedsSuccess ==
    [][\A s \in Sessions : pc[s] = "select" /\ pc'[s] = "try" =>
          \A r \in todo'[s] \ Declared :
              \/ lastOk[r] # Never /\ now - lastOk[r] <= TTL
              \/ Kind[s] = "trial" /\ r \in Trials]_vars

\* While sessions run one at a time and no write fails, the two files say what
\* really happened last: a route cools down exactly because its latest outcome
\* was a failure, and shows as healthy exactly because it was a recent success
\* (router.py 1071-1120, 1169-1193).
LoneSessionIsExact ==
    ~overlap /\ faults = 0 /\ Active = {} =>
        \A r \in Routes :
            LET l == latest[r]
                cooling == ~Available(Loaded(states.map), r)
            IN  /\ l.kind = "bad" /\ l.until > now => cooling
                /\ cooling => l.kind = "bad" /\ (l.err.dead \/ l.until > now)
                /\ Healthy(evidence, r) /\ ~cooling <=>
                      l.kind = "ok" /\ lastOk[r] > lastBad[r] /\ now - lastOk[r] <= TTL

\* "Keep it out of recommendations until a fresh health run explicitly clears the
\* route" (router.py 1024-1026), where nothing but a stale copy is in the way: no
\* write failed, no session died, nobody is writing, and the file is whole.
QuarantineIsKept ==
    faults = 0 /\ Active = {} /\ states.map # Nothing =>
        \A r \in Routes :
            latest[r].kind = "bad" /\ latest[r].err.gone /\ latest[r].until > now =>
                ~Available(states.map, r)

============================================================================
