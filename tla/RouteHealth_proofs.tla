------------------------- MODULE RouteHealth_proofs -------------------------
(***************************************************************************)
(* What the two unprotected health files still guarantee, for any number   *)
(* of routes and sessions: cooldowns stay bounded by real failures, and    *)
(* evidence of a success is never newer than a real one.  While sessions   *)
(* run one at a time and no write fails, both files are exact.             *)
(***************************************************************************)
EXTENDS RouteHealth, TLAPS

Instants == Nat \cup {Never}

\* What the failures of a route, the last one at instant b, can have called for.
Explains(b, left, e) ==
    \/ e.until <= b + Cap
    \/ left /\ e.until <= b + Quarantine
    \/ e.dead

\* A cooldown map that only real failures explain; bad says when those were,
\* left which routes answered 404 or 410.
Earned(f, bad, left) ==
    /\ IsMap(f, State)
    /\ \A r \in DOMAIN f : bad[r] # Never /\ Explains(bad[r], r \in left, f[r])

\* Evidence that is never newer than the latest answer.
Honest(h, ok) ==
    /\ IsMap(h, Health)
    /\ \A r \in DOMAIN h : h[r].ok <= ok[r]

Labels == {"start", "load", "select", "try", "read health", "open health",
           "fill health", "open state", "fill state", "after"} \cup Ended

Frame ==
    /\ now \in Nat
    /\ states.bad \in BOOLEAN
    /\ pc \in [Sessions -> Labels]
    /\ stage \in [Sessions -> {"first", "nested", "second", "pick", "adapter", "refresh"}]
    /\ DOMAIN copy = Sessions /\ DOMAIN seen = Sessions
    /\ todo \in [Sessions -> SUBSET Routes]
    /\ doing \in [Sessions -> Outcome]
    /\ pen \in [Sessions -> {"none", "alone", "mixed", "gone"}]
    /\ latest \in [Routes -> [kind: {"none", "ok", "bad"}, until: Nat, err: Error]]
    /\ gone \subseteq Routes
    /\ overlap \in BOOLEAN /\ faults \in Nat

Clocks ==
    /\ lastOk \in [Routes -> Instants] /\ lastBad \in [Routes -> Instants]
    /\ \A r \in Routes : lastOk[r] <= now /\ lastBad[r] <= now

Cooldowns ==
    /\ Earned(states.map, lastBad, gone)
    /\ \A s \in Sessions : Earned(copy[s], lastBad, gone)

Evidence ==
    /\ Honest(evidence, lastOk)
    /\ \A s \in Sessions : Honest(seen[s], lastOk)

HealthInv == Frame /\ Clocks /\ Cooldowns /\ Evidence

-----------------------------------------------------------------------------
(* Errors and maps *)

\* The failures a route may show are of the kinds the maps can hold.
LEMMA ErrorTypes == Transient \in Error /\ Errors \subseteq Error
BY HealthConstants DEF Transient, Error

\* The empty map is explained and honest.
LEMMA NothingIsFine ==
    ASSUME NEW b, NEW left
    PROVE  Earned(Nothing, b, left) /\ Honest(Nothing, b)
BY DEF Nothing, Earned, Honest, IsMap

\* Later failures explain what earlier ones did.
LEMMA EarnedLater ==
    ASSUME NEW f, NEW b \in [Routes -> Instants], NEW c \in [Routes -> Instants],
           NEW left, NEW more, left \subseteq more,
           \A r \in Routes : b[r] <= c[r], Earned(f, b, left)
    PROVE  Earned(f, c, more)
<1> USE HealthConstants DEF Instants, Never
<1> SUFFICES ASSUME NEW r \in DOMAIN f
             PROVE  c[r] # Never /\ Explains(c[r], r \in more, f[r])
    BY DEF Earned
<1>1. r \in Routes /\ f[r] \in State BY DEF Earned, IsMap
<1>2. b[r] # Never /\ Explains(b[r], r \in left, f[r]) BY DEF Earned
<1>3. b[r] <= c[r] /\ b[r] \in Nat /\ c[r] \in Nat BY <1>1, <1>2
<1>4. CASE f[r].until <= b[r] + Cap BY <1>1, <1>3, <1>4 DEF Explains, State
<1>5. CASE r \in left /\ f[r].until <= b[r] + Quarantine
  BY <1>1, <1>3, <1>5 DEF Explains, State
<1>6. CASE f[r].dead BY <1>3, <1>6 DEF Explains
<1> QED BY <1>2, <1>4, <1>5, <1>6 DEF Explains

\* Later answers bear out the same evidence.
LEMMA HonestLater ==
    ASSUME NEW h, NEW b \in [Routes -> Instants], NEW c \in [Routes -> Instants],
           \A r \in Routes : b[r] <= c[r], Honest(h, b)
    PROVE  Honest(h, c)
<1> SUFFICES ASSUME NEW r \in DOMAIN h PROVE h[r].ok <= c[r]
    BY DEF Honest
<1>1. r \in Routes /\ h[r] \in Health BY DEF Honest, IsMap
<1>2. h[r].ok <= b[r] BY DEF Honest
<1>3. b[r] <= c[r] BY <1>1
<1> QED BY <1>1, <1>2, <1>3 DEF Health, Instants, Never

\* Leaving entries out keeps a map explained.
LEMMA EarnedSubmaps ==
    ASSUME NEW f, NEW b, NEW left, NEW r, Earned(f, b, left)
    PROVE  Earned(Kept(f), b, left) /\ Earned(Without(f, r), b, left)
BY DEF Earned, IsMap, Kept, Without

\* Loading renews the entries of missing models only.
LEMMA EarnedLoaded ==
    ASSUME NEW f, NEW b, NEW left, Earned(f, b, left), now \in Nat
    PROVE  Earned(Loaded(f), b, left)
<1>1. DOMAIN Loaded(f) = DOMAIN f BY DEF Loaded
<1>2. ASSUME NEW r \in DOMAIN f
      PROVE  /\ Loaded(f)[r] \in State
             /\ b[r] # Never /\ Explains(b[r], r \in left, Loaded(f)[r])
  <2>1. f[r] \in State /\ b[r] # Never /\ Explains(b[r], r \in left, f[r])
    BY <1>2 DEF Earned, IsMap
  <2>2. CASE f[r].dead /\ f[r].until < now + Quarantine - 1
    <3>1. Loaded(f)[r] = [f[r] EXCEPT !.until = now + Quarantine - 1]
      BY <1>2, <2>2 DEF Loaded
    <3>2. now + Quarantine - 1 \in Nat BY HealthConstants
    <3>3. Loaded(f)[r] \in State /\ Loaded(f)[r].dead BY <2>1, <2>2, <3>1, <3>2 DEF State
    <3> QED BY <2>1, <3>3 DEF Explains
  <2>3. CASE ~(f[r].dead /\ f[r].until < now + Quarantine - 1)
    BY <1>2, <2>1, <2>3 DEF Loaded
  <2> QED BY <2>2, <2>3
<1> QED BY <1>1, <1>2 DEF Earned, IsMap

\* A cooldown is a natural number, the quarantine or at most the cap.
LEMMA CooldownBound ==
    ASSUME NEW err \in Error, NEW count \in Nat
    PROVE  /\ Cooldown(err, count) \in Nat
           /\ IF err.gone THEN Cooldown(err, count) <= Quarantine ELSE Cooldown(err, count) <= Cap
<1>1. Base \in Nat /\ Cap \in Nat /\ Quarantine \in Nat BY HealthConstants
<1>2. Base * count \in Nat BY <1>1
<1> QED BY <1>1, <1>2 DEF Cooldown

\* A failure that happens now explains the entry it makes.
LEMMA EarnedAfter ==
    ASSUME NEW f, NEW b \in [Routes -> Instants], NEW left, NEW r \in Routes, NEW err \in Error,
           now \in Nat, \A x \in Routes : b[x] <= now, Earned(f, b, left)
    PROVE  /\ Earned(After(f, r, err), [b EXCEPT ![r] = now],
                     IF err.gone THEN left \cup {r} ELSE left)
           /\ After(f, r, err)[r].until \in Nat
<1> DEFINE count == (IF r \in DOMAIN f THEN f[r].count ELSE 0) + 1
           e == [until |-> now + Cooldown(err, count), count |-> count, dead |-> err.dead]
           c == [b EXCEPT ![r] = now]
           more == IF err.gone THEN left \cup {r} ELSE left
<1>1. count \in Nat \ {0} BY DEF Earned, IsMap, State
<1>2. /\ Cooldown(err, count) \in Nat
      /\ IF err.gone THEN Cooldown(err, count) <= Quarantine ELSE Cooldown(err, count) <= Cap
  BY <1>1, CooldownBound
<1>3. e \in State
  <2>1. now + Cooldown(err, count) \in Nat BY <1>2
  <2>2. err.dead \in BOOLEAN BY DEF Error
  <2> HIDE DEF count
  <2> QED BY <1>1, <2>1, <2>2 DEF State
<1>4. Explains(now, r \in more, e)
  <2>1. CASE err.gone
    <3>1. r \in more BY <2>1
    <3>2. e.until <= now + Quarantine BY <1>2, <2>1, HealthConstants
    <3> QED BY <3>1, <3>2 DEF Explains
  <2>2. CASE ~err.gone
    <3>1. e.until <= now + Cap BY <1>2, <2>2, HealthConstants
    <3> QED BY <3>1 DEF Explains
  <2> QED BY <2>1, <2>2
<1>5. After(f, r, err) = With(f, r, e) BY DEF After
<1>6. c \in [Routes -> Instants] /\ c[r] = now /\ \A x \in Routes : b[x] <= c[x]
  BY DEF Instants, Never
<1>7. left \subseteq more OBVIOUS
<1>8. now # Never BY DEF Never
<1> HIDE DEF e, c, count, more
<1>9. Earned(f, c, more) BY <1>6, <1>7, EarnedLater
<1>10. Earned(With(f, r, e), c, more)
  BY <1>3, <1>4, <1>6, <1>8, <1>9 DEF Earned, IsMap, With
<1>11. With(f, r, e)[r].until \in Nat BY <1>3 DEF With, State
<1> QED BY <1>5, <1>10, <1>11 DEF c, more

-----------------------------------------------------------------------------
(* Sessions *)

\* What a session leaves behind when it ends is in order.
LEMMA EndFacts ==
    ASSUME NEW s \in Sessions, NEW how \in Ended, End(s, how), Frame
    PROVE  /\ pc' \in [Sessions -> Labels]
           /\ DOMAIN copy' = Sessions /\ DOMAIN seen' = Sessions
           /\ todo' \in [Sessions -> SUBSET Routes]
           /\ doing' \in [Sessions -> Outcome]
           /\ pen' \in [Sessions -> {"none", "alone", "mixed", "gone"}]
           /\ \A o \in Sessions : copy'[o] \in {copy[o], Nothing} /\ seen'[o] \in {seen[o], Nothing}
<1>1. Idle \in Outcome
  BY HealthConstants DEF Idle, Outcome
<1> QED BY <1>1 DEF End, Frame, Labels

\* The copies of a session that ends stay explained and honest.
LEMMA EndKeeps ==
    ASSUME NEW s \in Sessions, NEW how \in Ended, End(s, how), HealthInv
    PROVE  \A o \in Sessions : Earned(copy'[o], lastBad, gone) /\ Honest(seen'[o], lastOk)
<1> SUFFICES ASSUME NEW o \in Sessions
             PROVE  Earned(copy'[o], lastBad, gone) /\ Honest(seen'[o], lastOk)
    OBVIOUS
<1>1. copy'[o] \in {copy[o], Nothing} /\ seen'[o] \in {seen[o], Nothing}
  BY EndFacts DEF HealthInv
<1> QED BY <1>1, NothingIsFine DEF HealthInv, Cooldowns, Evidence

\* A failure that is recorded keeps every map explained.
LEMMA FailFacts ==
    ASSUME NEW s \in Sessions, NEW r \in Routes, NEW err \in Error,
           Fail(s, r, err), HealthInv, now' = now, lastOk' = lastOk
    PROVE  /\ Clocks'
           /\ \A f : Earned(f, lastBad, gone) => Earned(f, lastBad', gone')
           /\ gone' \subseteq Routes
           /\ \A o \in Sessions : Earned(copy'[o], lastBad', gone')
           /\ DOMAIN copy' = Sessions
           /\ pc' \in [Sessions -> Labels]
           /\ doing' \in [Sessions -> Outcome]
           /\ latest' \in [Routes -> [kind: {"none", "ok", "bad"}, until: Nat, err: Error]]
<1>1. now \in Nat /\ lastBad \in [Routes -> Instants] /\ lastOk \in [Routes -> Instants]
      /\ (\A x \in Routes : lastOk[x] <= now /\ lastBad[x] <= now)
  BY DEF HealthInv, Frame, Clocks
<1>2. lastBad' = [lastBad EXCEPT ![r] = now] BY DEF Fail
<1>3. lastBad' \in [Routes -> Instants] /\ (\A x \in Routes : lastBad[x] <= lastBad'[x] /\ lastBad'[x] <= now)
  BY <1>1, <1>2 DEF Instants, Never
<1>4. Clocks' BY <1>1, <1>3 DEF Clocks
<1>5. gone' = (IF err.gone THEN gone \cup {r} ELSE gone) BY DEF Fail
<1>13. gone \subseteq gone' /\ gone' \subseteq Routes BY <1>5 DEF HealthInv, Frame
<1>14. \A f : Earned(f, lastBad, gone) => Earned(f, lastBad', gone')
  BY <1>1, <1>3, <1>13, EarnedLater
<1>6. Earned(copy[s], lastBad, gone) BY DEF HealthInv, Cooldowns
<1>7. /\ Earned(After(copy[s], r, err), lastBad', gone')
      /\ After(copy[s], r, err)[r].until \in Nat
  BY <1>1, <1>2, <1>5, <1>6, EarnedAfter
<1>8. copy' = [copy EXCEPT ![s] = After(copy[s], r, err)] /\ DOMAIN copy = Sessions
  BY DEF Fail, HealthInv, Frame
<1>9. \A o \in Sessions : Earned(copy'[o], lastBad', gone')
  <2> SUFFICES ASSUME NEW o \in Sessions PROVE Earned(copy'[o], lastBad', gone') OBVIOUS
  <2>1. CASE o = s BY <2>1, <1>7, <1>8
  <2>2. CASE o # s
    <3>1. copy'[o] = copy[o] BY <2>2, <1>8
    <3> QED BY <3>1, <1>14 DEF HealthInv, Cooldowns
  <2> QED BY <2>1, <2>2
<1>10. pc' \in [Sessions -> Labels] /\ doing' \in [Sessions -> Outcome]
  BY <1>1 DEF Fail, HealthInv, Frame, Labels, Outcome
<1>11. latest' = [latest EXCEPT ![r] =
                   [kind |-> "bad", until |-> After(copy[s], r, err)[r].until, err |-> err]]
  BY DEF Fail
<1>12. latest' \in [Routes -> [kind: {"none", "ok", "bad"}, until: Nat, err: Error]]
  BY <1>7, <1>11 DEF HealthInv, Frame
<1> QED BY <1>4, <1>8, <1>9, <1>10, <1>12, <1>13, <1>14

-----------------------------------------------------------------------------
(* The steps *)

\* Nothing is recorded before the first session starts.
LEMMA HealthInit == Init => HealthInv
<1> SUFFICES ASSUME Init PROVE HealthInv OBVIOUS
<1>1. Idle \in Outcome BY HealthConstants DEF Idle, Outcome
<1>2. \A s \in Sessions : stage[s] \in {"first", "pick", "refresh"}
  BY HealthConstants DEF Init
<1>6. latest \in [Routes -> [kind: {"none", "ok", "bad"}, until: Nat, err: Error]]
  <2>1. [kind |-> "none", until |-> 0, err |-> Transient]
          \in [kind: {"none", "ok", "bad"}, until: Nat, err: Error]
    BY ErrorTypes
  <2> QED BY <2>1 DEF Init
<1>7. stage \in [Sessions -> {"first", "nested", "second", "pick", "adapter", "refresh"}]
  BY <1>2 DEF Init
<1>8. overlap \in BOOLEAN /\ states.bad \in BOOLEAN BY DEF Init
<1>3. Frame
  BY <1>1, <1>6, <1>7, <1>8 DEF Init, Frame, Labels
<1>4. Clocks BY DEF Init, Clocks, Instants, Never
<1>5. Cooldowns /\ Evidence
  BY NothingIsFine DEF Init, Cooldowns, Evidence
<1> QED BY <1>3, <1>4, <1>5 DEF HealthInv

\* Loading copies the map, quarantines renewed.
LEMMA LoadStep ==
    ASSUME NEW s \in Sessions, Load(s), HealthInv
    PROVE  HealthInv'
<1>1. Clocks' BY DEF Load, HealthInv, Clocks
<1>2. CASE ~states.bad /\ copy' = [copy EXCEPT ![s] = Loaded(states.map)]
           /\ Plan(s, copy'[s]) /\ UNCHANGED <<seen, doing, pen>>
  <2>0. overlap' \in BOOLEAN BY Zenon DEF Load
  <2>1. Frame'
    <3>1. pc' \in [Sessions -> Labels]
      BY <1>2 DEF Plan, HealthInv, Frame, Labels
    <3>2. stage' \in [Sessions -> {"first", "nested", "second", "pick", "adapter", "refresh"}]
      BY <1>2 DEF Plan, HealthInv, Frame
    <3>3. todo' \in [Sessions -> SUBSET Routes]
      <4>1. {r \in Routes : Available(copy'[s], r)} \in SUBSET Routes OBVIOUS
      <4> HIDE DEF Available
      <4>2. PICK T \in SUBSET Routes : todo' = [todo EXCEPT ![s] = T] \/ todo' = todo
        BY <1>2, <4>1 DEF Plan
      <4> QED BY <4>2 DEF HealthInv, Frame
    <3> QED BY <1>2, <2>0, <3>1, <3>2, <3>3 DEF Load, HealthInv, Frame, files
  <2>2. Earned(Loaded(states.map), lastBad, gone)
    BY EarnedLoaded DEF HealthInv, Cooldowns, Frame
  <2>3. \A o \in Sessions : copy'[o] = copy[o] \/ copy'[o] = Loaded(states.map)
    BY <1>2 DEF HealthInv, Frame
  <2>4. Cooldowns' /\ Evidence'
    BY <1>2, <2>2, <2>3 DEF Load, HealthInv, Cooldowns, Evidence, files
  <2> QED BY <1>1, <2>1, <2>4 DEF HealthInv
<1>3. CASE End(s, "raised") /\ UNCHANGED stage
  <2>0. overlap' \in BOOLEAN BY Zenon DEF Load
  <2>1. Frame'
    BY <1>3, <2>0, EndFacts DEF Load, HealthInv, Frame, Ended, files
  <2>2. Cooldowns' /\ Evidence'
    BY <1>3, EndKeeps DEF Load, HealthInv, Cooldowns, Evidence, Ended, files
  <2> QED BY <1>1, <2>1, <2>2 DEF HealthInv
<1> QED BY <1>2, <1>3 DEF Load

\* Selecting and giving up leave the files and the histories alone.
LEMMA ChoiceStep ==
    ASSUME NEW s \in Sessions, Select(s) \/ Exhausted(s) \/ Finish(s), HealthInv
    PROVE  HealthInv'
<1>1. UNCHANGED <<now, files, history>> BY DEF Select, Exhausted, Finish
<1>2. Clocks' BY <1>1 DEF HealthInv, Clocks, history
<1>3. CASE \E how \in Ended : End(s, how) /\ UNCHANGED stage
  <2>1. Frame' BY <1>1, <1>3, EndFacts DEF HealthInv, Frame, files, history
  <2>2. Cooldowns' /\ Evidence'
    BY <1>1, <1>3, EndKeeps DEF HealthInv, Cooldowns, Evidence, files, history
  <2> QED BY <1>2, <2>1, <2>2 DEF HealthInv
<1>4. CASE /\ UNCHANGED <<copy, seen, doing, pen>>
           /\ \/ /\ pc' = [pc EXCEPT ![s] = "try"] /\ UNCHANGED stage
                 /\ \E some \in SUBSET Routes : todo' = [todo EXCEPT ![s] = some]
              \/ /\ pc' = [pc EXCEPT ![s] = "load"] /\ UNCHANGED todo
                 /\ stage' = [stage EXCEPT ![s] = "second"]
  <2>1. Frame'
    <3>1. pc' \in [Sessions -> Labels]
      BY <1>4 DEF HealthInv, Frame, Labels
    <3>2. stage' \in [Sessions -> {"first", "nested", "second", "pick", "adapter", "refresh"}]
      BY <1>4 DEF HealthInv, Frame
    <3>3. todo' \in [Sessions -> SUBSET Routes]
      <4>1. PICK T \in SUBSET Routes : todo' = [todo EXCEPT ![s] = T] \/ todo' = todo
        BY <1>4
      <4> QED BY <4>1 DEF HealthInv, Frame
    <3> QED BY <1>1, <1>4, <3>1, <3>2, <3>3 DEF HealthInv, Frame, files, history
  <2>2. Cooldowns' /\ Evidence'
    BY <1>1, <1>4 DEF HealthInv, Cooldowns, Evidence, files, history
  <2> QED BY <1>2, <2>1, <2>2 DEF HealthInv
<1>5. CASE Select(s)
  <2>1. PICK named \in SUBSET Routes :
          LET choices == {r \in named : \/ Eligible(copy[s], evidence, r)
                                        \/ OnTrial(s, copy[s], r)}
          IN  \/ /\ todo' = [todo EXCEPT ![s] = choices]
                 /\ pc' = [pc EXCEPT ![s] = "try"]
                 /\ UNCHANGED <<copy, seen, doing, pen>>
              \/ End(s, "raised")
    BY <1>5 DEF Select
  <2>2. UNCHANGED stage BY <1>5 DEF Select
  <2> QED BY <1>3, <1>4, <2>1, <2>2 DEF Ended
<1>6. CASE Exhausted(s) \/ Finish(s)
  BY <1>3, <1>4, <1>6 DEF Exhausted, Finish, Ended
<1> QED BY <1>5, <1>6

\* Trying a route changes a map only by a failure that happened.
LEMMA TryStep ==
    ASSUME NEW s \in Sessions, Try(s), HealthInv
    PROVE  HealthInv'
<1>1. PICK r \in todo[s] :
         /\ todo' = [todo EXCEPT ![s] = @ \ {r}]
         /\ \/ /\ doing' = [doing EXCEPT ![s] = [kind |-> "ok", route |-> r, at |-> now]]
               /\ pc' = [pc EXCEPT ![s] = "read health"]
               /\ UNCHANGED <<copy, latest, lastBad, gone>>
            \/ \E err \in Errors : Fail(s, r, err)
            \/ UNCHANGED <<pc, copy, doing, latest, lastBad, gone>>
  BY DEF Try
<1>2. UNCHANGED <<now, files, stage, seen, pen, lastOk, overlap, faults>> BY DEF Try
<1>3. r \in Routes BY DEF HealthInv, Frame
<1>4. todo' \in [Sessions -> SUBSET Routes] BY <1>1 DEF HealthInv, Frame
<1>5. CASE UNCHANGED <<copy, latest, lastBad, gone>>
  <2>1. doing' \in [Sessions -> Outcome] /\ pc' \in [Sessions -> Labels]
    <3>1. CASE \E err \in Errors : Fail(s, r, err)
      <4>1. PICK err \in Errors : Fail(s, r, err) BY <3>1
      <4> QED BY <1>2, <1>3, <4>1, ErrorTypes, FailFacts
    <3>2. CASE /\ doing' = [doing EXCEPT ![s] = [kind |-> "ok", route |-> r, at |-> now]]
               /\ pc' = [pc EXCEPT ![s] = "read health"]
      BY <1>3, <3>2 DEF HealthInv, Frame, Outcome, Labels
    <3>3. CASE UNCHANGED <<pc, doing>> BY <3>3 DEF HealthInv, Frame
    <3> QED BY <1>1, <3>1, <3>2, <3>3
  <2>2. Frame' BY <1>2, <1>4, <1>5, <2>1 DEF HealthInv, Frame, files
  <2>3. Clocks' /\ Cooldowns' /\ Evidence'
    BY <1>2, <1>5 DEF HealthInv, Clocks, Cooldowns, Evidence, files
  <2> QED BY <2>2, <2>3 DEF HealthInv
<1>6. CASE \E err \in Errors : Fail(s, r, err)
  <2>1. PICK err \in Errors : Fail(s, r, err) BY <1>6
  <2> err \in Error BY ErrorTypes
  <2>2. Frame' BY <1>2, <1>3, <1>4, <2>1, FailFacts DEF HealthInv, Frame, files
  <2>3. Clocks' /\ Cooldowns'
    BY <1>2, <1>3, <2>1, FailFacts DEF HealthInv, Cooldowns, files
  <2>4. Evidence' BY <1>2 DEF HealthInv, Evidence, files
  <2> QED BY <2>2, <2>3, <2>4 DEF HealthInv
<1> QED BY <1>1, <1>5, <1>6

\* The evidence a record will write is honest: its success has just happened.
LEMMA ReadHealthStep ==
    ASSUME NEW s \in Sessions, ReadHealth(s), HealthInv
    PROVE  HealthInv'
<1> DEFINE r == doing[s].route
           old == IF r \in DOMAIN evidence THEN evidence[r] ELSE [ok |-> Never, bad |-> Never]
<1>1. r \in Routes /\ doing[s].at \in Nat /\ now \in Nat
  BY DEF HealthInv, Frame, Outcome
<1>2. UNCHANGED <<now, files, stage, copy, todo, doing, pen, lastBad, gone, overlap, faults>>
      /\ pc' = [pc EXCEPT ![s] = "open health"]
  BY DEF ReadHealth
<1>3. old \in Health /\ Honest(evidence, lastOk)
  BY DEF HealthInv, Evidence, Honest, IsMap, Health
<1>4. /\ lastOk \in [Routes -> Instants] /\ lastBad \in [Routes -> Instants]
      /\ \A x \in Routes : lastOk[x] <= now /\ lastBad[x] <= now
  BY DEF HealthInv, Clocks
<1>5. CASE /\ doing[s].kind = "ok"
           /\ seen' = [seen EXCEPT ![s] = With(evidence, r, [old EXCEPT !.ok = now])]
           /\ lastOk' = [lastOk EXCEPT ![r] = now]
           /\ latest' = [latest EXCEPT ![r] = [kind |-> "ok", until |-> 0, err |-> Transient]]
  <2>1. lastOk' \in [Routes -> Instants] /\ lastOk'[r] = now
        /\ \A x \in Routes : lastOk[x] <= lastOk'[x] /\ lastOk'[x] <= now
    BY <1>1, <1>4, <1>5 DEF Instants, Never
  <2>2. \A h : Honest(h, lastOk) => Honest(h, lastOk') BY <1>4, <2>1, HonestLater
  <2>3. [old EXCEPT !.ok = now] \in Health /\ [old EXCEPT !.ok = now].ok = now
    BY <1>1, <1>3 DEF Health
  <2> HIDE DEF old, r
  <2>4. Honest(With(evidence, r, [old EXCEPT !.ok = now]), lastOk')
    <3> DEFINE e == [old EXCEPT !.ok = now]
    <3>1. e \in Health /\ e.ok <= lastOk'[r] BY <1>1, <2>1, <2>3
    <3>2. Honest(evidence, lastOk') BY <1>3, <2>2
    <3> HIDE DEF e
    <3>3. Honest(With(evidence, r, e), lastOk')
      BY <1>1, <3>1, <3>2 DEF Honest, IsMap, With
    <3> QED BY <3>3 DEF e
  <2>5. \A o \in Sessions :
           seen'[o] = seen[o] \/ seen'[o] = With(evidence, r, [old EXCEPT !.ok = now])
    BY <1>5 DEF HealthInv, Frame
  <2>6. Evidence'
    BY <1>2, <1>3, <2>2, <2>4, <2>5 DEF HealthInv, Evidence, files
  <2>7. Clocks' BY <1>2, <1>4, <2>1 DEF Clocks
  <2>8. Cooldowns' BY <1>2 DEF HealthInv, Cooldowns, files
  <2>9. latest' \in [Routes -> [kind: {"none", "ok", "bad"}, until: Nat, err: Error]]
    BY <1>1, <1>5, ErrorTypes DEF HealthInv, Frame
  <2>10. Frame' BY <1>2, <1>5, <2>9 DEF HealthInv, Frame, Labels, files
  <2> QED BY <2>6, <2>7, <2>8, <2>10 DEF HealthInv
<1>6. CASE /\ doing[s].kind = "bad"
           /\ seen' = [seen EXCEPT ![s] = With(evidence, r, [old EXCEPT !.bad = doing[s].at])]
           /\ UNCHANGED <<lastOk, latest>>
  <2> DEFINE e == [old EXCEPT !.bad = doing[s].at]
  <2>1. e \in Health /\ e.ok = old.ok BY <1>1, <1>3 DEF Health
  <2>2. old.ok <= lastOk[r]
    BY <1>1, <1>3, <1>4 DEF Honest, Instants, Never
  <2>3. \A o \in Sessions : seen'[o] = seen[o] \/ seen'[o] = With(evidence, r, e)
    BY <1>6 DEF HealthInv, Frame
  <2> HIDE DEF e, old, r
  <2>4. Honest(With(evidence, r, e), lastOk)
    BY <1>1, <1>3, <2>1, <2>2 DEF Honest, IsMap, With
  <2>5. Evidence' BY <1>2, <1>6, <2>3, <2>4 DEF HealthInv, Evidence, files
  <2>6. Clocks' /\ Cooldowns'
    BY <1>2, <1>6 DEF HealthInv, Clocks, Cooldowns, files
  <2>7. Frame' BY <1>2, <1>6 DEF HealthInv, Frame, Labels, files
  <2> QED BY <2>5, <2>6, <2>7 DEF HealthInv
<1> QED BY <1>5, <1>6 DEF ReadHealth

\* A truncated file reads as an empty map.
LEMMA OpenStep ==
    ASSUME NEW s \in Sessions, OpenState(s) \/ OpenHealth(s), HealthInv
    PROVE  HealthInv'
<1>1. /\ UNCHANGED <<now, stage, copy, seen, todo, doing, history>>
      /\ states' \in {states, [map |-> Nothing, bad |-> FALSE]}
      /\ evidence' \in {evidence, Nothing}
      /\ \E l \in {"fill state", "fill health"} : pc' = [pc EXCEPT ![s] = l]
      /\ Truncate(s)
  BY DEF OpenState, OpenHealth
<1>2. pen' \in [Sessions -> {"none", "alone", "mixed", "gone"}]
  BY <1>1 DEF Truncate, HealthInv, Frame
<1>3. pc' \in [Sessions -> Labels] BY <1>1 DEF HealthInv, Frame, Labels
<1>8. states'.bad \in BOOLEAN
  <2>1. CASE states' = states BY <2>1 DEF HealthInv, Frame
  <2>2. CASE states' = [map |-> Nothing, bad |-> FALSE] BY <2>2
  <2> QED BY <1>1, <2>1, <2>2
<1>4. Frame' BY <1>1, <1>2, <1>3, <1>8 DEF HealthInv, Frame, history
<1>5. Clocks' BY <1>1 DEF HealthInv, Clocks, history
<1>6. Earned(states'.map, lastBad, gone) /\ Honest(evidence', lastOk)
  <2>1. Earned(states'.map, lastBad, gone)
    <3>1. CASE states' = states BY <3>1 DEF HealthInv, Cooldowns
    <3>2. CASE states' = [map |-> Nothing, bad |-> FALSE]
      <4>1. states'.map = Nothing BY <3>2
      <4> QED BY <4>1, NothingIsFine
    <3> QED BY <1>1, <3>1, <3>2
  <2>2. evidence' = evidence \/ evidence' = Nothing BY <1>1
  <2> QED BY <2>1, <2>2, NothingIsFine, Zenon DEF HealthInv, Evidence
<1>7. Cooldowns' /\ Evidence'
  BY <1>1, <1>6 DEF HealthInv, Cooldowns, Evidence, history
<1> QED BY <1>4, <1>5, <1>7 DEF HealthInv

\* A filled state file holds the copy of the writer, or nothing that can be read.
LEMMA FillStateStep ==
    ASSUME NEW s \in Sessions, FillState(s), HealthInv
    PROVE  HealthInv'
<1>1. /\ UNCHANGED <<now, evidence, stage, copy, seen, todo, doing, history>>
      /\ pen' = [pen EXCEPT ![s] = "none"]
      /\ \E l \in {"after", "try", "read health"} : pc' = [pc EXCEPT ![s] = l]
  BY DEF FillState, Recorded
<1>2. \/ states' = [map |-> Kept(copy[s]), bad |-> FALSE]
      \/ \E b \in BOOLEAN : states' = [map |-> Nothing, bad |-> b]
      \/ states' = states
  BY DEF FillState
<1>3. pc' \in [Sessions -> Labels] BY <1>1 DEF HealthInv, Frame, Labels
<1>4. states'.bad \in BOOLEAN
  <2>1. states'.bad = FALSE \/ states'.bad = TRUE \/ states'.bad = states.bad BY <1>2
  <2> QED BY <2>1, Zenon DEF HealthInv, Frame
<1>5. Frame' BY <1>1, <1>3, <1>4 DEF HealthInv, Frame, history
<1>6. Earned(states'.map, lastBad, gone)
  BY <1>2, NothingIsFine, EarnedSubmaps DEF HealthInv, Cooldowns
<1>7. Clocks' /\ Cooldowns' /\ Evidence'
  BY <1>1, <1>6 DEF HealthInv, Clocks, Cooldowns, Evidence, history
<1> QED BY <1>5, <1>7 DEF HealthInv

\* Filled evidence is the writer's; a success then leaves its copy of the map.
LEMMA FillHealthStep ==
    ASSUME NEW s \in Sessions, FillHealth(s), HealthInv
    PROVE  HealthInv'
<1>1. /\ UNCHANGED <<now, states, stage, todo, doing, history>>
      /\ pen' = [pen EXCEPT ![s] = "none"]
      /\ seen' = [seen EXCEPT ![s] = Nothing]
      /\ evidence' \in {seen[s], Nothing}
      /\ \E l \in {"after", "try", "open state"} : pc' = [pc EXCEPT ![s] = l]
      /\ copy' = [copy EXCEPT ![s] = Without(copy[s], doing[s].route)] \/ copy' = copy
  BY DEF FillHealth, Recorded
<1>2. pc' \in [Sessions -> Labels] BY <1>1 DEF HealthInv, Frame, Labels
<1>3. Frame' BY <1>1, <1>2 DEF HealthInv, Frame, history
<1>4. Honest(evidence', lastOk) BY <1>1, NothingIsFine DEF HealthInv, Evidence
<1>5. \A o \in Sessions : Honest(seen'[o], lastOk)
  <2> SUFFICES ASSUME NEW o \in Sessions PROVE Honest(seen'[o], lastOk) OBVIOUS
  <2>1. seen'[o] = seen[o] \/ seen'[o] = Nothing BY <1>1 DEF HealthInv, Frame
  <2> QED BY <2>1, NothingIsFine DEF HealthInv, Evidence
<1>6. \A o \in Sessions : Earned(copy'[o], lastBad, gone)
  <2> SUFFICES ASSUME NEW o \in Sessions PROVE Earned(copy'[o], lastBad, gone) OBVIOUS
  <2>1. copy'[o] = copy[o] \/ copy'[o] = Without(copy[o], doing[o].route)
    BY <1>1 DEF HealthInv, Frame
  <2>2. Earned(copy[o], lastBad, gone) BY DEF HealthInv, Cooldowns
  <2> QED BY <2>1, <2>2, EarnedSubmaps
<1>7. Clocks' /\ Cooldowns' /\ Evidence'
  BY <1>1, <1>4, <1>5, <1>6 DEF HealthInv, Clocks, Cooldowns, Evidence, history
<1> QED BY <1>3, <1>7 DEF HealthInv

\* A file error is a failure of the route, or the end of the session; so is a death.
LEMMA FaultStep ==
    ASSUME NEW s \in Sessions, FileError(s) \/ Die(s), HealthInv
    PROVE  HealthInv'
<1>1. /\ UNCHANGED <<now, stage, lastOk, overlap>> /\ faults' = faults + 1
      /\ states' = states \/ \E b \in BOOLEAN : states' = [map |-> Nothing, bad |-> b]
      /\ evidence' = evidence \/ evidence' = Nothing
  BY DEF FileError, Die, BreakOff
<1>2. faults' \in Nat /\ states'.bad \in BOOLEAN
  <2>1. states'.bad = FALSE \/ states'.bad = TRUE \/ states'.bad = states.bad BY <1>1
  <2>2. states'.bad \in BOOLEAN BY <2>1, Zenon DEF HealthInv, Frame
  <2> QED BY <1>1, <2>2 DEF HealthInv, Frame
<1>5. \A b, g : Earned(states.map, b, g) => Earned(states'.map, b, g)
  <2> SUFFICES ASSUME NEW b, NEW g, Earned(states.map, b, g) PROVE Earned(states'.map, b, g)
    OBVIOUS
  <2>1. states'.map = states.map \/ states'.map = Nothing BY <1>1
  <2> QED BY <2>1, NothingIsFine
<1>6. Honest(evidence', lastOk) BY <1>1, NothingIsFine DEF HealthInv, Evidence
<1>3. CASE /\ \E how \in Ended : End(s, how)
           /\ UNCHANGED <<latest, lastBad, gone>>
  <2>1. Frame' BY <1>1, <1>2, <1>3, EndFacts DEF HealthInv, Frame
  <2>2. Clocks' /\ Cooldowns' /\ Evidence'
    BY <1>1, <1>3, <1>5, <1>6, EndKeeps DEF HealthInv, Clocks, Cooldowns, Evidence
  <2> QED BY <2>1, <2>2 DEF HealthInv
<1>4. CASE /\ Fail(s, doing[s].route, Transient)
           /\ seen' = [seen EXCEPT ![s] = Nothing]
           /\ pen' = [pen EXCEPT ![s] = "none"]
           /\ UNCHANGED todo
  <2>1. doing[s].route \in Routes /\ Transient \in Error
    BY ErrorTypes DEF HealthInv, Frame, Outcome
  <2>2. Frame' BY <1>1, <1>2, <1>4, <2>1, FailFacts DEF HealthInv, Frame
  <2>3. Clocks' /\ Cooldowns'
    BY <1>1, <1>4, <1>5, <2>1, FailFacts DEF HealthInv, Cooldowns
  <2>4. \A o \in Sessions : seen'[o] = seen[o] \/ seen'[o] = Nothing
    BY <1>4 DEF HealthInv, Frame
  <2>5. Evidence' BY <1>1, <1>6, <2>4, NothingIsFine DEF HealthInv, Evidence
  <2> QED BY <2>2, <2>3, <2>5 DEF HealthInv
<1> QED BY <1>3, <1>4 DEF FileError, Die, Ended

\* Clearing empties the map; time only passes.
LEMMA SurroundingStep ==
    ASSUME ClearRouteState \/ Tick, HealthInv
    PROVE  HealthInv'
<1>1. CASE ClearRouteState
  <2>1. pen' \in [Sessions -> {"none", "alone", "mixed", "gone"}]
    BY <1>1 DEF ClearRouteState, HealthInv, Frame
  <2>2. latest' \in [Routes -> [kind: {"none", "ok", "bad"}, until: Nat, err: Error]]
    BY <1>1 DEF ClearRouteState, HealthInv, Frame
  <2>3. overlap' \in BOOLEAN BY <1>1, Zenon DEF ClearRouteState
  <2>4. Frame' BY <1>1, <2>1, <2>2, <2>3 DEF ClearRouteState, HealthInv, Frame
  <2>5. Clocks' /\ Cooldowns' /\ Evidence'
    BY <1>1, NothingIsFine DEF ClearRouteState, HealthInv, Clocks, Cooldowns, Evidence
  <2> QED BY <2>4, <2>5 DEF HealthInv
<1>2. CASE Tick
  <2>1. now \in Nat /\ now' = now + 1 /\ UNCHANGED <<files, session, history>>
    BY <1>2 DEF Tick, HealthInv, Frame
  <2>2. Frame' BY <2>1 DEF HealthInv, Frame, files, session, history
  <2>3. Clocks'
    BY <2>1 DEF HealthInv, Clocks, Instants, Never, history
  <2>4. Cooldowns' /\ Evidence'
    BY <2>1 DEF HealthInv, Cooldowns, Evidence, files, session, history
  <2> QED BY <2>2, <2>3, <2>4 DEF HealthInv
<1> QED BY <1>1, <1>2

-----------------------------------------------------------------------------
(* Theorems *)

\* The invariant survives every step, the stutter included.
LEMMA HealthNext == HealthInv /\ [Next]_vars => HealthInv'
<1> SUFFICES ASSUME HealthInv, [Next]_vars PROVE HealthInv' OBVIOUS
<1>1. CASE Next
  BY <1>1, LoadStep, ChoiceStep, TryStep, ReadHealthStep, OpenStep, FillStateStep,
     FillHealthStep, FaultStep, SurroundingStep DEF Next
<1>2. CASE UNCHANGED vars
  BY <1>2 DEF vars, files, session, history, HealthInv, Frame, Clocks, Cooldowns, Evidence
<1> QED BY <1>1, <1>2

\* What the invariant says holds of every reachable state.
THEOREM HealthInvariance == HealthSpec => []HealthInv
<1>1. Init => HealthInv BY HealthInit
<1>2. HealthInv /\ [Next]_vars => HealthInv' BY HealthNext
<1> QED BY <1>1, <1>2, PTL DEF HealthSpec

\* The files, copies and records of the sessions keep their types, for any
\* number of sessions and routes.
THEOREM HealthTypes == HealthSpec => []HealthTypeOK
<1>1. HealthInv => HealthTypeOK
  BY DEF HealthInv, Frame, Clocks, Cooldowns, Evidence, Earned, Honest, HealthTypeOK,
         Labels, Instants
<1> QED BY <1>1, HealthInvariance, PTL

\* No cooldown is invented by a lost update, a torn file or a stale copy: each
\* ends within the cap after a real failure, within the quarantine if the route
\* ever answered 404 or 410, or belongs to a model reported missing.
THEOREM CooldownsBounded == HealthSpec => []CooldownsAreBounded
<1>1. HealthInv => CooldownsAreBounded
  BY DEF HealthInv, Cooldowns, Earned, Explains, CooldownsAreBounded
<1> QED BY <1>1, HealthInvariance, PTL

\* A task tries a route outside the configuration only after a recent real answer, or
\* in a golden evaluation of a trial-quota route that may do without one.
THEOREM UndeclaredSucceeded == HealthSpec => UndeclaredNeedsSuccess
<1>1. ASSUME HealthInv, [Next]_vars
      PROVE  [\A s \in Sessions : pc[s] = "select" /\ pc'[s] = "try" =>
                \A r \in todo'[s] \ Declared :
                    \/ lastOk[r] # Never /\ now - lastOk[r] <= TTL
                    \/ Kind[s] = "trial" /\ r \in Trials]_vars
  <2> SUFFICES ASSUME Next, NEW s \in Sessions, pc[s] = "select", pc'[s] = "try",
                      NEW r \in todo'[s] \ Declared, ~(Kind[s] = "trial" /\ r \in Trials)
               PROVE  lastOk[r] # Never /\ now - lastOk[r] <= TTL
    BY <1>1
  <2>1. pc \in [Sessions -> Labels] BY <1>1 DEF HealthInv, Frame
  <2>2. pc[s] # pc'[s] OBVIOUS
  <2>3. Select(s)
    <3>1. ~ClearRouteState /\ ~Tick
      BY <2>2 DEF ClearRouteState, Tick, session
    <3>2. ASSUME NEW o \in Sessions, o # s, NEW l, pc' = [pc EXCEPT ![o] = l] PROVE FALSE
      BY <2>1, <2>2, <3>2
    <3>3. ASSUME NEW o \in Sessions, Load(o) \/ Select(o) \/ Try(o) \/ Exhausted(o) PROVE o = s
      BY <2>2, <3>2, <3>3 DEF Load, Select, Try, Exhausted, Plan, End, Fail
    <3>4. ASSUME NEW o \in Sessions,
                 ReadHealth(o) \/ OpenState(o) \/ OpenHealth(o) \/ FillState(o)
                 \/ FillHealth(o) \/ Finish(o) \/ FileError(o) \/ Die(o)
          PROVE  o = s
      BY <2>2, <3>2, <3>4 DEF ReadHealth, OpenState, OpenHealth, FillState, FillHealth, Finish,
         FileError, Die, End, Fail
    <3>5. PICK o \in Sessions :
             \/ Load(o) \/ Select(o) \/ Try(o) \/ Exhausted(o) \/ ReadHealth(o)
             \/ OpenState(o) \/ OpenHealth(o) \/ FillState(o) \/ FillHealth(o)
             \/ Finish(o) \/ FileError(o) \/ Die(o)
      BY <3>1 DEF Next
    <3>6. o = s BY <3>3, <3>4, <3>5
    <3>7. ~Die(s)
      BY <2>1 DEF Die, End
    <3> QED
      BY <3>5, <3>6, <3>7 DEF Load, Try, Exhausted, ReadHealth, OpenState, OpenHealth,
         FillState, FillHealth, Finish, FileError, OnState, OnHealth
  <2>4. r \in Routes /\ Eligible(copy[s], evidence, r)
    <3>1. PICK named \in SUBSET Routes :
            LET choices == {x \in named : \/ Eligible(copy[s], evidence, x)
                                          \/ OnTrial(s, copy[s], x)}
            IN  \/ todo' = [todo EXCEPT ![s] = choices]
                \/ pc' = [pc EXCEPT ![s] = "raised"]
      BY <2>3 DEF Select, End
    <3>2. todo'[s] \subseteq {x \in Routes : \/ Eligible(copy[s], evidence, x)
                                           \/ OnTrial(s, copy[s], x)}
      BY <1>1, <2>1, <3>1 DEF HealthInv, Frame
    <3> QED BY <3>2 DEF OnTrial
  <2>5. r \in DOMAIN evidence /\ evidence[r].ok # Never /\ now - evidence[r].ok <= TTL
    BY <2>4 DEF Eligible, Healthy
  <2>6. evidence[r].ok \in Nat \cup {Never} /\ evidence[r].ok <= lastOk[r]
    BY <1>1, <2>5 DEF HealthInv, Evidence, Honest, IsMap, Health
  <2>7. lastOk[r] \in Instants /\ now \in Nat /\ TTL \in Nat
    BY <1>1, <2>4, HealthConstants DEF HealthInv, Clocks, Frame
  <2> QED BY <2>5, <2>6, <2>7 DEF Instants, Never
<1> QED BY <1>1, HealthInvariance, PTL DEF HealthSpec, UndeclaredNeedsSuccess

-----------------------------------------------------------------------------
(* A session that nobody disturbs *)

\* What a map should say at instant t of a route whose latest outcome is l: it has
\* an entry as long as the cooldown runs, and only for a failure.
AgreesWith(f, r, l, t) ==
    /\ r \in DOMAIN f =>
          /\ l.kind = "bad" /\ l.until <= f[r].until
          /\ f[r].dead <=> l.err.dead
          /\ f[r].dead \/ f[r].until = l.until
    /\ r \notin DOMAIN f /\ l.kind = "bad" => l.until <= t

\* What evidence h says of the latest answer and the latest failure of a route.
OkOf(h, r) == IF r \in DOMAIN h THEN h[r].ok ELSE Never
BadOf(h, r) == IF r \in DOMAIN h THEN h[r].bad ELSE Never
Shows(h, r) == OkOf(h, r) = lastOk[r] /\ BadOf(h, r) = lastBad[r]

\* The latest outcome is the later one, and a route without one never answered.
Recency ==
    \A r \in Routes :
        /\ latest[r].kind = "bad" => lastOk[r] <= lastBad[r]
        /\ latest[r].kind = "none" => lastOk[r] = Never

\* The success of session s on route r has happened and is not yet in its copy.
Pending(s, r) == OnHealth(s) /\ doing[s].kind = "ok" /\ r = doing[s].route

\* The failure of route r that session s records is not yet in the evidence.
Owing(s, r) ==
    /\ OnState(s) \/ pc[s] = "read health"
    /\ doing[s].kind = "bad" /\ r = doing[s].route

\* The copy of a session that is alone, and the state file unless it is being
\* rewritten, lack only the success that is under way.
MapsAgree(s) ==
    /\ \A r \in Routes :
          IF Pending(s, r) THEN latest[r].kind = "ok" ELSE AgreesWith(copy[s], r, latest[r], now)
    /\ ~OnState(s) =>
          /\ DOMAIN states.map \subseteq DOMAIN copy[s]
          /\ \A r \in Routes : Pending(s, r) \/ AgreesWith(states.map, r, latest[r], now)

\* The evidence, or the content it is about to get, lacks only the failure that is
\* under way.
EvidenceAgrees(s) ==
    /\ ~OnHealth(s) =>
          \A r \in Routes :
              IF Owing(s, r) THEN OkOf(evidence, r) = lastOk[r] /\ doing[s].at = lastBad[r]
                             ELSE Shows(evidence, r)
    /\ OnHealth(s) => \A r \in Routes : Shows(seen[s], r)

Undisturbed(s) ==
    /\ MapsAgree(s) /\ EvidenceAgrees(s)
    /\ pc[s] \in {"fill state", "fill health"} => pen[s] = "alone"

Settled ==
    \A r \in Routes : AgreesWith(states.map, r, latest[r], now) /\ Shows(evidence, r)

Lone ==
    ~overlap /\ faults = 0 =>
        /\ \A s, o \in Active : s = o
        /\ Active = {} => Settled
        /\ \A s \in Active : Undisturbed(s)

LoneInv == Recency /\ Lone

\* What an outcome is, for the lemmas below.
Outcomes == [kind: {"none", "ok", "bad"}, until: Nat, err: Error]

\* Agreement outlasts time.
LEMMA AgreesLater ==
    ASSUME NEW f, NEW r, NEW l \in Outcomes, NEW t \in Nat, NEW u \in Nat, t <= u,
           AgreesWith(f, r, l, t)
    PROVE  AgreesWith(f, r, l, u)
BY DEF AgreesWith, Outcomes

\* Loading renews only what stays in agreement.
LEMMA AgreesLoaded ==
    ASSUME NEW f, NEW r, NEW l \in Outcomes, NEW t, now \in Nat, IsMap(f, State),
           AgreesWith(f, r, l, t)
    PROVE  AgreesWith(Loaded(f), r, l, t)
<1>1. DOMAIN Loaded(f) = DOMAIN f BY DEF Loaded
<1>2. CASE r \notin DOMAIN f BY <1>1, <1>2 DEF AgreesWith
<1>3. CASE r \in DOMAIN f
  <2>1. f[r] \in State BY <1>3 DEF IsMap
  <2>2. CASE f[r].dead /\ f[r].until < now + Quarantine - 1
    <3>1. Loaded(f)[r] = [f[r] EXCEPT !.until = now + Quarantine - 1]
      BY <1>3, <2>2 DEF Loaded
    <3>2. /\ Loaded(f)[r].until = now + Quarantine - 1
          /\ Loaded(f)[r].dead = f[r].dead
      BY <2>1, <3>1 DEF State
    <3>3. l.until <= Loaded(f)[r].until
      BY <1>3, <2>1, <2>2, <3>2, HealthConstants DEF AgreesWith, State, Outcomes
    <3> QED BY <1>1, <1>3, <2>2, <3>2, <3>3 DEF AgreesWith
  <2>3. CASE ~(f[r].dead /\ f[r].until < now + Quarantine - 1)
    <3>1. Loaded(f)[r] = f[r] BY <1>3, <2>3 DEF Loaded
    <3> QED BY <1>1, <1>3, <3>1 DEF AgreesWith
  <2> QED BY <2>2, <2>3
<1> QED BY <1>2, <1>3

\* Saving leaves out only what is over.
LEMMA AgreesKept ==
    ASSUME NEW f, NEW r, NEW l \in Outcomes, now \in Nat, IsMap(f, State),
           AgreesWith(f, r, l, now)
    PROVE  AgreesWith(Kept(f), r, l, now)
<1>1. CASE r \in DOMAIN f /\ f[r].until > now
  <2>1. r \in DOMAIN Kept(f) /\ Kept(f)[r] = f[r] BY <1>1 DEF Kept
  <2> QED BY <1>1, <2>1 DEF AgreesWith
<1>2. CASE r \in DOMAIN f /\ ~(f[r].until > now)
  <2>1. r \notin DOMAIN Kept(f) BY <1>2 DEF Kept
  <2>2. f[r] \in State BY <1>2 DEF IsMap
  <2>3. l.until <= now BY <1>2, <2>2 DEF AgreesWith, State, Outcomes
  <2> QED BY <2>1, <2>3 DEF AgreesWith
<1>3. CASE r \notin DOMAIN f
  <2>1. r \notin DOMAIN Kept(f) BY <1>3 DEF Kept
  <2> QED BY <1>3, <2>1 DEF AgreesWith
<1> QED BY <1>1, <1>2, <1>3

\* A failure that enters a map is what the map says of its route from then on.
LEMMA AgreesAfter ==
    ASSUME NEW f, NEW r, NEW err \in Error, NEW t, After(f, r, err)[r].until \in Nat
    PROVE  /\ AgreesWith(After(f, r, err), r,
                         [kind |-> "bad", until |-> After(f, r, err)[r].until, err |-> err], t)
           /\ \A x, l : x # r /\ AgreesWith(f, x, l, t) => AgreesWith(After(f, r, err), x, l, t)
<1>1. r \in DOMAIN After(f, r, err) /\ After(f, r, err)[r].dead = err.dead
  BY DEF After, With
<1>2. AgreesWith(After(f, r, err), r,
                 [kind |-> "bad", until |-> After(f, r, err)[r].until, err |-> err], t)
  BY <1>1 DEF AgreesWith
<1>3. ASSUME NEW x, NEW l, x # r, AgreesWith(f, x, l, t)
      PROVE  AgreesWith(After(f, r, err), x, l, t)
  <2>1. x \in DOMAIN After(f, r, err) <=> x \in DOMAIN f BY <1>3 DEF After, With
  <2>2. x \in DOMAIN f => After(f, r, err)[x] = f[x] BY <1>3 DEF After, With
  <2> QED BY <1>3, <2>1, <2>2 DEF AgreesWith
<1> QED BY <1>2, <1>3

\* A route that answered agrees with a map that has left it out.
LEMMA AgreesWithout ==
    ASSUME NEW f, NEW r, NEW t
    PROVE  /\ \A l : l.kind # "bad" => AgreesWith(Without(f, r), r, l, t)
           /\ \A x, l : x # r /\ AgreesWith(f, x, l, t) => AgreesWith(Without(f, r), x, l, t)
<1>1. r \notin DOMAIN Without(f, r) BY DEF Without
<1>2. ASSUME NEW x, NEW l, x # r, AgreesWith(f, x, l, t)
      PROVE  AgreesWith(Without(f, r), x, l, t)
  <2>1. x \in DOMAIN Without(f, r) <=> x \in DOMAIN f BY <1>2 DEF Without
  <2>2. x \in DOMAIN f => Without(f, r)[x] = f[x] BY <1>2 DEF Without
  <2> QED BY <1>2, <2>1, <2>2 DEF AgreesWith
<1> QED BY <1>1, <1>2 DEF AgreesWith

\* When a session that is alone has stepped, it is all there is to look at.
LEMMA LoneStep ==
    ASSUME NEW s \in Sessions, NEW l \in Labels, l # "start",
           pc \in [Sessions -> Labels], pc' = [pc EXCEPT ![s] = l], Active \subseteq {s},
           ~overlap' /\ faults' = 0 /\ l \in Ended => Settled',
           ~overlap' /\ faults' = 0 /\ l \notin Ended => Undisturbed(s)'
    PROVE  Lone'
<1>1. pc'[s] = l /\ \A o \in Sessions : o # s => pc'[o] = pc[o] OBVIOUS
<1>2. Active' = IF l \in Ended THEN {} ELSE {s} BY <1>1 DEF Active, Ended
<1> QED BY <1>2 DEF Lone

\* A session at work that nobody disturbs is the only one.
LEMMA OnlyOne ==
    ASSUME NEW s \in Active, Lone, ~overlap, faults = 0
    PROVE  Active \subseteq {s} /\ Undisturbed(s)
BY DEF Lone

\* What a session that ends at a point where files and maps are whole leaves behind.
LEMMA LoneEnds ==
    ASSUME NEW s \in Sessions, NEW how \in Ended, End(s, how), HealthInv,
           UNCHANGED <<now, files, latest, lastOk, lastBad>>,
           Active \subseteq {s},
           ~overlap' /\ faults' = 0 => Settled
    PROVE  Lone'
<1>1. pc' = [pc EXCEPT ![s] = how] /\ pc \in [Sessions -> Labels] /\ how \in Labels /\ how # "start"
  BY DEF End, HealthInv, Frame, Labels, Ended
<1>2. Settled => Settled' BY DEF Settled, Shows, files
<1> QED BY <1>1, <1>2, LoneStep

\* At these labels nothing is under way.
Whole == {"load", "select", "try", "after"}

\* Between two records everything is in agreement.
LEMMA WholeIsSettled ==
    ASSUME NEW s \in Sessions, pc[s] \in Whole, Undisturbed(s)
    PROVE  /\ Settled /\ DOMAIN states.map \subseteq DOMAIN copy[s]
           /\ \A x \in Routes : AgreesWith(copy[s], x, latest[x], now)
<1>1. ~OnState(s) /\ ~OnHealth(s) /\ pc[s] # "read health" BY DEF Whole, OnState, OnHealth
<1>2. \A r \in Routes : ~Pending(s, r) /\ ~Owing(s, r) BY <1>1 DEF Pending, Owing
<1> QED BY <1>1, <1>2 DEF Undisturbed, MapsAgree, EvidenceAgrees, Settled

\* And the other way round, of the state a step leads to.
LEMMA SettledIsWhole ==
    ASSUME NEW s \in Sessions, pc'[s] \in Whole, Settled',
           DOMAIN states'.map \subseteq DOMAIN copy'[s],
           \A x \in Routes : AgreesWith(copy'[s], x, latest'[x], now')
    PROVE  Undisturbed(s)'
<1>1. ~OnState(s)' /\ ~OnHealth(s)' /\ pc'[s] \notin {"read health", "fill state", "fill health"}
  BY DEF Whole, OnState, OnHealth
<1>2. \A r \in Routes : ~Pending(s, r)' /\ ~Owing(s, r)' BY <1>1 DEF Pending, Owing
<1> QED BY <1>1, <1>2 DEF Undisturbed, MapsAgree, EvidenceAgrees, Settled

\* A load finds the files settled, whether the session starts or loads again.
LEMMA LoneLoad ==
    ASSUME NEW s \in Sessions, Load(s), HealthInv, LoneInv
    PROVE  Lone'
<1>1. UNCHANGED <<now, files, latest, lastOk, lastBad, gone, faults>>
      /\ overlap' = (overlap \/ Active \ {s} # {}) /\ pc[s] \in {"start", "load"}
  BY DEF Load
<1> SUFFICES ASSUME ~overlap', faults' = 0 PROVE Lone' BY DEF Lone
<1>2. ~overlap /\ faults = 0 /\ Active \subseteq {s} BY <1>1
<1>3. Settled
  <2>1. CASE pc[s] = "start"
    <3>1. Active = {} BY <1>2, <2>1 DEF Active
    <3> QED BY <1>2, <3>1 DEF LoneInv, Lone
  <2>2. CASE pc[s] = "load"
    <3>1. s \in Active BY <2>2 DEF Active, Ended
    <3>2. Undisturbed(s) BY <1>2, <3>1 DEF LoneInv, Lone
    <3> QED BY <2>2, <3>2, WholeIsSettled DEF Whole
  <2> QED BY <1>1, <2>1, <2>2
<1>4. CASE End(s, "raised")
  BY <1>1, <1>2, <1>3, <1>4, LoneEnds DEF Ended
<1>5. CASE copy' = [copy EXCEPT ![s] = Loaded(states.map)] /\ Plan(s, copy'[s])
  <2>1. PICK l \in {"select", "load", "try"} : pc' = [pc EXCEPT ![s] = l]
    BY <1>5 DEF Plan
  <2>2. l \in Labels /\ l # "start" /\ l \notin Ended /\ pc \in [Sessions -> Labels]
        /\ pc'[s] = l /\ l \in Whole
    BY <2>1 DEF HealthInv, Frame, Labels, Ended, Whole
  <2>3. copy'[s] = Loaded(states.map) /\ DOMAIN copy'[s] = DOMAIN states.map
    BY <1>5 DEF HealthInv, Frame, Loaded
  <2>4. \A r \in Routes : AgreesWith(copy'[s], r, latest[r], now)
    <3> SUFFICES ASSUME NEW r \in Routes PROVE AgreesWith(copy'[s], r, latest[r], now) OBVIOUS
    <3>1. latest[r] \in Outcomes /\ now \in Nat /\ IsMap(states.map, State)
      BY DEF HealthInv, Frame, Outcomes, Cooldowns, Earned
    <3>2. AgreesWith(states.map, r, latest[r], now) BY <1>3 DEF Settled
    <3> QED BY <2>3, <3>1, <3>2, AgreesLoaded
  <2>5. Settled' BY <1>1, <1>3 DEF Settled, Shows, files
  <2>6. DOMAIN states'.map \subseteq DOMAIN copy'[s]
        /\ \A x \in Routes : AgreesWith(copy'[s], x, latest'[x], now')
    BY <1>1, <2>3, <2>4 DEF files
  <2>8. Undisturbed(s)' BY <2>2, <2>5, <2>6, SettledIsWhole
  <2> QED BY <1>2, <2>1, <2>2, <2>8, LoneStep
<1> QED BY <1>4, <1>5 DEF Load

\* Selecting and giving up happen where everything is in agreement.
LEMMA LoneChoice ==
    ASSUME NEW s \in Sessions, Select(s) \/ Exhausted(s) \/ Finish(s), HealthInv, LoneInv
    PROVE  Lone'
<1>1. UNCHANGED <<now, files, history>> /\ pc[s] \in Whole /\ pc[s] # "load"
  BY DEF Select, Exhausted, Finish, Whole
<1> SUFFICES ASSUME ~overlap', faults' = 0 PROVE Lone' BY DEF Lone
<1>2. ~overlap /\ faults = 0 BY <1>1 DEF history
<1>3. s \in Active BY <1>1 DEF Active, Whole, Ended
<1>4. Active \subseteq {s} /\ Undisturbed(s) BY <1>2, <1>3, OnlyOne DEF LoneInv
<1>5. /\ Settled /\ DOMAIN states.map \subseteq DOMAIN copy[s]
      /\ \A x \in Routes : AgreesWith(copy[s], x, latest[x], now)
  BY <1>1, <1>4, WholeIsSettled
<1>6. CASE \E how \in Ended : End(s, how)
  BY <1>1, <1>4, <1>5, <1>6, LoneEnds DEF history
<1>7. CASE UNCHANGED copy /\ \E l \in {"try", "load"} : pc' = [pc EXCEPT ![s] = l]
  <2>1. PICK l \in {"try", "load"} : pc' = [pc EXCEPT ![s] = l] BY <1>7
  <2>2. l \in Labels /\ l # "start" /\ l \notin Ended /\ pc \in [Sessions -> Labels]
        /\ pc'[s] = l /\ l \in Whole
    BY <2>1 DEF HealthInv, Frame, Labels, Ended, Whole
  <2>3. Settled' BY <1>1, <1>5 DEF Settled, Shows, files, history
  <2>4. DOMAIN states'.map \subseteq DOMAIN copy'[s]
        /\ \A x \in Routes : AgreesWith(copy'[s], x, latest'[x], now')
    BY <1>1, <1>5, <1>7 DEF files, history
  <2>6. Undisturbed(s)' BY <2>2, <2>3, <2>4, SettledIsWhole
  <2> QED BY <1>4, <2>1, <2>2, <2>6, LoneStep
<1> QED BY <1>6, <1>7 DEF Select, Exhausted, Finish, Ended

\* Trying a route changes one map and one history, and in the same way.
LEMMA LoneTry ==
    ASSUME NEW s \in Sessions, Try(s), HealthInv, LoneInv
    PROVE  Lone'
<1>1. UNCHANGED <<now, files, stage, seen, pen, lastOk, overlap, faults>> /\ pc[s] = "try"
  BY DEF Try
<1> SUFFICES ASSUME ~overlap', faults' = 0 PROVE Lone' BY DEF Lone
<1>2. s \in Active /\ pc[s] \in Whole BY <1>1 DEF Active, Ended, Whole
<1>3. Active \subseteq {s} /\ Undisturbed(s) BY <1>1, <1>2, OnlyOne DEF LoneInv
<1>4. /\ Settled /\ DOMAIN states.map \subseteq DOMAIN copy[s]
      /\ \A r \in Routes : AgreesWith(copy[s], r, latest[r], now)
  BY <1>2, <1>3, WholeIsSettled
<1>5. PICK r \in todo[s] :
         \/ /\ doing' = [doing EXCEPT ![s] = [kind |-> "ok", route |-> r, at |-> now]]
            /\ pc' = [pc EXCEPT ![s] = "read health"]
            /\ UNCHANGED <<copy, latest, lastBad, gone>>
         \/ \E err \in Errors : Fail(s, r, err)
         \/ UNCHANGED <<pc, copy, doing, latest, lastBad, gone>>
  BY DEF Try
<1>6. r \in Routes /\ pc \in [Sessions -> Labels] /\ doing \in [Sessions -> Outcome]
  BY DEF HealthInv, Frame
<1>7. CASE /\ doing' = [doing EXCEPT ![s] = [kind |-> "ok", route |-> r, at |-> now]]
           /\ pc' = [pc EXCEPT ![s] = "read health"]
           /\ UNCHANGED <<copy, latest, lastBad, gone>>
  <2>1. pc'[s] = "read health" /\ doing'[s].kind = "ok" BY <1>6, <1>7
  <2>2. ~OnState(s)' /\ ~OnHealth(s)' /\ \A x \in Routes : ~Pending(s, x)' /\ ~Owing(s, x)'
    BY <2>1 DEF OnState, OnHealth, Pending, Owing
  <2>3. MapsAgree(s)' BY <1>1, <1>4, <1>7, <2>2 DEF MapsAgree, Settled, files
  <2>4. EvidenceAgrees(s)'
    BY <1>1, <1>4, <1>7, <2>2 DEF EvidenceAgrees, Settled, Shows, files
  <2>5. Undisturbed(s)' BY <2>1, <2>3, <2>4 DEF Undisturbed
  <2> QED BY <1>3, <1>6, <1>7, <2>5, LoneStep DEF Labels, Ended
<1>8. CASE \E err \in Errors : Fail(s, r, err)
  <2>1. PICK err \in Errors : Fail(s, r, err) BY <1>8
  <2> DEFINE f == After(copy[s], r, err)
             l == [kind |-> "bad", until |-> f[r].until, err |-> err]
  <2>2. /\ doing' = [doing EXCEPT ![s] = [kind |-> "bad", route |-> r, at |-> now]]
        /\ pc' = [pc EXCEPT ![s] = "open state"]
        /\ copy' = [copy EXCEPT ![s] = f]
        /\ latest' = [latest EXCEPT ![r] = l]
        /\ lastBad' = [lastBad EXCEPT ![r] = now]
    BY <2>1 DEF Fail
  <2>3. /\ pc'[s] = "open state" /\ doing'[s].kind = "bad"
        /\ doing'[s].route = r /\ doing'[s].at = now
    BY <1>6, <2>2
  <2>4. OnState(s)' /\ ~OnHealth(s)' /\ \A x \in Routes : ~Pending(s, x)' /\ (Owing(s, x)' <=> x = r)
    BY <2>3 DEF OnState, OnHealth, Pending, Owing
  <2>5. err \in Error /\ f[r].until \in Nat
    <3>1. /\ now \in Nat /\ lastBad \in [Routes -> Instants]
          /\ (\A x \in Routes : lastBad[x] <= now) /\ Earned(copy[s], lastBad, gone)
      BY DEF HealthInv, Frame, Clocks, Cooldowns
    <3> QED BY <1>6, <3>1, ErrorTypes, EarnedAfter
  <2>6. copy'[s] = f BY <2>2 DEF HealthInv, Frame
  <2>7. latest'[r] = l /\ \A x \in Routes : x # r => latest'[x] = latest[x]
    BY <1>6, <2>2 DEF HealthInv, Frame
  <2>8. lastBad'[r] = now /\ \A x \in Routes : x # r => lastBad'[x] = lastBad[x]
    BY <1>6, <2>2 DEF HealthInv, Clocks
  <2>9. \A x \in Routes : AgreesWith(copy'[s], x, latest'[x], now)
    <3> HIDE DEF f
    <3> SUFFICES ASSUME NEW x \in Routes PROVE AgreesWith(f, x, latest'[x], now) BY <2>6
    <3>1. CASE x = r
      <4>1. AgreesWith(f, r, l, now) BY <2>5, AgreesAfter DEF f
      <4> QED BY <3>1, <4>1, <2>7
    <3>2. CASE x # r
      <4>1. AgreesWith(copy[s], x, latest[x], now) BY <1>4
      <4>2. AgreesWith(f, x, latest[x], now) BY <2>5, <3>2, <4>1, AgreesAfter DEF f
      <4> QED BY <3>2, <4>2, <2>7
    <3> QED BY <3>1, <3>2
  <2>10. MapsAgree(s)' BY <1>1, <2>4, <2>9 DEF MapsAgree
  <2>11. EvidenceAgrees(s)'
    <3>1. \A x \in Routes : OkOf(evidence', x) = lastOk'[x]
      BY <1>1, <1>4 DEF Settled, Shows, files
    <3>2. \A x \in Routes : x # r => BadOf(evidence', x) = lastBad'[x]
      BY <1>1, <1>4, <2>8 DEF Settled, Shows, files
    <3>3. doing'[s].at = lastBad'[r] BY <2>3, <2>8
    <3> QED BY <2>4, <3>1, <3>2, <3>3 DEF EvidenceAgrees, Shows
  <2>12. Undisturbed(s)' BY <2>3, <2>10, <2>11 DEF Undisturbed
  <2> QED BY <1>3, <1>6, <2>2, <2>12, LoneStep DEF Labels, Ended
<1>9. CASE UNCHANGED <<pc, copy, doing, latest, lastBad, gone>>
  <2>1. pc' = [pc EXCEPT ![s] = "try"] BY <1>1, <1>6, <1>9
  <2>2. Settled' BY <1>1, <1>4, <1>9 DEF Settled, Shows, files
  <2>3. /\ DOMAIN states'.map \subseteq DOMAIN copy'[s] /\ pc'[s] \in Whole
        /\ \A x \in Routes : AgreesWith(copy'[s], x, latest'[x], now')
    BY <1>1, <1>2, <1>4, <1>9 DEF files
  <2>4. Undisturbed(s)' BY <2>2, <2>3, SettledIsWhole
  <2> QED BY <1>3, <1>6, <2>1, <2>4, LoneStep DEF Labels, Ended
<1> QED BY <1>5, <1>7, <1>8, <1>9

\* Reading the evidence makes good what it owes, and a success becomes the latest
\* outcome of its route.
LEMMA LoneReadHealth ==
    ASSUME NEW s \in Sessions, ReadHealth(s), HealthInv, LoneInv
    PROVE  Lone'
<1> DEFINE r == doing[s].route
           old == IF r \in DOMAIN evidence THEN evidence[r] ELSE [ok |-> Never, bad |-> Never]
<1>1. /\ UNCHANGED <<now, files, stage, copy, todo, doing, pen, lastBad, gone, overlap, faults>>
      /\ pc[s] = "read health" /\ pc' = [pc EXCEPT ![s] = "open health"]
  BY DEF ReadHealth
<1> SUFFICES ASSUME ~overlap', faults' = 0 PROVE Lone' BY DEF Lone
<1>2. s \in Active /\ ~OnState(s) /\ ~OnHealth(s) BY <1>1 DEF Active, Ended, OnState, OnHealth
<1>3. Active \subseteq {s} /\ Undisturbed(s) BY <1>1, <1>2, OnlyOne DEF LoneInv
<1>4. /\ DOMAIN states.map \subseteq DOMAIN copy[s]
      /\ \A x \in Routes : /\ AgreesWith(copy[s], x, latest[x], now)
                           /\ AgreesWith(states.map, x, latest[x], now)
  BY <1>2, <1>3 DEF Undisturbed, MapsAgree, Pending
<1>5. \A x \in Routes :
         IF doing[s].kind = "bad" /\ x = r
         THEN OkOf(evidence, x) = lastOk[x] /\ doing[s].at = lastBad[x] ELSE Shows(evidence, x)
  BY <1>1, <1>2, <1>3 DEF Undisturbed, EvidenceAgrees, Owing
<1>6. r \in Routes /\ pc \in [Sessions -> Labels] /\ pc'[s] = "open health"
  BY <1>1 DEF HealthInv, Frame, Outcome
<1>7. old \in Health /\ old.ok = OkOf(evidence, r) /\ old.bad = BadOf(evidence, r)
  BY DEF HealthInv, Evidence, Honest, IsMap, Health, OkOf, BadOf
<1>8. OnHealth(s)' /\ ~OnState(s)' /\ \A x \in Routes : Pending(s, x)' <=> doing[s].kind = "ok" /\ x = r
  BY <1>1, <1>6 DEF OnHealth, OnState, Pending
<1>9. ASSUME NEW e \in Health, seen' = [seen EXCEPT ![s] = With(evidence, r, e)]
      PROVE  /\ OkOf(seen'[s], r) = e.ok /\ BadOf(seen'[s], r) = e.bad
             /\ \A x : x # r => OkOf(seen'[s], x) = OkOf(evidence, x) /\ BadOf(seen'[s], x) = BadOf(evidence, x)
  <2> HIDE DEF r
  <2>1. seen'[s] = With(evidence, r, e) BY <1>9 DEF HealthInv, Frame
  <2> QED BY <2>1 DEF With, OkOf, BadOf
<1>10. CASE /\ doing[s].kind = "ok"
            /\ seen' = [seen EXCEPT ![s] = With(evidence, r, [old EXCEPT !.ok = now])]
            /\ lastOk' = [lastOk EXCEPT ![r] = now]
            /\ latest' = [latest EXCEPT ![r] = [kind |-> "ok", until |-> 0, err |-> Transient]]
  <2> DEFINE e == [old EXCEPT !.ok = now]
  <2>1. e \in Health /\ e.ok = now /\ e.bad = old.bad
    BY <1>7 DEF HealthInv, Frame, Health
  <2>2. \A x \in Routes : x # r => lastOk'[x] = lastOk[x] /\ latest'[x] = latest[x]
    BY <1>10 DEF HealthInv, Frame, Clocks
  <2>3. lastOk'[r] = now BY <1>6, <1>10 DEF HealthInv, Clocks
  <2>4. \A x \in Routes : Shows(evidence, x) BY <1>5, <1>10
  <2> HIDE DEF e, old, r
  <2>5. /\ OkOf(seen'[s], r) = e.ok /\ BadOf(seen'[s], r) = e.bad
        /\ \A x : x # r => OkOf(seen'[s], x) = OkOf(evidence, x) /\ BadOf(seen'[s], x) = BadOf(evidence, x)
    BY <1>9, <1>10, <2>1 DEF e
  <2>6. EvidenceAgrees(s)'
    BY <1>1, <1>6, <1>7, <1>8, <2>1, <2>2, <2>3, <2>4, <2>5 DEF EvidenceAgrees, Shows
  <2>7. MapsAgree(s)'
    <3>1. latest'[r].kind = "ok" BY <1>6, <1>10 DEF HealthInv, Frame
    <3> QED BY <1>1, <1>4, <1>8, <1>10, <2>2, <3>1 DEF MapsAgree, files
  <2>8. Undisturbed(s)' BY <1>6, <2>6, <2>7 DEF Undisturbed
  <2> QED BY <1>1, <1>3, <1>6, <2>8, LoneStep DEF Labels, Ended
<1>11. CASE /\ doing[s].kind = "bad"
            /\ seen' = [seen EXCEPT ![s] = With(evidence, r, [old EXCEPT !.bad = doing[s].at])]
            /\ UNCHANGED <<lastOk, latest>>
  <2> DEFINE e == [old EXCEPT !.bad = doing[s].at]
  <2>1. e \in Health /\ e.ok = old.ok /\ e.bad = doing[s].at
    BY <1>7 DEF HealthInv, Frame, Health, Outcome
  <2> HIDE DEF e, old, r
  <2>5. /\ OkOf(seen'[s], r) = e.ok /\ BadOf(seen'[s], r) = e.bad
        /\ \A x : x # r => OkOf(seen'[s], x) = OkOf(evidence, x) /\ BadOf(seen'[s], x) = BadOf(evidence, x)
    BY <1>9, <1>11, <2>1 DEF e
  <2>6. EvidenceAgrees(s)'
    BY <1>1, <1>5, <1>6, <1>7, <1>8, <1>11, <2>1, <2>5 DEF EvidenceAgrees, Shows
  <2>7. MapsAgree(s)'
    BY <1>1, <1>4, <1>8, <1>11 DEF MapsAgree, files
  <2>8. Undisturbed(s)' BY <1>6, <2>6, <2>7 DEF Undisturbed
  <2> QED BY <1>1, <1>3, <1>6, <2>8, LoneStep DEF Labels, Ended
<1> QED BY <1>10, <1>11 DEF ReadHealth

\* Whoever opens a file alone has no rivals.
LEMMA LoneOpen ==
    ASSUME NEW s \in Sessions, OpenState(s) \/ OpenHealth(s), HealthInv, LoneInv
    PROVE  Lone'
<1>1. /\ UNCHANGED <<now, stage, copy, seen, todo, doing, history>> /\ Truncate(s)
      /\ pc[s] \in {"open state", "open health"}
  BY DEF OpenState, OpenHealth
<1> SUFFICES ASSUME ~overlap', faults' = 0 PROVE Lone' BY DEF Lone
<1>2. s \in Active BY <1>1 DEF Active, Ended
<1>3. Active \subseteq {s} /\ Undisturbed(s)
  BY <1>1, <1>2, OnlyOne DEF LoneInv, history
<1>4. Rivals(s) = {} BY <1>3 DEF Rivals, Active, Ended
<1>5. pen'[s] = "alone" BY <1>1, <1>4 DEF Truncate
<1>6. pc \in [Sessions -> Labels] BY DEF HealthInv, Frame
<1>7. CASE OpenState(s)
  <2>1. pc[s] = "open state" /\ pc' = [pc EXCEPT ![s] = "fill state"] /\ UNCHANGED evidence
    BY <1>7 DEF OpenState
  <2>2. pc'[s] = "fill state" BY <1>6, <2>1
  <2>3. OnState(s) /\ OnState(s)' /\ ~OnHealth(s) /\ ~OnHealth(s)'
    BY <2>1, <2>2 DEF OnState, OnHealth
  <2>4. MapsAgree(s)' BY <1>1, <1>3, <2>3 DEF Undisturbed, MapsAgree, Pending, history
  <2>5. EvidenceAgrees(s)'
    BY <1>1, <1>3, <2>1, <2>3 DEF Undisturbed, EvidenceAgrees, Owing, Shows, history
  <2>6. Undisturbed(s)' BY <1>5, <2>4, <2>5 DEF Undisturbed
  <2> QED BY <1>3, <1>6, <2>1, <2>6, LoneStep DEF Labels, Ended
<1>8. CASE OpenHealth(s)
  <2>1. pc[s] = "open health" /\ pc' = [pc EXCEPT ![s] = "fill health"] /\ UNCHANGED states
    BY <1>8 DEF OpenHealth
  <2>2. pc'[s] = "fill health" BY <1>6, <2>1
  <2>3. OnHealth(s) /\ OnHealth(s)' /\ ~OnState(s) /\ ~OnState(s)'
    BY <2>1, <2>2 DEF OnState, OnHealth
  <2>4. MapsAgree(s)' BY <1>1, <1>3, <2>1, <2>3 DEF Undisturbed, MapsAgree, Pending, history
  <2>5. EvidenceAgrees(s)'
    BY <1>1, <1>3, <2>3 DEF Undisturbed, EvidenceAgrees, Shows, history
  <2>6. Undisturbed(s)' BY <1>5, <2>4, <2>5 DEF Undisturbed
  <2> QED BY <1>3, <1>6, <2>1, <2>6, LoneStep DEF Labels, Ended
<1> QED BY <1>7, <1>8

\* What a writer that is alone fills in is its copy, without what is over.
LEMMA LoneFillState ==
    ASSUME NEW s \in Sessions, FillState(s), HealthInv, LoneInv
    PROVE  Lone'
<1>1. /\ UNCHANGED <<now, evidence, stage, copy, seen, todo, doing, history>>
      /\ pc[s] = "fill state"
      /\ pc' = [pc EXCEPT ![s] = IF doing[s].kind = "ok" THEN Recorded(s) ELSE "read health"]
  BY DEF FillState
<1> SUFFICES ASSUME ~overlap', faults' = 0 PROVE Lone' BY DEF Lone
<1>2. s \in Active /\ OnState(s) /\ ~OnHealth(s) BY <1>1 DEF Active, Ended, OnState, OnHealth
<1>3. Active \subseteq {s} /\ Undisturbed(s)
  BY <1>1, <1>2, OnlyOne DEF LoneInv, history
<1>4. states' = [map |-> Kept(copy[s]), bad |-> FALSE]
  <2>1. pen[s] = "alone" BY <1>1, <1>3 DEF Undisturbed
  <2> QED BY <2>1 DEF FillState
<1>5. \A x \in Routes : AgreesWith(copy[s], x, latest[x], now)
  BY <1>2, <1>3 DEF Undisturbed, MapsAgree, Pending
<1>6. \A x \in Routes : AgreesWith(states'.map, x, latest[x], now)
  <2> SUFFICES ASSUME NEW x \in Routes PROVE AgreesWith(Kept(copy[s]), x, latest[x], now)
    BY <1>4
  <2>1. latest[x] \in Outcomes /\ now \in Nat /\ IsMap(copy[s], State)
    BY DEF HealthInv, Frame, Outcomes, Cooldowns, Earned
  <2> QED BY <1>5, <2>1, AgreesKept
<1>7. DOMAIN states'.map \subseteq DOMAIN copy'[s] BY <1>1, <1>4 DEF Kept
<1>8. pc \in [Sessions -> Labels] /\ doing[s].kind \in {"none", "ok", "bad"}
  BY DEF HealthInv, Frame, Outcome
<1>9. \A x \in Routes :
         IF doing[s].kind = "bad" /\ x = doing[s].route
         THEN OkOf(evidence, x) = lastOk[x] /\ doing[s].at = lastBad[x] ELSE Shows(evidence, x)
  BY <1>2, <1>3 DEF Undisturbed, EvidenceAgrees, Owing
<1>10. CASE doing[s].kind = "ok"
  <2>1. PICK l \in {"after", "try"} : pc' = [pc EXCEPT ![s] = l]
    BY <1>1, <1>10 DEF Recorded
  <2>2. l \in Labels /\ l # "start" /\ l \notin Ended /\ pc'[s] \in Whole
    BY <1>8, <2>1 DEF Labels, Ended, Whole
  <2>3. Settled' BY <1>1, <1>6, <1>9, <1>10 DEF Settled, Shows, history
  <2>4. Undisturbed(s)' BY <1>1, <1>5, <1>7, <2>2, <2>3, SettledIsWhole DEF history
  <2> QED BY <1>3, <1>8, <2>1, <2>2, <2>4, LoneStep
<1>11. CASE doing[s].kind # "ok"
  <2>1. pc' = [pc EXCEPT ![s] = "read health"] /\ pc'[s] = "read health"
    BY <1>1, <1>8, <1>11
  <2>2. ~OnState(s)' /\ ~OnHealth(s)' BY <2>1 DEF OnState, OnHealth
  <2>3. MapsAgree(s)' BY <1>1, <1>5, <1>6, <1>7, <2>2 DEF MapsAgree, Pending, history
  <2>4. EvidenceAgrees(s)'
    BY <1>1, <1>9, <2>1, <2>2 DEF EvidenceAgrees, Owing, Shows, history
  <2>5. Undisturbed(s)' BY <2>1, <2>3, <2>4 DEF Undisturbed
  <2> QED BY <1>3, <1>8, <2>1, <2>5, LoneStep DEF Labels, Ended
<1> QED BY <1>10, <1>11

\* A success that is recorded leaves the copy, and the file if it was there.
LEMMA LoneFillHealth ==
    ASSUME NEW s \in Sessions, FillHealth(s), HealthInv, LoneInv
    PROVE  Lone'
<1>1. /\ UNCHANGED <<now, states, stage, todo, doing, history>>
      /\ pc[s] = "fill health" /\ pen' = [pen EXCEPT ![s] = "none"]
  BY DEF FillHealth
<1> SUFFICES ASSUME ~overlap', faults' = 0 PROVE Lone' BY DEF Lone
<1>2. s \in Active /\ OnHealth(s) /\ ~OnState(s) BY <1>1 DEF Active, Ended, OnState, OnHealth
<1>3. Active \subseteq {s} /\ Undisturbed(s)
  BY <1>1, <1>2, OnlyOne DEF LoneInv, history
<1>4. evidence' = seen[s]
  <2>1. pen[s] = "alone" BY <1>1, <1>3 DEF Undisturbed
  <2> QED BY <2>1 DEF FillHealth
<1>5. \A x \in Routes : Shows(seen[s], x) BY <1>2, <1>3 DEF Undisturbed, EvidenceAgrees
<1>6. \A x \in Routes : Shows(evidence, x)' BY <1>1, <1>4, <1>5 DEF Shows, history
<1>7. /\ DOMAIN states.map \subseteq DOMAIN copy[s]
      /\ \A x \in Routes :
            IF doing[s].kind = "ok" /\ x = doing[s].route THEN latest[x].kind = "ok"
            ELSE AgreesWith(copy[s], x, latest[x], now) /\ AgreesWith(states.map, x, latest[x], now)
  BY <1>2, <1>3 DEF Undisturbed, MapsAgree, Pending
<1>8. pc \in [Sessions -> Labels] /\ DOMAIN copy = Sessions BY DEF HealthInv, Frame
<1>9. CASE doing[s].kind = "ok" => doing[s].route \notin DOMAIN copy[s]
  <2>1. PICK l \in {"after", "try"} : pc' = [pc EXCEPT ![s] = l]
    BY <1>9 DEF FillHealth, Recorded
  <2>2. l \in Labels /\ l # "start" /\ l \notin Ended /\ pc'[s] \in Whole
    BY <1>8, <2>1 DEF Labels, Ended, Whole
  <2>3. UNCHANGED copy BY <1>9 DEF FillHealth
  <2>4. ASSUME NEW x \in Routes
        PROVE  AgreesWith(copy[s], x, latest[x], now) /\ AgreesWith(states.map, x, latest[x], now)
    <3>1. CASE doing[s].kind = "ok" /\ x = doing[s].route
      <4>1. x \notin DOMAIN copy[s] /\ x \notin DOMAIN states.map BY <1>7, <1>9, <3>1
      <4>2. latest[x].kind # "bad" BY <1>7, <3>1
      <4> QED BY <4>1, <4>2 DEF AgreesWith
    <3> QED BY <3>1, <1>7
  <2>5. Settled' BY <1>1, <1>6, <2>4 DEF Settled, history
  <2>6. Undisturbed(s)' BY <1>1, <1>7, <2>2, <2>3, <2>4, <2>5, SettledIsWhole DEF history
  <2> QED BY <1>3, <1>8, <2>1, <2>2, <2>6, LoneStep
<1>10. CASE doing[s].kind = "ok" /\ doing[s].route \in DOMAIN copy[s]
  <2>1. /\ copy' = [copy EXCEPT ![s] = Without(copy[s], doing[s].route)]
        /\ pc' = [pc EXCEPT ![s] = "open state"]
    BY <1>10 DEF FillHealth
  <2>2. /\ copy'[s] = Without(copy[s], doing[s].route) /\ pc'[s] = "open state"
        /\ doing' = doing /\ doing[s].kind = "ok"
    BY <1>1, <1>8, <1>10, <2>1
  <2>3. OnState(s)' /\ ~OnHealth(s)' BY <2>2 DEF OnState, OnHealth
  <2>4. \A x \in Routes : ~Pending(s, x)' /\ ~Owing(s, x)' BY <2>2, <2>3 DEF Pending, Owing
  <2>5. ASSUME NEW x \in Routes PROVE AgreesWith(copy'[s], x, latest[x], now)
    <3>1. CASE x = doing[s].route
      <4>1. latest[x].kind # "bad" BY <1>7, <1>10, <3>1
      <4> QED BY <2>2, <3>1, <4>1, AgreesWithout
    <3>2. CASE x # doing[s].route
      <4>1. AgreesWith(copy[s], x, latest[x], now) BY <1>7, <3>2
      <4> QED BY <2>2, <3>2, <4>1, AgreesWithout
    <3> QED BY <3>1, <3>2
  <2>6. MapsAgree(s)' BY <1>1, <2>3, <2>4, <2>5 DEF MapsAgree, history
  <2>7. EvidenceAgrees(s)' BY <1>6, <2>3, <2>4 DEF EvidenceAgrees
  <2>8. Undisturbed(s)' BY <2>2, <2>6, <2>7 DEF Undisturbed
  <2> QED BY <1>3, <1>8, <2>1, <2>8, LoneStep DEF Labels, Ended
<1> QED BY <1>9, <1>10

\* A fault ends what the invariant speaks of.
LEMMA LoneFault ==
    ASSUME NEW s \in Sessions, FileError(s) \/ Die(s), HealthInv
    PROVE  Lone'
<1>1. faults' # 0 BY DEF FileError, Die, HealthInv, Frame
<1> QED BY <1>1 DEF Lone

\* Clearing the map between two sessions makes every cooldown end; time only passes.
LEMMA LoneSurrounding ==
    ASSUME ClearRouteState \/ Tick, HealthInv, LoneInv
    PROVE  Lone'
<1> SUFFICES ASSUME ~overlap', faults' = 0 PROVE Lone' BY DEF Lone
<1>1. CASE ClearRouteState
  <2>1. /\ UNCHANGED <<now, evidence, pc, lastOk, lastBad, faults>>
        /\ states' = [map |-> Nothing, bad |-> FALSE]
        /\ latest' = [r \in Routes |-> [latest[r] EXCEPT !.until = 0]]
        /\ ~overlap /\ Active = {}
    BY <1>1 DEF ClearRouteState
  <2>2. Settled BY <2>1 DEF LoneInv, Lone
  <2>3. \A r \in Routes : Shows(evidence, r)' BY <2>1, <2>2 DEF Settled, Shows
  <2>4. ASSUME NEW r \in Routes PROVE AgreesWith(states'.map, r, latest'[r], now')
    <3>1. latest'[r].until = 0 /\ now \in Nat BY <2>1 DEF HealthInv, Frame
    <3>2. states'.map = Nothing BY <2>1
    <3> QED BY <2>1, <3>1, <3>2 DEF AgreesWith, Nothing
  <2>5. Active' = {} BY <2>1 DEF Active
  <2> QED BY <2>3, <2>4, <2>5 DEF Lone, Settled
<1>2. CASE Tick
  <2>1. now \in Nat /\ now' = now + 1 /\ UNCHANGED <<files, session, history>>
    BY <1>2 DEF Tick, HealthInv, Frame
  <2>2. ~overlap /\ faults = 0 /\ Active' = Active
    BY <2>1 DEF history, session, Active
  <2>3. \A f, r : r \in Routes /\ AgreesWith(f, r, latest[r], now) => AgreesWith(f, r, latest[r], now')
    <3> SUFFICES ASSUME NEW f, NEW r \in Routes, AgreesWith(f, r, latest[r], now)
                 PROVE  AgreesWith(f, r, latest[r], now')
      OBVIOUS
    <3>1. latest[r] \in Outcomes BY DEF HealthInv, Frame, Outcomes
    <3>2. now' \in Nat /\ now <= now' BY <2>1
    <3> QED BY <2>1, <3>1, <3>2, AgreesLater
  <2>4. Settled => Settled'
    BY <2>1, <2>3 DEF Settled, Shows, files, history
  <2>5. ASSUME NEW s \in Sessions, Undisturbed(s) PROVE Undisturbed(s)'
    <3>1. MapsAgree(s)'
      BY <2>1, <2>3, <2>5 DEF Undisturbed, MapsAgree, Pending, OnState, OnHealth, files, session, history
    <3>2. EvidenceAgrees(s)'
      BY <2>1, <2>5 DEF Undisturbed, EvidenceAgrees, Owing, Shows, OnState, OnHealth, files, session, history
    <3> QED BY <2>1, <2>5, <3>1, <3>2 DEF Undisturbed, session
  <2>6. \A s, o \in Active : s = o BY <2>2 DEF LoneInv, Lone
  <2>7. Active = {} => Settled' BY <2>2, <2>4 DEF LoneInv, Lone
  <2>8. \A s \in Active : Undisturbed(s)'
    <3>1. Active \subseteq Sessions BY DEF Active
    <3>2. \A s \in Active : Undisturbed(s) BY <2>2 DEF LoneInv, Lone
    <3> QED BY <2>5, <3>1, <3>2
  <2> QED BY <2>2, <2>6, <2>7, <2>8 DEF Lone
<1> QED BY <1>1, <1>2

\* Which outcome is the latest is known at every step.
LEMMA RecencyStep == HealthInv /\ Recency /\ [Next]_vars => Recency'
<1> SUFFICES ASSUME HealthInv, Recency, [Next]_vars, NEW x \in Routes
             PROVE  /\ latest'[x].kind = "bad" => lastOk'[x] <= lastBad'[x]
                    /\ latest'[x].kind = "none" => lastOk'[x] = Never
    BY DEF Recency
<1>1. /\ latest \in [Routes -> [kind: {"none", "ok", "bad"}, until: Nat, err: Error]]
      /\ lastOk \in [Routes -> Instants] /\ lastBad \in [Routes -> Instants]
      /\ (\A r \in Routes : lastOk[r] <= now /\ lastBad[r] <= now) /\ doing \in [Sessions -> Outcome]
  BY DEF HealthInv, Frame, Clocks
<1>2. CASE UNCHANGED <<latest, lastOk, lastBad>> BY <1>2 DEF Recency
<1>3. ASSUME NEW s \in Sessions, NEW r \in Routes, NEW err, Fail(s, r, err), UNCHANGED lastOk
      PROVE  /\ latest'[x].kind = "bad" => lastOk'[x] <= lastBad'[x]
             /\ latest'[x].kind = "none" => lastOk'[x] = Never
  <2>1. /\ latest' = [latest EXCEPT ![r] =
                        [kind |-> "bad", until |-> After(copy[s], r, err)[r].until, err |-> err]]
        /\ lastBad' = [lastBad EXCEPT ![r] = now]
    BY <1>3 DEF Fail
  <2>2. CASE x = r BY <1>1, <1>3, <2>1, <2>2
  <2>3. CASE x # r BY <1>1, <1>3, <2>1, <2>3 DEF Recency
  <2> QED BY <2>2, <2>3
<1>4. ASSUME NEW s \in Sessions, ReadHealth(s)
      PROVE  /\ latest'[x].kind = "bad" => lastOk'[x] <= lastBad'[x]
             /\ latest'[x].kind = "none" => lastOk'[x] = Never
  <2>1. lastBad' = lastBad
        /\ \/ UNCHANGED <<latest, lastOk>>
           \/ /\ latest' = [latest EXCEPT ![doing[s].route] =
                               [kind |-> "ok", until |-> 0, err |-> Transient]]
              /\ lastOk' = [lastOk EXCEPT ![doing[s].route] = now]
    BY <1>4 DEF ReadHealth
  <2>2. CASE x = doing[s].route BY <1>1, <2>1, <2>2 DEF Recency
  <2>3. CASE x # doing[s].route BY <1>1, <2>1, <2>3 DEF Recency
  <2> QED BY <2>2, <2>3
<1>5. CASE ClearRouteState
  <2>1. latest'[x].kind = latest[x].kind /\ UNCHANGED <<lastOk, lastBad>>
    BY <1>1, <1>5 DEF ClearRouteState
  <2> QED BY <2>1 DEF Recency
<1>6. CASE Tick \/ UNCHANGED vars BY <1>2, <1>6 DEF Tick, vars, history
<1>7. ASSUME NEW s \in Sessions,
             Load(s) \/ Select(s) \/ Exhausted(s) \/ OpenState(s) \/ OpenHealth(s)
             \/ FillState(s) \/ FillHealth(s) \/ Finish(s) \/ Die(s)
      PROVE  UNCHANGED <<latest, lastOk, lastBad>>
  BY <1>7 DEF Load, Select, Exhausted, OpenState, OpenHealth, FillState, FillHealth, Finish, Die,
     history
<1>8. ASSUME NEW s \in Sessions, Try(s) \/ FileError(s)
      PROVE  \/ UNCHANGED <<latest, lastOk, lastBad>>
             \/ lastOk' = lastOk /\ \E r \in Routes : \E err : Fail(s, r, err)
  <2>1. CASE Try(s)
    <3>1. \A r \in todo[s] : r \in Routes BY DEF HealthInv, Frame
    <3> QED BY <2>1, <3>1 DEF Try
  <2>2. CASE FileError(s)
    <3>1. doing[s].route \in Routes BY <1>1 DEF Outcome
    <3> QED BY <2>2, <3>1 DEF FileError
  <2> QED BY <1>8, <2>1, <2>2
<1> QED BY <1>2, <1>3, <1>4, <1>5, <1>6, <1>7, <1>8 DEF Next

\* Undisturbed sessions stay so.
LEMMA LoneNext == HealthInv /\ LoneInv /\ [Next]_vars => LoneInv'
<1> SUFFICES ASSUME HealthInv, LoneInv, [Next]_vars PROVE Lone'
    BY RecencyStep DEF LoneInv
<1>1. CASE Next
  BY <1>1, LoneLoad, LoneChoice, LoneTry, LoneReadHealth, LoneOpen, LoneFillState,
     LoneFillHealth, LoneFault, LoneSurrounding DEF Next
<1>2. CASE UNCHANGED vars
  <2>1. UNCHANGED <<files, session, history>> /\ now' = now /\ Active' = Active
    BY <1>2 DEF vars, session, Active
  <2>2. Settled => Settled' BY <2>1 DEF Settled, Shows, files, history
  <2>3. ASSUME NEW s \in Sessions, Undisturbed(s) PROVE Undisturbed(s)'
    <3>1. MapsAgree(s)'
      BY <2>1, <2>3 DEF Undisturbed, MapsAgree, Pending, OnState, OnHealth, files, session, history
    <3>2. EvidenceAgrees(s)'
      BY <2>1, <2>3 DEF Undisturbed, EvidenceAgrees, Owing, Shows, OnState, OnHealth, files, session,
         history
    <3> QED BY <2>1, <2>3, <3>1, <3>2 DEF Undisturbed, session
  <2> SUFFICES ASSUME ~overlap', faults' = 0 PROVE Lone' BY DEF Lone
  <2>4. ~overlap /\ faults = 0 BY <2>1 DEF history
  <2>5. Settled' \/ Active' # {} BY <2>1, <2>2, <2>4 DEF LoneInv, Lone
  <2>6. \A s \in Active' : s \in Sessions /\ Undisturbed(s)'
    BY <2>1, <2>3, <2>4 DEF LoneInv, Lone, Active
  <2>7. \A s, o \in Active' : s = o BY <2>1, <2>4 DEF LoneInv, Lone
  <2> QED BY <2>5, <2>6, <2>7 DEF Lone
<1> QED BY <1>1, <1>2

\* Nothing has happened to any route, and the files say nothing.
LEMMA LoneInit == Init => LoneInv
<1> SUFFICES ASSUME Init PROVE LoneInv OBVIOUS
<1>1. Recency BY DEF Init, Recency
<1>2. Active = {} BY DEF Init, Active
<1>3. Settled
  BY DEF Init, Settled, Shows, OkOf, BadOf, Nothing, AgreesWith, Transient
<1> QED BY <1>1, <1>2, <1>3 DEF LoneInv, Lone

\* Where the files are settled they show what really happened last.
LEMMA SettledIsExact ==
    ASSUME HealthInv, Recency, Settled, NEW r \in Routes
    PROVE  LET l == latest[r]
               cooling == ~Available(Loaded(states.map), r)
           IN  /\ l.kind = "bad" /\ l.until > now => cooling
               /\ cooling => l.kind = "bad" /\ (l.err.dead \/ l.until > now)
               /\ Healthy(evidence, r) /\ ~cooling <=>
                     l.kind = "ok" /\ lastOk[r] > lastBad[r] /\ now - lastOk[r] <= TTL
<1> DEFINE l == latest[r]
           f == Loaded(states.map)
           cooling == ~Available(f, r)
<1>1. /\ l \in Outcomes /\ now \in Nat /\ TTL \in Nat /\ IsMap(states.map, State)
      /\ lastOk[r] \in Instants /\ lastBad[r] \in Instants
      /\ IsMap(evidence, Health)
  BY HealthConstants DEF HealthInv, Frame, Clocks, Cooldowns, Earned, Evidence, Honest, Outcomes
<1>2. AgreesWith(f, r, l, now) BY <1>1, AgreesLoaded DEF Settled
<1>3. IsMap(f, State)
  BY EarnedLoaded DEF HealthInv, Frame, Cooldowns, Earned
<1>4. /\ l.kind = "bad" => lastOk[r] <= lastBad[r]
      /\ l.kind = "none" => lastOk[r] = Never
  BY DEF Recency
<1>5. OkOf(evidence, r) = lastOk[r] /\ BadOf(evidence, r) = lastBad[r] BY DEF Settled, Shows
<1>6. Healthy(evidence, r) <=> lastOk[r] > lastBad[r] /\ now - lastOk[r] <= TTL
  <2>1. CASE r \notin DOMAIN evidence
    BY <1>5, <2>1 DEF Healthy, OkOf, BadOf, Never
  <2>2. CASE r \in DOMAIN evidence
    BY <1>1, <1>5, <2>2 DEF Healthy, OkOf, BadOf, Instants, Never
  <2> QED BY <2>1, <2>2
<1> HIDE DEF l, f
<1>7. l.kind = "bad" /\ l.until > now => cooling
  <2> SUFFICES ASSUME l.kind = "bad", l.until > now PROVE cooling OBVIOUS
  <2>1. r \in DOMAIN f BY <1>1, <1>2 DEF AgreesWith, Outcomes
  <2>2. f[r].until \in Nat /\ l.until <= f[r].until BY <1>2, <1>3, <2>1 DEF AgreesWith, IsMap, State
  <2> QED BY <1>1, <2>1, <2>2 DEF Available, Outcomes
<1>8. cooling => l.kind = "bad" /\ (l.err.dead \/ l.until > now)
  <2> SUFFICES ASSUME cooling PROVE l.kind = "bad" /\ (l.err.dead \/ l.until > now) OBVIOUS
  <2>1. r \in DOMAIN f /\ ~(f[r].until <= now) BY DEF Available
  <2>2. f[r].until \in Nat BY <1>3, <2>1 DEF IsMap, State
  <2>3. l.kind = "bad" /\ (f[r].dead <=> l.err.dead) /\ (f[r].dead \/ f[r].until = l.until)
    BY <1>2, <2>1 DEF AgreesWith
  <2>4. CASE f[r].dead BY <2>3, <2>4
  <2>5. CASE f[r].until = l.until BY <1>1, <2>1, <2>2, <2>3, <2>5
  <2> QED BY <2>3, <2>4, <2>5
<1>9. l.kind = "ok" => ~cooling BY <1>2 DEF Available, AgreesWith
<1>10. lastOk[r] > lastBad[r] => l.kind # "none" /\ l.kind # "bad"
  BY <1>1, <1>4 DEF Instants, Never
<1>11. l.kind \in {"none", "ok", "bad"} BY <1>1 DEF Outcomes
<1> QED BY <1>6, <1>7, <1>8, <1>9, <1>10, <1>11 DEF l, f

\* While sessions run one at a time and no write fails, the two files say what really
\* happened last to each route, for any number of routes, sessions and outcomes.
THEOREM LoneExact == HealthSpec => []LoneSessionIsExact
<1>1. HealthInv /\ LoneInv => LoneSessionIsExact
  BY SettledIsExact DEF LoneSessionIsExact, LoneInv, Lone
<1>2. HealthSpec => [](HealthInv /\ LoneInv)
  BY HealthInit, LoneInit, HealthNext, LoneNext, PTL DEF HealthSpec
<1> QED BY <1>1, <1>2, PTL

=============================================================================
