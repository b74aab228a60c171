------------------------ MODULE ResponseCache_proofs ------------------------
(***************************************************************************)
(* What the response cache and the selection of routes promise for any     *)
(* routes, inventories, calls and tasks: entries sit under their own key   *)
(* whatever saves overlap or break off, a task only holds routes that the  *)
(* selection admits, and so every answer obeys the policy of its call.     *)
(***************************************************************************)
EXTENDS ResponseCache, FiniteSetTheorems, TLAPS

\* Entries are kept under the key of the call they were made for, and come from a route
\* that, as it was declared then, could be given that call.
Honest(m) ==
    IsMap(m) /\ \A k \in DOMAIN m : /\ KeyOf(m[k].origin) = k
                                    /\ Sendable(m[k].made, m[k].origin)

\* A route that was next for the call when it answered.
RouteFits(inv, c, l, r) == r \in NextRoutes(inv, c, l) /\ Affordable(inv[r], c)

\* A route that the recheck of a cached answer let through.
EntryFits(inv, c, r) ==
    /\ r \in DOMAIN inv /\ r \in c.only
    /\ c.local => TrustedLocal(inv[r])
    /\ c.role => inv[r].band >= c.floor
    /\ WithinEstimate(inv[r], c)

\* What a task may hold as its answer.
Fits(a, inv, c, l) ==
    \/ a = NoResult
    \/ /\ a \in Answer /\ Sendable(a.made, c)
       /\ a.from = "route" => RouteFits(inv, c, l, a.route)
       /\ a.from = "cache" => EntryFits(inv, c, a.route)

\* Simple calls that prefer free routes have given up paying.
Resolved(c) == c.paid /\ c.preferFree /\ c.simple => c.role

Frame ==
    /\ inventory \in Inventories
    /\ pc \in [Tasks -> Label]
    /\ call \in [Tasks -> CallInfo]
    /\ left \in [Tasks -> SUBSET Routes]
    /\ DOMAIN seen = Tasks /\ DOMAIN copy = Tasks /\ DOMAIN result = Tasks
    /\ \A t \in Tasks : IsInventory(seen[t]) /\ Resolved(call[t])
    /\ clock \in Nat /\ overlap \in BOOLEAN /\ faults \in 0..MaxFaults

Stock ==
    /\ file.kind \in {"whole", "empty", "garbled", "broken"}
    /\ Honest(file.map) /\ Honest(book)
    /\ \A t \in Tasks : Honest(copy[t])

Routing ==
    \A t \in Tasks :
        /\ left[t] \subseteq Admitted(seen[t], call[t])
        /\ pc[t] = "attempt" => left[t] # {}

Answers ==
    \A t \in Tasks :
        /\ Fits(result[t], seen[t], call[t], left[t])
        /\ pc[t] \in {"keep", "store", "store fill"} => result[t].from = "route"
        /\ pc[t] = "returned" => result[t].from # "none"
        /\ pc[t] \in {"start", "lookup", "select", "attempt", "drop", "drop fill"}
              => result[t] = NoResult
        /\ pc[t] \in {"start", "lookup", "select", "drop", "drop fill"} => left[t] = {}

CacheInv == Frame /\ Stock /\ Routing /\ Answers

-----------------------------------------------------------------------------
(* Keys and calls *)

LEMMA KeyIsCall == ASSUME NEW c \in CallInfo PROVE KeyOf(c) \in CallInfo
<1> DEFINE plain == [c EXCEPT !.exact = FALSE, !.trial = FALSE]
<1>1. plain \in CallInfo
  BY DEF CallInfo
<1>2. KeyOf(c) = [plain EXCEPT !.guard = 1]
  BY DEF KeyOf, CallInfo
<1> HIDE DEF plain
<1>3. 1 \in Nat \ {0}
  OBVIOUS
<1> QED
  BY <1>1, <1>2, <1>3 DEF CallInfo

LEMMA EffectiveIsCall ==
    ASSUME NEW c \in CallInfo
    PROVE  Effective(c) \in CallInfo /\ Resolved(Effective(c))
<1> DEFINE p == c.paid /\ ~(c.simple /\ c.preferFree /\ ~c.role)
<1>1. p \in BOOLEAN
  OBVIOUS
<1>2. Effective(c) = [c EXCEPT !.paid = p]
  BY DEF Effective
<1> HIDE DEF p
<1>3. Effective(c) \in CallInfo
  BY <1>1, <1>2 DEF CallInfo
<1>4. /\ Effective(c).paid = p /\ Effective(c).preferFree = c.preferFree
      /\ Effective(c).simple = c.simple /\ Effective(c).role = c.role
  BY <1>2 DEF CallInfo
<1>5. Resolved(Effective(c))
  BY <1>4 DEF Resolved, p
<1> QED
  BY <1>3, <1>5

\* The key leaves out nothing but what a golden evaluation may ask and the guard factor.
LEMMA SameKeySameQuestion ==
    ASSUME NEW a \in CallInfo, NEW b \in CallInfo, KeyOf(a) = KeyOf(b)
    PROVE  SameQuestion(a, b)
<1> SUFFICES ASSUME NEW f \in DOMAIN a \ {"exact", "trial", "guard"} PROVE a[f] = b[f]
  BY DEF SameQuestion
<1>1. KeyOf(a)[f] = a[f] /\ KeyOf(b)[f] = b[f]
  BY DEF KeyOf, CallInfo
<1> QED
  BY <1>1

\* A route may be given either of two calls of one key if it may be given the other.
LEMMA SameKeySameRoute ==
    ASSUME NEW a \in CallInfo, NEW b \in CallInfo, KeyOf(a) = KeyOf(b),
           NEW info, Sendable(info, a)
    PROVE  Sendable(info, b)
<1>1. SameQuestion(a, b)
  BY SameKeySameQuestion
<1>2. \A f \in {"local", "paid", "schema", "controls"} :
         f \in DOMAIN a \ {"exact", "trial", "guard"}
  BY DEF CallInfo
<1>3. /\ a.local = b.local /\ a.paid = b.paid
      /\ a.schema = b.schema /\ a.controls = b.controls
  BY <1>1, <1>2 DEF SameQuestion
<1> QED
  BY <1>3 DEF Sendable, Able

-----------------------------------------------------------------------------
(* Entries *)

LEMMA HonestKept == ASSUME NEW m, Honest(m) PROVE Honest(Kept(m))
BY DEF Honest, IsMap, Kept

LEMMA HonestWithout == ASSUME NEW m, NEW k, Honest(m) PROVE Honest(Without(m, k))
BY DEF Honest, IsMap, Without

LEMMA HonestEmpty == Honest(NoEntries)
BY DEF Honest, IsMap, NoEntries

LEMMA HonestWith ==
    ASSUME NEW m, NEW e \in Entry, Honest(m), e.origin \in CallInfo,
           Sendable(e.made, e.origin)
    PROVE  Honest(With(m, KeyOf(e.origin), e))
BY KeyIsCall DEF Honest, IsMap, With, Key

-----------------------------------------------------------------------------
(* Selection *)

\* The routes that are still configured are declared as the task saw them.
LEMMA VisibleIsSeen ==
    ASSUME NEW t \in Tasks, IsInventory(seen[t])
    PROVE  /\ IsInventory(Visible(t))
           /\ DOMAIN Visible(t) \subseteq DOMAIN seen[t]
           /\ \A r \in DOMAIN Visible(t) : Visible(t)[r] = seen[t][r]
BY DEF Visible, IsInventory

LEMMA AdmittedIsKnown ==
    ASSUME NEW inv, NEW c
    PROVE  Admitted(inv, c) \subseteq DOMAIN inv
BY DEF Admitted, ExactPool, Pool, FreeRoutes, PaidRoutes, Suited

\* A larger inventory admits no fewer routes.
LEMMA AdmittedGrows ==
    ASSUME NEW small, NEW large, NEW c,
           DOMAIN small \subseteq DOMAIN large,
           \A r \in DOMAIN small : small[r] = large[r]
    PROVE  Admitted(small, c) \subseteq Admitted(large, c)
<1> SUFFICES ASSUME NEW r \in Admitted(small, c) PROVE r \in Admitted(large, c)
  OBVIOUS
<1>1. r \in DOMAIN small /\ small[r] = large[r] /\ r \in DOMAIN large
  BY AdmittedIsKnown
<1>2. /\ r \in Suited(small, c) => r \in Suited(large, c)
      /\ r \in ExactPool(small, c) => r \in ExactPool(large, c)
  BY <1>1 DEF Suited, ExactPool
<1>3. /\ r \in FreeRoutes(small, c) => r \in FreeRoutes(large, c)
      /\ r \in PaidRoutes(small, c) => r \in PaidRoutes(large, c)
  BY <1>1, <1>2 DEF FreeRoutes, PaidRoutes
<1>4. r \in Pool(small, c) => r \in Pool(large, c)
  BY <1>1, <1>3 DEF Pool
<1> QED
  BY <1>1, <1>2, <1>4 DEF Admitted

\* What is admitted fits the call, but for cost and the quality floor of an exact one.
LEMMA AdmittedFits ==
    ASSUME NEW inv, NEW c \in CallInfo, NEW r \in Admitted(inv, c)
    PROVE  /\ r \in c.only
           /\ c.local => TrustedLocal(inv[r])
           /\ c.role /\ ~c.exact => inv[r].band >= c.floor
           /\ ~Free(inv[r]) => c.paid
           /\ Able(inv[r], c)
<1>1. r \in c.only /\ (c.local => TrustedLocal(inv[r])) /\ Able(inv[r], c)
  BY DEF Admitted, Named
<1>2. CASE c.exact
  <2>1. r \in ExactPool(inv, c)
    BY <1>2 DEF Admitted
  <2> QED
    BY <1>1, <1>2, <2>1 DEF ExactPool
<1>3. CASE ~c.exact
  <2>1. r \in Pool(inv, c)
    BY <1>3 DEF Admitted
  <2>2. c.role => inv[r].band >= c.floor
    BY <2>1 DEF Pool
  <2>3. r \in FreeRoutes(inv, c) \/ c.paid
    BY <2>1 DEF Pool
  <2>4. r \in FreeRoutes(inv, c) => Free(inv[r])
    BY DEF FreeRoutes, FreeOnlyEligible, Free
  <2> QED
    BY <1>1, <1>3, <2>2, <2>3, <2>4
<1> QED
  BY <1>2, <1>3

\* So its route may be given the call.
LEMMA AdmittedIsSendable ==
    ASSUME NEW inv, NEW c \in CallInfo, NEW r \in Admitted(inv, c)
    PROVE  Sendable(inv[r], c)
BY AdmittedFits DEF Sendable

\* A paid route is next only if no free one is left that the call does not avoid.
LEMMA PaidAfterFree ==
    ASSUME NEW inv, NEW c \in CallInfo, NEW l, NEW p \in NextRoutes(inv, c, l), NEW r \in l,
           c.preferFree, ~c.role, ~c.exact, ~Free(inv[p]), Free(inv[r])
    PROVE  r \in c.avoid
<1> SUFFICES ASSUME r \notin c.avoid PROVE FALSE
  OBVIOUS
<1>1. c.preferFree = TRUE
  BY DEF CallInfo
<1>2. Free(inv[p]) = FALSE /\ Free(inv[r]) = TRUE
  BY DEF Free
<1>3. Rank(inv, c, p) = (IF Avoided(c, p) THEN 2 ELSE 0) + 1
  BY <1>1, <1>2 DEF Rank
<1>4. Rank(inv, c, r) = 0
  BY <1>1, <1>2 DEF Rank, Avoided
<1>5. Rank(inv, c, p) <= Rank(inv, c, r)
  BY DEF NextRoutes
<1> QED
  BY <1>3, <1>4, <1>5
-----------------------------------------------------------------------------
(* Answers *)

LEMMA NextRoutesAreLeft ==
    ASSUME NEW inv, NEW c, NEW l
    PROVE  NextRoutes(inv, c, l) \subseteq l
BY DEF NextRoutes

\* Whatever a task may hold fits its call; this is AnswersObeyPolicy for one task.
LEMMA FittingObeys ==
    ASSUME NEW a \in Answer, NEW inv, NEW c \in CallInfo, NEW l, IsInventory(inv),
           l \subseteq Admitted(inv, c), Resolved(c), Fits(a, inv, c, l)
    PROVE  /\ a.route \in c.only
           /\ Sendable(a.made, c)
           /\ c.local => TrustedLocal(inv[a.route])
           /\ c.role /\ ~(c.exact /\ a.from = "route") => inv[a.route].band >= c.floor
           /\ IF a.from = "route" THEN Affordable(inv[a.route], c)
                                  ELSE WithinEstimate(inv[a.route], c)
           /\ a.from = "route" /\ ~Free(inv[a.route]) =>
                 /\ c.paid
                 /\ c.preferFree /\ c.simple => c.role
                 /\ c.preferFree /\ ~c.role /\ ~c.exact =>
                       \A r \in l : Free(inv[r]) => r \in c.avoid
<1>1. a # NoResult /\ a.from \in {"cache", "route"}
  BY DEF Answer, NoResult
<1>2. CASE a.from = "cache"
  BY <1>1, <1>2 DEF Fits, EntryFits
<1>3. CASE a.from = "route"
  <2>1. /\ a.route \in NextRoutes(inv, c, l) /\ Affordable(inv[a.route], c)
        /\ Sendable(a.made, c)
    BY <1>1, <1>3 DEF Fits, RouteFits
  <2>2. a.route \in Admitted(inv, c)
    BY <2>1, NextRoutesAreLeft
  <2>3. /\ a.route \in c.only
        /\ c.local => TrustedLocal(inv[a.route])
        /\ c.role /\ ~c.exact => inv[a.route].band >= c.floor
        /\ ~Free(inv[a.route]) => c.paid
    BY <2>2, AdmittedFits
  <2>4. ASSUME ~Free(inv[a.route]), c.preferFree, ~c.role, ~c.exact, NEW r \in l, Free(inv[r])
        PROVE  r \in c.avoid
    BY <2>1, <2>4, PaidAfterFree
  <2>5. ~Free(inv[a.route]) /\ c.preferFree /\ c.simple => c.role
    BY <2>3 DEF Resolved
  <2> QED
    BY <1>3, <2>1, <2>3, <2>4, <2>5
<1> QED
  BY <1>1, <1>2, <1>3

LEMMA ObeysPolicy == CacheInv => AnswersObeyPolicy
<1> SUFFICES ASSUME CacheInv, NEW t \in Tasks, pc[t] = "returned"
             PROVE  LET c == call[t]
                        a == result[t]
                        info == seen[t][a.route]
                    IN  /\ a.route \in c.only
                        /\ Sendable(a.made, c)
                        /\ c.local => TrustedLocal(info)
                        /\ c.role /\ ~(c.exact /\ a.from = "route") => info.band >= c.floor
                        /\ IF a.from = "route" THEN Affordable(info, c)
                                               ELSE WithinEstimate(info, c)
                        /\ a.from = "route" /\ ~Free(info) =>
                              /\ c.paid
                              /\ c.preferFree /\ c.simple => c.role
                              /\ c.preferFree /\ ~c.role /\ ~c.exact =>
                                    \A r \in left[t] : Free(seen[t][r]) => r \in c.avoid
  BY DEF AnswersObeyPolicy
<1>1. Fits(result[t], seen[t], call[t], left[t]) /\ result[t].from # "none"
  BY DEF CacheInv, Answers
<1>2. result[t] \in Answer
  BY <1>1 DEF Fits, NoResult
<1>3. call[t] \in CallInfo /\ IsInventory(seen[t]) /\ Resolved(call[t])
  BY DEF CacheInv, Frame
<1>4. left[t] \subseteq Admitted(seen[t], call[t])
  BY DEF CacheInv, Routing
<1> QED
  BY <1>1, <1>2, <1>3, <1>4, FittingObeys

LEMMA InvType == CacheInv => CacheTypeOK
<1> SUFFICES ASSUME CacheInv PROVE CacheTypeOK
  OBVIOUS
<1>1. \A t \in Tasks : left[t] \subseteq DOMAIN seen[t]
  BY AdmittedIsKnown DEF CacheInv, Routing
<1>2. \A t \in Tasks : result[t] = NoResult \/ result[t] \in Answer
  BY DEF CacheInv, Answers, Fits
<1>3. \A t \in Tasks : /\ call[t] \in CallInfo /\ IsInventory(seen[t]) /\ IsMap(copy[t])
                       /\ pc[t] = "attempt" => left[t] # {}
  BY DEF CacheInv, Frame, Stock, Routing, Honest
<1>4. /\ inventory \in Inventories
      /\ file.kind \in {"whole", "empty", "garbled", "broken"} /\ IsMap(file.map)
      /\ pc \in [Tasks -> Label]
      /\ clock \in Nat /\ IsMap(book) /\ overlap \in BOOLEAN /\ faults \in 0..MaxFaults
  BY DEF CacheInv, Frame, Stock, Honest
<1> QED
  BY <1>1, <1>2, <1>3, <1>4 DEF CacheTypeOK

-----------------------------------------------------------------------------
(* The first state *)

LEMMA InitInv == Init => CacheInv
<1> SUFFICES ASSUME Init PROVE CacheInv
  OBVIOUS
<1> USE DEF Init
<1>1. call \in [Tasks -> CallInfo] /\ \A t \in Tasks : Resolved(call[t])
  <2>1. \A c \in Asked : Effective(c) \in CallInfo /\ Resolved(Effective(c))
    BY EffectiveIsCall, CacheConstants
  <2> QED
    BY <2>1
<1>2. IsInventory(NoEntries)
  BY DEF IsInventory, NoEntries
<1>3. Frame
  <2>1. pc \in [Tasks -> Label] /\ left \in [Tasks -> SUBSET Routes]
    BY DEF Label
  <2>2. DOMAIN seen = Tasks /\ DOMAIN copy = Tasks /\ DOMAIN result = Tasks
    OBVIOUS
  <2>3. overlap \in BOOLEAN
    OBVIOUS
  <2>5. clock \in Nat /\ faults \in 0..MaxFaults
    BY CacheConstants
  <2>4. \A t \in Tasks : IsInventory(seen[t])
    BY <1>2
  <2> QED
    BY <1>1, <2>1, <2>2, <2>3, <2>4, <2>5 DEF Frame
<1>4. Honest(file.map) /\ Honest(book) /\ file.kind = "whole"
  <2>1. \A m \in Seeds : Honest(m)
    BY CacheConstants DEF Honest
  <2> QED
    BY <2>1 DEF Whole
<1>5. Stock
  BY <1>4, HonestEmpty DEF Stock
<1>6. Routing
  BY DEF Routing
<1>7. Answers
  BY DEF Answers, Fits
<1> QED
  BY <1>3, <1>5, <1>6, <1>7 DEF CacheInv

-----------------------------------------------------------------------------
(* The steps of a task *)

\* The file and the copies after a save began, broke off or ended.
LEMMA StockKept ==
    ASSUME CacheInv, UNCHANGED <<file, copy, book>>
    PROVE  Stock'
BY DEF CacheInv, Stock

LEMMA StockCut ==
    ASSUME CacheInv, NEW t \in Tasks, copy' = [copy EXCEPT ![t] = NoEntries],
           book' = book,
           \/ file' = file
           \/ file' \in {Whole(copy[t]), Cut("empty"), Cut("garbled"), Cut("broken")}
    PROVE  Stock'
<1>1. Honest(copy[t]) /\ Honest(book) /\ Honest(NoEntries) /\ Honest(file.map)
  BY HonestEmpty DEF CacheInv, Stock
<1>2. Honest(file'.map) /\ file'.kind \in {"whole", "empty", "garbled", "broken"}
  BY <1>1 DEF Whole, Cut, CacheInv, Stock
<1>3. \A o \in Tasks : Honest(copy'[o])
  BY <1>1 DEF CacheInv, Stock, Frame
<1> QED
  BY <1>1, <1>2, <1>3 DEF Stock

\* A step that only moves one task.
LEMMA Moved ==
    ASSUME CacheInv, NEW t \in Tasks, NEW label \in Label, Goto(t, label),
           UNCHANGED <<Others, seen, left, result>>, DOMAIN copy' = Tasks,
           label # "attempt",
           label \in {"store", "store fill"} => result[t].from = "route",
           label = "returned" => result[t].from # "none",
           label \in {"start", "lookup", "select", "drop", "drop fill"} =>
               result[t] = NoResult /\ left[t] = {},
           label = "keep" => result[t].from = "route"
    PROVE  Frame' /\ Routing' /\ Answers'
<1>1. Frame'
  BY DEF CacheInv, Frame, Others, Goto
<1>2. Routing'
  BY DEF CacheInv, Frame, Routing, Others, Goto
<1>3. Answers'
  BY DEF CacheInv, Frame, Answers, Others, Goto
<1> QED
  BY <1>1, <1>2, <1>3

LEMMA StartInv == ASSUME CacheInv, NEW t \in Tasks, Start(t) PROVE CacheInv'
<1>1. pc[t] = "start" /\ result[t] = NoResult /\ left[t] = {}
  BY DEF Start, CacheInv, Answers
<1>2. PICK label \in {"lookup", "select"} : Goto(t, label)
  BY DEF Start
<1>3. seen' = [seen EXCEPT ![t] = inventory] /\ IsInventory(inventory)
  BY CacheConstants DEF Start, CacheInv, Frame
<1>4. UNCHANGED <<Others, file, copy, left, result>>
  BY DEF Start
<1>5. Frame'
  BY <1>2, <1>3, <1>4 DEF CacheInv, Frame, Others, Goto, Label
<1>6. Stock'
  BY <1>4, StockKept DEF Others
<1>7. Routing'
  BY <1>1, <1>2, <1>3, <1>4 DEF CacheInv, Frame, Routing, Others, Goto
<1>8. Answers'
  <2> SUFFICES ASSUME NEW o \in Tasks
               PROVE  (/\ Fits(result[o], seen[o], call[o], left[o])
                       /\ pc[o] \in {"keep", "store", "store fill"} => result[o].from = "route"
                       /\ pc[o] = "returned" => result[o].from # "none"
                       /\ pc[o] \in {"start", "lookup", "select", "attempt", "drop", "drop fill"}
                             => result[o] = NoResult
                       /\ pc[o] \in {"start", "lookup", "select", "drop", "drop fill"}
                             => left[o] = {})'
    BY DEF Answers
  <2>1. CASE o = t
    BY <1>1, <1>2, <1>4, <2>1 DEF CacheInv, Frame, Goto, Fits
  <2>2. CASE o # t
    BY <1>2, <1>3, <1>4, <2>2 DEF CacheInv, Frame, Answers, Goto, Others
  <2> QED
    BY <2>1, <2>2
<1> QED
  BY <1>5, <1>6, <1>7, <1>8 DEF CacheInv

LEMMA MissInv == ASSUME CacheInv, NEW t \in Tasks, Miss(t) PROVE CacheInv'
<1>1. pc[t] = "lookup" /\ Goto(t, "select") /\ UNCHANGED <<Others, file, seen, copy, left, result>>
  BY DEF Miss
<1>2. Stock'
  BY <1>1, StockKept DEF Others
<1>3. result[t] = NoResult /\ left[t] = {}
  BY <1>1 DEF CacheInv, Answers
<1>4. Frame' /\ Routing' /\ Answers'
  BY <1>1, <1>3, Moved DEF Label, CacheInv, Frame
<1> QED
  BY <1>2, <1>4 DEF CacheInv

LEMMA LookupRaisesInv == ASSUME CacheInv, NEW t \in Tasks, LookupRaises(t) PROVE CacheInv'
<1>1. pc[t] = "lookup" /\ Goto(t, "raised") /\ UNCHANGED <<Others, file, seen, copy, left, result>>
  BY DEF LookupRaises
<1>2. Stock'
  BY <1>1, StockKept DEF Others
<1>3. Frame' /\ Routing' /\ Answers'
  BY <1>1, Moved DEF Label, Ended, CacheInv, Frame
<1> QED
  BY <1>2, <1>3 DEF CacheInv

LEMMA HitFits ==
    ASSUME CacheInv, NEW t \in Tasks, Hit(t)
    PROVE  /\ result'[t] \in Answer /\ result'[t].from = "cache"
           /\ StillAllowed(Visible(t), call[t], result'[t].route)
           /\ result'[t].valid
           /\ KeyOf(result'[t].origin) = KeyOf(call[t]) /\ result'[t].origin \in CallInfo
           /\ Sendable(result'[t].made, call[t])
<1>1. PICK e : /\ e = file.map[KeyOf(call[t])] /\ KeyOf(call[t]) \in DOMAIN file.map
               /\ Usable(t, e)
               /\ result' = [result EXCEPT ![t] =
                     [from |-> "cache", route |-> e.route, origin |-> e.origin,
                      made |-> e.made, valid |-> e.valid]]
  BY DEF Hit
<1>2. e \in Entry /\ KeyOf(e.origin) = KeyOf(call[t]) /\ Sendable(e.made, e.origin)
  BY <1>1 DEF CacheInv, Stock, Honest, IsMap
<1>3. result'[t] = [from |-> "cache", route |-> e.route, origin |-> e.origin,
                    made |-> e.made, valid |-> e.valid]
  BY <1>1 DEF CacheInv, Frame
<1>4. e.valid /\ StillAllowed(Visible(t), call[t], e.route)
  BY <1>1 DEF Usable
<1>5. /\ e.route \in Routes /\ e.origin \in CallInfo /\ e.valid \in BOOLEAN
      /\ e.made \in RouteInfo
  BY <1>2 DEF Entry
<1>6. call[t] \in CallInfo
  BY DEF CacheInv, Frame
<1>7. Sendable(e.made, call[t])
  BY <1>2, <1>5, <1>6, SameKeySameRoute
<1>8. result'[t] \in Answer
  BY <1>3, <1>5 DEF Answer
<1> QED
  BY <1>2, <1>3, <1>4, <1>5, <1>7, <1>8

LEMMA HitInv == ASSUME CacheInv, NEW t \in Tasks, Hit(t) PROVE CacheInv'
<1>1. /\ pc[t] = "lookup" /\ Goto(t, "returned") /\ UNCHANGED <<Others, file, seen, copy, left>>
      /\ \E a : result' = [result EXCEPT ![t] = a]
  BY DEF Hit
<1>2. Stock'
  BY <1>1, StockKept DEF Others
<1>3. Frame'
  BY <1>1 DEF CacheInv, Frame, Others, Goto, Label, Ended
<1>4. Routing'
  BY <1>1 DEF CacheInv, Frame, Routing, Others, Goto
<1>5. Fits(result'[t], seen[t], call[t], left[t])
  <2>1. IsInventory(seen[t])
    BY DEF CacheInv, Frame
  <2>2. EntryFits(seen[t], call[t], result'[t].route)
    BY <2>1, HitFits, VisibleIsSeen DEF StillAllowed, EntryFits, Suited, Named
  <2> QED
    BY <2>2, HitFits DEF Fits
<1>6. Answers'
  <2> SUFFICES ASSUME NEW o \in Tasks
               PROVE  (/\ Fits(result[o], seen[o], call[o], left[o])
                       /\ pc[o] \in {"keep", "store", "store fill"} => result[o].from = "route"
                       /\ pc[o] = "returned" => result[o].from # "none"
                       /\ pc[o] \in {"start", "lookup", "select", "attempt", "drop", "drop fill"}
                             => result[o] = NoResult
                       /\ pc[o] \in {"start", "lookup", "select", "drop", "drop fill"}
                             => left[o] = {})'
    BY DEF Answers
  <2>1. CASE o = t
    BY <1>1, <1>5, <2>1, HitFits DEF CacheInv, Frame, Goto, Others
  <2>2. CASE o # t
    BY <1>1, <2>2 DEF CacheInv, Frame, Answers, Goto, Others
  <2> QED
    BY <2>1, <2>2
<1> QED
  BY <1>2, <1>3, <1>4, <1>6 DEF CacheInv

LEMMA RejectInv == ASSUME CacheInv, NEW t \in Tasks, Reject(t) PROVE CacheInv'
<1>1. PICK m \in {file.map} : /\ Save(t, Without(m, KeyOf(call[t])), "drop")
                             /\ book' = Without(book, KeyOf(call[t]))
  BY DEF Reject
<1>2. pc[t] = "lookup" /\ UNCHANGED <<inventory, call, clock, faults, file, seen, left, result>>
  BY DEF Reject
<1>3. /\ copy' = [copy EXCEPT ![t] = Kept(Without(m, KeyOf(call[t])))]
      /\ overlap' \in BOOLEAN /\ Goto(t, "drop")
  BY <1>1 DEF Save, CacheInv, Frame
<1>4. Honest(Kept(Without(m, KeyOf(call[t])))) /\ Honest(book')
  BY <1>1, HonestKept, HonestWithout DEF CacheInv, Stock
<1>5. Stock'
  BY <1>2, <1>3, <1>4 DEF CacheInv, Stock, Frame
<1>6. Frame'
  BY <1>2, <1>3 DEF CacheInv, Frame, Goto, Label, Saving
<1>7. Routing'
  BY <1>2, <1>3 DEF CacheInv, Frame, Routing, Goto
<1>8. Answers'
  BY <1>2, <1>3 DEF CacheInv, Frame, Answers, Goto
<1> QED
  BY <1>5, <1>6, <1>7, <1>8 DEF CacheInv

LEMMA SelectInv == ASSUME CacheInv, NEW t \in Tasks, Select(t) PROVE CacheInv'
<1>1. PICK up \in SUBSET Routes :
         /\ left' = [left EXCEPT ![t] = Admitted(Visible(t), call[t]) \cap up]
         /\ Goto(t, IF Admitted(Visible(t), call[t]) \cap up = {} THEN "raised" ELSE "attempt")
  BY DEF Select
<1> DEFINE choices == Admitted(Visible(t), call[t]) \cap up
<1>2. pc[t] = "select" /\ UNCHANGED <<Others, file, seen, copy, result>>
  BY DEF Select
<1>3. choices \subseteq Admitted(seen[t], call[t]) /\ choices \subseteq Routes
  BY VisibleIsSeen, AdmittedGrows DEF CacheInv, Frame
<1>4. /\ left' = [left EXCEPT ![t] = choices]
      /\ Goto(t, IF choices = {} THEN "raised" ELSE "attempt")
  BY <1>1
<1> HIDE DEF choices
<1>5. Stock'
  BY <1>2, StockKept DEF Others
<1>6. Frame'
  BY <1>2, <1>3, <1>4 DEF CacheInv, Frame, Goto, Others, Label, Ended
<1>7. Routing'
  BY <1>2, <1>3, <1>4 DEF CacheInv, Frame, Routing, Goto, Others
<1>8. Answers'
  BY <1>2, <1>4 DEF CacheInv, Frame, Answers, Fits, Goto, Others
<1> QED
  BY <1>5, <1>6, <1>7, <1>8 DEF CacheInv

\* Whatever the task had for an answer is gone.
Dropped(t) ==
    /\ DOMAIN result' = Tasks
    /\ \A o \in Tasks : result'[o] = IF o = t THEN NoResult ELSE result[o]

\* Giving one route up; a task without an answer stays without one.
LEMMA TriedNext ==
    ASSUME CacheInv, NEW t \in Tasks, NEW r \in left[t], NextTry(t, r),
           UNCHANGED <<inventory, call, clock, seen>>, DOMAIN copy' = Tasks,
           overlap' = overlap, faults' \in 0..MaxFaults, Dropped(t)
    PROVE  Frame' /\ Routing' /\ Answers'
<1>1. /\ left' = [left EXCEPT ![t] = @ \ {r}]
      /\ Goto(t, IF left[t] = {r} THEN "raised" ELSE "attempt")
  BY DEF NextTry
<1>2. Frame'
  BY <1>1 DEF CacheInv, Frame, Dropped, Goto, Label, Ended
<1>3. Routing'
  BY <1>1 DEF CacheInv, Frame, Routing, Goto
<1>4. Answers'
  BY <1>1 DEF CacheInv, Frame, Answers, Fits, Dropped, Goto
<1> QED
  BY <1>2, <1>3, <1>4

\* A task that goes on to its next route had none of the answers.
LEMMA NoAnswerYet ==
    ASSUME CacheInv, NEW t \in Tasks, pc[t] = "attempt", result' = result
    PROVE  Dropped(t)
BY DEF CacheInv, Frame, Answers, Dropped

LEMMA SkipInv == ASSUME CacheInv, NEW t \in Tasks, Skip(t) PROVE CacheInv'
<1>1. PICK r \in NextRoutes(seen[t], call[t], left[t]) : NextTry(t, r)
  BY DEF Skip
<1>2. pc[t] = "attempt" /\ UNCHANGED <<Others, file, seen, copy, result>>
  BY DEF Skip
<1>3. r \in left[t]
  BY <1>1, NextRoutesAreLeft
<1>4. Dropped(t)
  BY <1>2, NoAnswerYet
<1>5. Frame' /\ Routing' /\ Answers'
  BY <1>1, <1>2, <1>3, <1>4, TriedNext DEF Others, CacheInv, Frame
<1>6. Stock'
  BY <1>2, StockKept DEF Others
<1> QED
  BY <1>5, <1>6 DEF CacheInv

LEMMA FailInv == ASSUME CacheInv, NEW t \in Tasks, Fail(t) PROVE CacheInv'
<1>1. PICK r \in NextRoutes(seen[t], call[t], left[t]) :
         NextTry(t, r) \/ (Goto(t, "raised") /\ UNCHANGED left)
  BY DEF Fail
<1>2. pc[t] = "attempt" /\ UNCHANGED <<Others, file, seen, copy, result>>
  BY DEF Fail
<1>3. r \in left[t]
  BY <1>1, NextRoutesAreLeft
<1>4. Dropped(t)
  BY <1>2, NoAnswerYet
<1>5. Frame' /\ Routing' /\ Answers'
  <2>1. CASE NextTry(t, r)
    BY <1>2, <1>3, <1>4, <2>1, TriedNext DEF Others, CacheInv, Frame
  <2>2. CASE Goto(t, "raised") /\ UNCHANGED left
    BY <1>2, <2>2, Moved DEF Label, Ended, CacheInv, Frame
  <2> QED
    BY <1>1, <2>1, <2>2
<1>6. Stock'
  BY <1>2, StockKept DEF Others
<1> QED
  BY <1>5, <1>6 DEF CacheInv

LEMMA SucceedInv == ASSUME CacheInv, NEW t \in Tasks, Succeed(t) PROVE CacheInv'
<1>1. PICK r \in NextRoutes(seen[t], call[t], left[t]) :
         /\ Affordable(seen[t][r], call[t])
         /\ result' = [result EXCEPT ![t] =
               [from |-> "route", route |-> r, origin |-> call[t],
                made |-> seen[t][r], valid |-> TRUE]]
  BY DEF Succeed
<1>2. /\ pc[t] = "attempt" /\ Goto(t, IF t \in Cached THEN "keep" ELSE "returned")
      /\ UNCHANGED <<Others, file, seen, copy, left>>
  BY DEF Succeed
<1>3. /\ r \in Routes /\ call[t] \in CallInfo
      /\ seen[t][r] \in RouteInfo /\ Sendable(seen[t][r], call[t])
  <2>1. r \in Admitted(seen[t], call[t])
    BY <1>1, NextRoutesAreLeft DEF CacheInv, Routing
  <2>2. r \in DOMAIN seen[t] /\ IsInventory(seen[t]) /\ call[t] \in CallInfo
    BY <2>1, AdmittedIsKnown DEF CacheInv, Frame
  <2> QED
    BY <2>1, <2>2, AdmittedIsSendable DEF IsInventory
<1>4. result'[t] = [from |-> "route", route |-> r, origin |-> call[t],
                    made |-> seen[t][r], valid |-> TRUE]
  BY <1>1 DEF CacheInv, Frame
<1>5. Fits(result'[t], seen[t], call[t], left[t]) /\ result'[t].from = "route"
  <2>1. result'[t] \in Answer
    BY <1>3, <1>4 DEF Answer
  <2>2. RouteFits(seen[t], call[t], left[t], r)
    BY <1>1 DEF RouteFits
  <2> QED
    BY <1>3, <1>4, <2>1, <2>2 DEF Fits
<1>6. Frame'
  BY <1>1, <1>2 DEF CacheInv, Frame, Goto, Others, Label, Ended
<1>7. Routing'
  BY <1>2 DEF CacheInv, Frame, Routing, Goto, Others
<1>8. Answers'
  <2> SUFFICES ASSUME NEW o \in Tasks
               PROVE  (/\ Fits(result[o], seen[o], call[o], left[o])
                       /\ pc[o] \in {"keep", "store", "store fill"} => result[o].from = "route"
                       /\ pc[o] = "returned" => result[o].from # "none"
                       /\ pc[o] \in {"start", "lookup", "select", "attempt", "drop", "drop fill"}
                             => result[o] = NoResult
                       /\ pc[o] \in {"start", "lookup", "select", "drop", "drop fill"}
                             => left[o] = {})'
    BY DEF Answers
  <2>1. CASE o = t
    BY <1>2, <1>5, <2>1 DEF CacheInv, Frame, Goto, Others
  <2>2. CASE o # t
    BY <1>1, <1>2, <2>2 DEF CacheInv, Frame, Answers, Goto, Others
  <2> QED
    BY <2>1, <2>2
<1>9. Stock'
  BY <1>2, StockKept DEF Others
<1> QED
  BY <1>6, <1>7, <1>8, <1>9 DEF CacheInv

LEMMA KeepInv == ASSUME CacheInv, NEW t \in Tasks, Keep(t) PROVE CacheInv'
<1> DEFINE e == [route |-> result[t].route, stamp |-> clock + 1,
                 origin |-> call[t], made |-> result[t].made, valid |-> TRUE]
<1>1. PICK m \in {file.map, NoEntries} : /\ Save(t, With(m, KeyOf(call[t]), e), "store")
                                        /\ book' = With(book, KeyOf(call[t]), e)
  BY DEF Keep
<1>2. /\ pc[t] = "keep" /\ clock' = clock + 1
      /\ UNCHANGED <<inventory, call, faults, file, seen, left, result>>
  BY DEF Keep
<1>3. result[t].from = "route"
  BY <1>2 DEF CacheInv, Answers
<1>4. /\ e \in Entry /\ e.origin = call[t] /\ call[t] \in CallInfo
      /\ Sendable(e.made, e.origin)
  <2>1. result[t] \in Answer /\ Sendable(result[t].made, call[t])
    <3>1. Fits(result[t], seen[t], call[t], left[t])
      BY DEF CacheInv, Answers
    <3> QED
      BY <1>3, <3>1 DEF Fits, NoResult
  <2>2. result[t].route \in Routes /\ result[t].made \in RouteInfo
    BY <2>1 DEF Answer
  <2>3. call[t] \in CallInfo /\ clock + 1 \in Int
    BY DEF CacheInv, Frame
  <2>4. e \in Entry
    BY <2>2, <2>3 DEF Entry
  <2>5. e.origin = call[t] /\ e.made = result[t].made
    OBVIOUS
  <2> QED
    BY <2>1, <2>3, <2>4, <2>5
<1> HIDE DEF e
<1>5. /\ copy' = [copy EXCEPT ![t] = Kept(With(m, KeyOf(call[t]), e))]
      /\ overlap' \in BOOLEAN /\ Goto(t, "store")
  BY <1>1 DEF Save, CacheInv, Frame
<1>6. Honest(m) /\ Honest(book)
  BY HonestEmpty DEF CacheInv, Stock
<1>7. Honest(Kept(With(m, KeyOf(call[t]), e))) /\ Honest(book')
  BY <1>1, <1>4, <1>6, HonestKept, HonestWith
<1>8. Stock'
  BY <1>2, <1>5, <1>7 DEF CacheInv, Stock, Frame
<1>9. Frame'
  <2>1. clock' \in Nat
    BY <1>2 DEF CacheInv, Frame
  <2>2. pc' \in [Tasks -> Label]
    BY <1>5 DEF CacheInv, Frame, Goto, Label, Saving
  <2> QED
    BY <1>2, <1>5, <2>1, <2>2 DEF CacheInv, Frame
<1>10. Routing'
  BY <1>2, <1>5 DEF CacheInv, Frame, Routing, Goto
<1>11. Answers'
  BY <1>2, <1>3, <1>5 DEF CacheInv, Frame, Answers, Goto
<1> QED
  BY <1>8, <1>9, <1>10, <1>11 DEF CacheInv

LEMMA TruncateInv == ASSUME CacheInv, NEW t \in Tasks, Truncate(t) PROVE CacheInv'
<1>1. /\ pc[t] \in {"drop", "store"} /\ file' = Cut("empty")
      /\ Goto(t, IF pc[t] = "drop" THEN "drop fill" ELSE "store fill")
      /\ UNCHANGED <<Others, seen, copy, left, result>>
  BY DEF Truncate
<1>2. Stock'
  BY <1>1, HonestEmpty DEF CacheInv, Stock, Cut, Others
<1>3. Frame' /\ Routing' /\ Answers'
  <2>1. CASE pc[t] = "drop"
    BY <1>1, <2>1, Moved DEF Label, Saving, CacheInv, Frame, Answers
  <2>2. CASE pc[t] = "store"
    BY <1>1, <2>2, Moved DEF Label, Saving, CacheInv, Frame, Answers
  <2> QED
    BY <1>1, <2>1, <2>2
<1> QED
  BY <1>2, <1>3 DEF CacheInv

LEMMA FillInv == ASSUME CacheInv, NEW t \in Tasks, Fill(t) PROVE CacheInv'
<1>1. /\ pc[t] \in {"drop fill", "store fill"}
      /\ copy' = [copy EXCEPT ![t] = NoEntries]
      /\ Goto(t, IF pc[t] = "drop fill" THEN "select" ELSE "returned")
      /\ UNCHANGED <<Others, seen, left, result>>
  BY DEF Fill
<1>2. file' \in {Whole(copy[t]), Cut("empty"), Cut("garbled"), Cut("broken")}
  BY DEF Fill
<1>3. Stock'
  BY <1>1, <1>2, StockCut DEF Others
<1>4. DOMAIN copy' = Tasks
  BY <1>1 DEF CacheInv, Frame
<1>5. Frame' /\ Routing' /\ Answers'
  <2>1. CASE pc[t] = "drop fill"
    BY <1>1, <1>4, <2>1, Moved DEF Label, CacheInv, Answers
  <2>2. CASE pc[t] = "store fill"
    BY <1>1, <1>4, <2>2, Moved DEF Label, Ended, CacheInv, Answers
  <2> QED
    BY <1>1, <2>1, <2>2
<1> QED
  BY <1>3, <1>5 DEF CacheInv

LEMMA BrokenOff ==
    ASSUME NEW t \in Tasks, BreakOff(t)
    PROVE  \/ file' = file
           \/ file' \in {Whole(copy[t]), Cut("empty"), Cut("garbled"), Cut("broken")}
BY DEF BreakOff

LEMMA FileErrorInv == ASSUME CacheInv, NEW t \in Tasks, FileError(t) PROVE CacheInv'
<1>1. /\ copy' = [copy EXCEPT ![t] = NoEntries]
      /\ UNCHANGED <<inventory, call, clock, book, overlap, seen>>
  BY DEF FileError
<1>2. DOMAIN copy' = Tasks
  BY <1>1 DEF CacheInv, Frame
<1>3. /\ faults' \in 0..MaxFaults
      /\ \/ file' = file
         \/ file' \in {Whole(copy[t]), Cut("empty"), Cut("garbled"), Cut("broken")}
  <2>1. CASE faults < MaxFaults /\ faults' = faults + 1 /\ BreakOff(t)
    BY <2>1, BrokenOff, CacheConstants DEF CacheInv, Frame
  <2>2. CASE UNCHANGED <<file, faults>>
    BY <2>2 DEF CacheInv, Frame
  <2> QED
    BY <2>1, <2>2 DEF FileError
<1>4. Stock'
  BY <1>1, <1>3, StockCut
<1>5. Frame' /\ Routing' /\ Answers'
  <2>1. CASE /\ pc[t] \in {"keep", "store", "store fill"}
             /\ NextTry(t, result[t].route)
             /\ result' = [result EXCEPT ![t] = NoResult]
    <3>1. result[t].from = "route" /\ Fits(result[t], seen[t], call[t], left[t])
      BY <2>1 DEF CacheInv, Answers
    <3>2. result[t].route \in left[t]
      BY <3>1, NextRoutesAreLeft DEF Fits, RouteFits, NoResult
    <3>3. Dropped(t)
      BY <2>1 DEF CacheInv, Frame, Dropped
    <3> QED
      BY <1>1, <1>2, <1>3, <2>1, <3>2, <3>3, TriedNext
  <2>2. CASE /\ pc[t] \in {"drop", "drop fill"} /\ Goto(t, "raised") /\ UNCHANGED <<left, result>>
    <3>1. Frame'
      BY <1>1, <1>2, <1>3, <2>2 DEF CacheInv, Frame, Goto, Label, Ended
    <3>2. Routing'
      BY <1>1, <2>2 DEF CacheInv, Frame, Routing, Goto
    <3>3. Answers'
      BY <1>1, <2>2 DEF CacheInv, Frame, Answers, Goto
    <3> QED
      BY <3>1, <3>2, <3>3
  <2> QED
    BY <2>1, <2>2 DEF FileError
<1> QED
  BY <1>4, <1>5 DEF CacheInv

LEMMA CrashInv == ASSUME CacheInv, NEW t \in Tasks, Crash(t) PROVE CacheInv'
<1>1. /\ copy' = [copy EXCEPT ![t] = NoEntries] /\ Goto(t, "crashed")
      /\ UNCHANGED <<inventory, call, clock, book, overlap, seen, left, result>>
      /\ faults < MaxFaults /\ faults' = faults + 1 /\ BreakOff(t)
  BY DEF Crash
<1>2. Stock'
  BY <1>1, BrokenOff, StockCut
<1>3. faults' \in 0..MaxFaults /\ DOMAIN copy' = Tasks
  BY <1>1, CacheConstants DEF CacheInv, Frame
<1>4. Frame'
  BY <1>1, <1>3 DEF CacheInv, Frame, Goto, Label, Ended
<1>5. Routing'
  BY <1>1 DEF CacheInv, Frame, Routing, Goto
<1>6. Answers'
  BY <1>1 DEF CacheInv, Frame, Answers, Goto
<1> QED
  BY <1>2, <1>4, <1>5, <1>6 DEF CacheInv

LEMMA NextInv == ASSUME CacheInv, [Next]_vars PROVE CacheInv'
<1>1. ASSUME NEW t \in Tasks, Step(t) PROVE CacheInv'
  BY <1>1, StartInv, MissInv, HitInv, RejectInv, LookupRaisesInv, SelectInv, SkipInv, FailInv,
     SucceedInv, KeepInv, TruncateInv, FillInv, FileErrorInv DEF Step
<1>2. ASSUME NEW t \in Tasks, Crash(t) PROVE CacheInv'
  BY <1>2, CrashInv
<1>3. CASE Reconfigure
  BY <1>3 DEF Reconfigure, task, CacheInv, Frame, Stock, Routing, Answers
<1>4. CASE UNCHANGED vars
  BY <1>4 DEF vars, task, CacheInv, Frame, Stock, Routing, Answers
<1> QED
  BY <1>1, <1>2, <1>3, <1>4 DEF Next

-----------------------------------------------------------------------------
(* The theorems *)

\* Files, copies, answers and the routes still to try keep their types, whatever saves
\* overlap or break off, and the loop of a task ends when no route is left.
THEOREM CacheTypes == CacheSpec => []CacheTypeOK
<1>1. CacheSpec => []CacheInv
  BY InitInv, NextInv, PTL DEF CacheSpec
<1> QED
  BY <1>1, InvType, PTL

\* Every answer a task returns, cached or not, obeys the policy of its call: where the
\* input may go, what it may cost, and free routes before paid ones.
THEOREM AnswersObey == CacheSpec => []AnswersObeyPolicy
<1>1. CacheSpec => []CacheInv
  BY InitInv, NextInv, PTL DEF CacheSpec
<1> QED
  BY <1>1, ObeysPolicy, PTL

\* A step that serves a cached answer serves one for the same question, valid, made by a
\* route that could be given the call then, and that selection would consider now.
LEMMA HitAdmissibleStep ==
    ASSUME CacheInv, [Next]_vars, NEW t \in Tasks, pc[t] = "lookup", pc'[t] = "returned"
    PROVE  LET c == [call[t] EXCEPT !.exact = FALSE, !.schema = FALSE, !.controls = FALSE]
               hit == result'[t]
           IN  /\ hit.valid /\ SameQuestion(hit.origin, call[t])
               /\ Sendable(hit.made, call[t])
               /\ hit.route \in Admitted(Visible(t), c) \/ ~(c.preferFree \/ c.paid)
<1>1. Hit(t)
  <2>1. PICK o \in Tasks : Step(o) \/ Crash(o)
    BY DEF Next, Reconfigure, vars, task
  <2>2. o = t
    BY <2>1 DEF Step, Start, Miss, Hit, Reject, LookupRaises, Select, Skip, Fail, Succeed, Keep,
       Truncate, Fill, FileError, Crash, NextTry, Save, Goto, CacheInv, Frame
  <2>3. Hit(t) \/ Miss(t) \/ Reject(t) \/ LookupRaises(t)
    BY <2>1, <2>2 DEF Step, Start, Select, Skip, Fail, Succeed, Keep,
       Truncate, Fill, FileError, Crash, Saving
  <2>4. ~Miss(t) /\ ~Reject(t) /\ ~LookupRaises(t)
    BY DEF Miss, Reject, LookupRaises, Save, Goto, CacheInv, Frame
  <2> QED
    BY <2>3, <2>4
<1> DEFINE c == [call[t] EXCEPT !.exact = FALSE, !.schema = FALSE, !.controls = FALSE]
           hit == result'[t]
<1>2. /\ hit \in Answer /\ hit.valid /\ StillAllowed(Visible(t), call[t], hit.route)
      /\ KeyOf(hit.origin) = KeyOf(call[t]) /\ hit.origin \in CallInfo
      /\ Sendable(hit.made, call[t])
  BY <1>1, HitFits
<1>3. call[t] \in CallInfo /\ Resolved(call[t]) /\ IsInventory(Visible(t))
  BY VisibleIsSeen DEF CacheInv, Frame
<1>4. /\ ~c.exact /\ ~c.schema /\ ~c.controls /\ c.paid = call[t].paid
      /\ c.preferFree = call[t].preferFree /\ c.role = call[t].role /\ c.floor = call[t].floor
      /\ c.local = call[t].local /\ c.only = call[t].only /\ c.task = call[t].task
  BY <1>3 DEF CallInfo
<1> HIDE DEF c, hit
<1>5. SameQuestion(hit.origin, call[t])
  BY <1>2, <1>3, SameKeySameQuestion
<1>7. ASSUME c.preferFree \/ c.paid PROVE hit.route \in Admitted(Visible(t), c)
  <2> DEFINE inv == Visible(t)
             r == hit.route
  <2>1. /\ r \in Suited(inv, c) /\ r \in c.only
        /\ c.preferFree /\ Free(inv[r]) => FreeOnlyEligible(inv[r])
        /\ c.preferFree /\ ~c.paid => Free(inv[r])
        /\ c.local => TrustedLocal(inv[r])
        /\ c.role => inv[r].band >= c.floor
    BY <1>2, <1>4 DEF StillAllowed, Named, Suited
  <2>2. r \in DOMAIN inv /\ ExecutionEnabled(inv[r])
    BY <2>1 DEF Suited
  <2>3. inv[r] \in RouteInfo
    BY <1>3, <2>2 DEF IsInventory
  <2>4. Free(inv[r]) => FreeOnlyEligible(inv[r])
    BY <2>2, <2>3 DEF Free, FreeOnlyEligible, ExecutionEnabled, RouteInfo
  <2>5. r \in FreeRoutes(inv, c) \/ (c.paid /\ r \in PaidRoutes(inv, c))
    BY <1>7, <2>1, <2>4 DEF FreeRoutes, PaidRoutes
  <2>6. r \in Pool(inv, c)
    BY <2>1, <2>5 DEF Pool
  <2> QED
    BY <1>4, <2>1, <2>2, <2>6 DEF Admitted, Named, Able
<1> QED
  BY <1>2, <1>5, <1>7 DEF c, hit

\* A hit is an answer to the very call, made by a route that could be given it and could
\* do what it needs, although only the key says so; and from a route that selection
\* would consider now, with the exceptions stated, for any inventories and calls.
THEOREM HitsAdmissible == CacheSpec => HitIsAdmissible
<1>1. CacheSpec => []CacheInv
  BY InitInv, NextInv, PTL DEF CacheSpec
<1>2. CacheInv /\ [Next]_vars =>
        [\A t \in Tasks :
            pc[t] = "lookup" /\ pc'[t] = "returned" =>
               LET c == [call[t] EXCEPT !.exact = FALSE, !.schema = FALSE,
                                        !.controls = FALSE]
                   hit == result'[t]
               IN  /\ hit.valid /\ SameQuestion(hit.origin, call[t])
                   /\ Sendable(hit.made, call[t])
                   /\ hit.route \in Admitted(Visible(t), c) \/ ~(c.preferFree \/ c.paid)]_vars
  BY HitAdmissibleStep
<1> QED
  BY <1>1, <1>2, PTL DEF CacheSpec, HitIsAdmissible

-----------------------------------------------------------------------------
(* Nothing is lost without an overlap *)

\* Distinct stamps, none later than n.
Stamped(b, n) ==
    /\ \A k \in DOMAIN b : b[k].stamp \in Int /\ b[k].stamp <= n
    /\ \A k, l \in DOMAIN b : b[k].stamp = b[l].stamp => k = l

\* A map that agrees with the history b and lacks only what MaxItems newer ones, up to
\* stamp n, have pushed out.
Complete(m, b, n) ==
    /\ \A k \in DOMAIN m : k \in DOMAIN b /\ m[k] = b[k]
    /\ \A k \in DOMAIN b \ DOMAIN m : MaxItems > 0 /\ b[k].stamp + MaxItems <= n

\* Entries with distinct later stamps are no more than the stamps there are.
LEMMA FewAreNewer ==
    ASSUME NEW m, NEW n \in Int, Stamped(m, n), NEW s \in Int, s <= n
    PROVE  LET newer == {y \in DOMAIN m : m[y].stamp > s}
           IN  Cardinality(newer) \in Nat /\ Cardinality(newer) <= n - s
<1> DEFINE newer == {y \in DOMAIN m : m[y].stamp > s}
           stamp == [y \in newer |-> m[y].stamp]
<1>1. stamp \in Injection(newer, (s + 1)..n)
  BY DEF Stamped, Injection, IsInjective
<1>2. IsFiniteSet((s + 1)..n) /\ Cardinality((s + 1)..n) = n - s
  <2>1. s + 1 \in Int
    OBVIOUS
  <2>2. /\ IsFiniteSet((s + 1)..n)
        /\ Cardinality((s + 1)..n) = IF s + 1 > n THEN 0 ELSE n - (s + 1) + 1
    BY <2>1, FS_Interval
  <2> QED
    BY <2>2
<1> HIDE DEF newer, stamp
<1>3. IsFiniteSet(newer) /\ Cardinality(newer) <= n - s
  BY <1>1, <1>2, FS_Injection
<1>4. Cardinality(newer) \in Nat
  BY <1>3, FS_CardinalityType
<1> QED
  BY <1>3, <1>4 DEF newer

\* What _save_response_cache drops is old.
LEMMA CompleteKept ==
    ASSUME NEW m, NEW b, NEW n \in Int, Stamped(b, n), Complete(m, b, n)
    PROVE  Complete(Kept(m), b, n)
<1>1. CASE Cardinality(DOMAIN m) <= MaxItems \/ MaxItems = 0
  BY <1>1 DEF Kept
<1>2. CASE ~(Cardinality(DOMAIN m) <= MaxItems \/ MaxItems = 0)
  <2>1. MaxItems \in Nat /\ MaxItems > 0
    BY <1>2, CacheConstants
  <2>2. Stamped(m, n)
    BY DEF Stamped, Complete
  <2>3. /\ DOMAIN Kept(m) =
              {x \in DOMAIN m :
                  Cardinality({y \in DOMAIN m : m[y].stamp > m[x].stamp}) < MaxItems}
        /\ \A k \in DOMAIN Kept(m) : Kept(m)[k] = m[k]
    BY <1>2 DEF Kept
  <2>4. ASSUME NEW k \in DOMAIN m \ DOMAIN Kept(m)
        PROVE  b[k].stamp + MaxItems <= n
    <3>1. m[k].stamp \in Int /\ m[k].stamp <= n /\ m[k] = b[k]
      BY <2>2 DEF Stamped, Complete
    <3> DEFINE many == Cardinality({y \in DOMAIN m : m[y].stamp > m[k].stamp})
    <3>2. many \in Nat /\ many <= n - m[k].stamp
      BY <2>2, <3>1, FewAreNewer
    <3>3. ~(many < MaxItems)
      BY <2>3
    <3> HIDE DEF many
    <3> QED
      BY <2>1, <3>1, <3>2, <3>3
  <2>5. ASSUME NEW k \in DOMAIN b \ DOMAIN Kept(m)
        PROVE  MaxItems > 0 /\ b[k].stamp + MaxItems <= n
    BY <2>1, <2>4 DEF Complete
  <2>6. \A k \in DOMAIN Kept(m) : k \in DOMAIN b /\ Kept(m)[k] = b[k]
    BY <2>3 DEF Complete
  <2> QED
    BY <2>5, <2>6 DEF Complete
<1> QED
  BY <1>1, <1>2

LEMMA CompleteWithout ==
    ASSUME NEW m, NEW b, NEW k, NEW n \in Int, Stamped(b, n), Complete(m, b, n)
    PROVE  Complete(Without(m, k), Without(b, k), n) /\ Stamped(Without(b, k), n)
BY DEF Complete, Stamped, Without

LEMMA CompleteWith ==
    ASSUME NEW m, NEW b, NEW k, NEW e, NEW n \in Int, e.stamp = n + 1,
           Stamped(b, n), Complete(m, b, n)
    PROVE  Complete(With(m, k, e), With(b, k, e), n + 1) /\ Stamped(With(b, k, e), n + 1)
<1>1. Stamped(With(b, k, e), n + 1)
  <2>1. ASSUME NEW x \in DOMAIN b \cup {k}
        PROVE  With(b, k, e)[x].stamp \in Int /\ With(b, k, e)[x].stamp <= n + 1
    BY DEF Stamped, With
  <2>2. ASSUME NEW x \in DOMAIN b \cup {k}, NEW y \in DOMAIN b \cup {k},
               With(b, k, e)[x].stamp = With(b, k, e)[y].stamp
        PROVE  x = y
    BY <2>2 DEF Stamped, With
  <2>3. DOMAIN With(b, k, e) = DOMAIN b \cup {k}
    BY DEF With
  <2> QED
    BY <2>1, <2>2, <2>3 DEF Stamped
<1>2. Complete(With(m, k, e), With(b, k, e), n + 1)
  <2>1. DOMAIN With(m, k, e) = DOMAIN m \cup {k} /\ DOMAIN With(b, k, e) = DOMAIN b \cup {k}
    BY DEF With
  <2>2. ASSUME NEW x \in DOMAIN m \cup {k}
        PROVE  x \in DOMAIN b \cup {k} /\ With(m, k, e)[x] = With(b, k, e)[x]
    BY DEF Complete, With
  <2>3. ASSUME NEW x \in (DOMAIN b \cup {k}) \ (DOMAIN m \cup {k})
        PROVE  MaxItems > 0 /\ With(b, k, e)[x].stamp + MaxItems <= n + 1
    <3>1. With(b, k, e)[x] = b[x] /\ b[x].stamp \in Int
      BY DEF With, Stamped
    <3>2. MaxItems > 0 /\ b[x].stamp + MaxItems <= n
      BY DEF Complete
    <3> QED
      BY <3>1, <3>2, CacheConstants
  <2> QED
    BY <2>1, <2>2, <2>3 DEF Complete
<1> QED
  BY <1>1, <1>2

\* Without overlaps and faults at most one task saves, what it writes is complete, and
\* so is the file when nobody does.
Orderly ==
    /\ \A t, o \in Tasks : pc[t] \in Saving /\ pc[o] \in Saving => t = o
    /\ (\A t \in Tasks : pc[t] \notin Saving) =>
          file.kind = "whole" /\ Complete(file.map, book, clock)
    /\ \A t \in Tasks : pc[t] \in Saving => Complete(copy[t], book, clock)
    /\ \A t \in Tasks : pc[t] \in {"drop fill", "store fill"} => file.kind = "empty"

Intact == Stamped(book, clock) /\ (~overlap /\ faults = 0 => Orderly)

LEMMA InitIntact == Init => Intact
<1> SUFFICES ASSUME Init PROVE Intact
  OBVIOUS
<1>1. PICK m \in Seeds : file = Whole(m) /\ book = m /\ clock = 0
  BY DEF Init
<1>2. IsMap(m) /\ (\A k \in DOMAIN m : m[k].stamp <= 0)
      /\ (\A k, l \in DOMAIN m : m[k].stamp = m[l].stamp => k = l)
  BY CacheConstants
<1>3. \A k \in DOMAIN m : m[k].stamp \in Int
  BY <1>2 DEF IsMap, Entry
<1>4. Stamped(book, clock)
  BY <1>1, <1>2, <1>3 DEF Stamped
<1>5. file.kind = "whole" /\ Complete(file.map, book, clock)
  BY <1>1 DEF Whole, Complete
<1>6. \A t \in Tasks : pc[t] \notin Saving
  BY DEF Init, Saving
<1>7. Orderly
  BY <1>5, <1>6 DEF Orderly, Saving
<1> QED
  BY <1>4, <1>7 DEF Intact

\* A step outside every save leaves things as they are.
LEMMA IntactKept ==
    ASSUME CacheInv, Intact, NEW t \in Tasks, pc[t] \notin Saving,
           \A o \in Tasks \ {t} : pc'[o] = pc[o] /\ copy'[o] = copy[o],
           pc'[t] \notin Saving,
           UNCHANGED <<file, book, clock, overlap, faults>>
    PROVE  Intact'
<1> SUFFICES ASSUME ~overlap, faults = 0 PROVE Orderly'
  BY DEF Intact
<1>1. Orderly
  BY DEF Intact
<1>2. \A o \in Tasks : pc'[o] \in Saving => o # t /\ pc[o] = pc'[o] /\ copy'[o] = copy[o]
  OBVIOUS
<1>3. \A o \in Tasks : pc[o] \in Saving => pc'[o] \in Saving
  OBVIOUS
<1> QED
  BY <1>1, <1>2, <1>3 DEF Orderly, Saving

\* A save that begins while no other is under way has read the whole file.
LEMMA IntactSave ==
    ASSUME CacheInv, Intact, NEW t \in Tasks, pc[t] \notin Saving,
           NEW m, Reads(m), NEW new, NEW label \in {"drop", "store"}, Save(t, new, label),
           UNCHANGED <<file, faults>>,
           Stamped(book', clock'), clock' \in Int,
           Complete(m, book, clock) => Complete(new, book', clock')
    PROVE  Intact'
<1> SUFFICES ASSUME ~overlap', faults = 0 PROVE Orderly'
  BY DEF Intact
<1>1. /\ copy' = [copy EXCEPT ![t] = Kept(new)]
      /\ pc' = [pc EXCEPT ![t] = label]
      /\ overlap' = (overlap \/ \E o \in Tasks \ {t} : pc[o] \in Saving)
  BY DEF Save, Goto
<1>2. ~overlap /\ \A o \in Tasks : pc[o] \notin Saving
  BY <1>1
<1>3. file.kind = "whole" /\ Complete(file.map, book, clock)
  BY <1>2 DEF Intact, Orderly
<1>4. m = file.map
  BY <1>2, <1>3 DEF Reads, HalfWritten, Saving
<1>5. Complete(Kept(new), book', clock')
  BY <1>3, <1>4, CompleteKept
<1>6. pc'[t] = label /\ \A o \in Tasks \ {t} : pc'[o] \notin Saving
  BY <1>1, <1>2 DEF CacheInv, Frame
<1>7. copy'[t] = Kept(new)
  BY <1>1 DEF CacheInv, Frame
<1>8. \A o \in Tasks : pc'[o] \in Saving => o = t
  BY <1>6
<1>9. pc'[t] \in Saving /\ \A o \in Tasks : pc'[o] \notin {"drop fill", "store fill"}
  BY <1>6 DEF Saving
<1> QED
  BY <1>5, <1>7, <1>8, <1>9 DEF Orderly

LEMMA TruncateIntact ==
    ASSUME CacheInv, Intact, NEW t \in Tasks, Truncate(t) PROVE Intact'
<1>1. /\ pc[t] \in {"drop", "store"} /\ file' = Cut("empty")
      /\ pc' = [pc EXCEPT ![t] = IF pc[t] = "drop" THEN "drop fill" ELSE "store fill"]
      /\ UNCHANGED <<inventory, call, clock, book, overlap, faults, copy>>
  BY DEF Truncate, Goto, Others
<1> SUFFICES ASSUME ~overlap, faults = 0 PROVE Orderly'
  BY <1>1 DEF Intact
<1>2. Orderly /\ pc[t] \in Saving
  BY <1>1 DEF Intact, Saving
<1>3. \A o \in Tasks : pc'[o] \in Saving => pc[o] \in Saving
  BY <1>1, <1>2 DEF CacheInv, Frame
<1>4. pc'[t] \in Saving
  BY <1>1 DEF CacheInv, Frame, Saving
<1>5. file'.kind = "empty"
  BY <1>1 DEF Cut
<1> QED
  BY <1>1, <1>2, <1>3, <1>4, <1>5 DEF Orderly

LEMMA FillIntact ==
    ASSUME CacheInv, Intact, NEW t \in Tasks, Fill(t) PROVE Intact'
<1>1. /\ pc[t] \in {"drop fill", "store fill"}
      /\ file' \in {Whole(copy[t])} \cup
             IF file.kind = "empty" THEN {} ELSE {Cut("garbled"), Cut("broken")}
      /\ pc' = [pc EXCEPT ![t] = IF pc[t] = "drop fill" THEN "select" ELSE "returned"]
      /\ UNCHANGED <<inventory, call, clock, book, overlap, faults>>
  BY DEF Fill, Goto, Others
<1> SUFFICES ASSUME ~overlap, faults = 0 PROVE Orderly'
  BY <1>1 DEF Intact
<1>2. Orderly /\ pc[t] \in Saving
  BY <1>1 DEF Intact, Saving
<1>3. file' = Whole(copy[t]) /\ Complete(copy[t], book, clock)
  BY <1>1, <1>2 DEF Orderly
<1>4. \A o \in Tasks : pc'[o] \notin Saving
  BY <1>1, <1>2 DEF Orderly, CacheInv, Frame, Saving
<1>5. file'.kind = "whole" /\ Complete(file'.map, book', clock')
  BY <1>1, <1>3 DEF Whole
<1> QED
  BY <1>4, <1>5 DEF Orderly, Saving

LEMMA FaultIntact ==
    ASSUME Intact, CacheInv, faults' = faults + 1, UNCHANGED <<book, clock>>
    PROVE  Intact'
BY DEF Intact, CacheInv, Frame

LEMMA NextIntact == ASSUME CacheInv, Intact, [Next]_vars PROVE Intact'
<1> USE DEF Others
<1>1. ASSUME NEW t \in Tasks,
             \/ Start(t) \/ Miss(t) \/ Hit(t) \/ LookupRaises(t) \/ Select(t)
             \/ Skip(t) \/ Fail(t) \/ Succeed(t)
      PROVE  Intact'
  <2>1. pc[t] \notin Saving
    BY <1>1 DEF Start, Miss, Hit, LookupRaises, Select, Skip, Fail, Succeed, Saving
  <2>2. UNCHANGED <<file, book, clock, overlap, faults, copy>>
    BY <1>1 DEF Start, Miss, Hit, LookupRaises, Select, Skip, Fail, Succeed
  <2>3. \E label \in Label \ Saving : pc' = [pc EXCEPT ![t] = label]
    BY <1>1 DEF Start, Miss, Hit, LookupRaises, Select, Skip, Fail, Succeed, NextTry, Goto,
       Label, Saving, Ended
  <2>4. pc'[t] \notin Saving /\ \A o \in Tasks \ {t} : pc'[o] = pc[o] /\ copy'[o] = copy[o]
    BY <2>2, <2>3 DEF CacheInv, Frame
  <2> QED
    BY <2>1, <2>2, <2>4, IntactKept
<1>2. ASSUME NEW t \in Tasks, Reject(t) PROVE Intact'
  <2>1. PICK m \in {file.map} : /\ Reads(m)
                               /\ Save(t, Without(m, KeyOf(call[t])), "drop")
                               /\ book' = Without(book, KeyOf(call[t]))
    BY <1>2 DEF Reject
  <2>2. pc[t] \notin Saving /\ UNCHANGED <<file, faults, clock>> /\ clock \in Int
    BY <1>2 DEF Reject, Saving, CacheInv, Frame
  <2>3. Stamped(book, clock)
    BY DEF Intact
  <2>4. Stamped(book', clock')
    BY <2>1, <2>2, <2>3 DEF Stamped, Without
  <2>5. Complete(m, book, clock) => Complete(Without(m, KeyOf(call[t])), book', clock')
    BY <2>1, <2>2, <2>3, CompleteWithout
  <2> QED
    BY <2>1, <2>2, <2>4, <2>5, IntactSave
<1>3. ASSUME NEW t \in Tasks, Keep(t) PROVE Intact'
  <2> DEFINE e == [route |-> result[t].route, stamp |-> clock + 1,
                   origin |-> call[t], made |-> result[t].made, valid |-> TRUE]
  <2>1. PICK m \in {file.map, NoEntries} : /\ Reads(m)
                                          /\ Save(t, With(m, KeyOf(call[t]), e), "store")
                                          /\ book' = With(book, KeyOf(call[t]), e)
    BY <1>3 DEF Keep
  <2>2. /\ pc[t] \notin Saving /\ UNCHANGED <<file, faults>>
        /\ clock' = clock + 1 /\ clock \in Int
    BY <1>3 DEF Keep, Saving, CacheInv, Frame
  <2>3. Stamped(book, clock) /\ e.stamp = clock + 1
    BY DEF Intact
  <2> HIDE DEF e
  <2>4. Complete(book, book, clock)
    BY DEF Complete
  <2>5. Stamped(book', clock')
    BY <2>1, <2>2, <2>3, <2>4, CompleteWith
  <2>6. Complete(m, book, clock) => Complete(With(m, KeyOf(call[t]), e), book', clock')
    BY <2>1, <2>2, <2>3, CompleteWith
  <2> QED
    BY <2>1, <2>2, <2>5, <2>6, IntactSave
<1>4. ASSUME NEW t \in Tasks, FileError(t) PROVE Intact'
  <2>1. UNCHANGED <<book, clock, overlap>>
    BY <1>4 DEF FileError
  <2>2. CASE faults' = faults + 1
    BY <2>1, <2>2, FaultIntact
  <2>3. CASE pc[t] = "keep" /\ UNCHANGED <<file, faults>>
    <3>1. pc[t] \notin Saving
      BY <2>3 DEF Saving
    <3>2. \E label \in Label \ Saving : pc' = [pc EXCEPT ![t] = label]
      BY <1>4 DEF FileError, NextTry, Goto, Label, Saving, Ended
    <3>3. copy' = [copy EXCEPT ![t] = NoEntries]
      BY <1>4 DEF FileError
    <3>4. pc'[t] \notin Saving /\ \A o \in Tasks \ {t} : pc'[o] = pc[o] /\ copy'[o] = copy[o]
      BY <3>2, <3>3 DEF CacheInv, Frame
    <3> QED
      BY <2>1, <2>3, <3>1, <3>4, IntactKept
  <2> QED
    BY <1>4, <2>2, <2>3 DEF FileError
<1>5. ASSUME NEW t \in Tasks, Crash(t) PROVE Intact'
  BY <1>5, FaultIntact DEF Crash
<1>6. CASE Reconfigure \/ UNCHANGED vars
  BY <1>6 DEF Reconfigure, vars, task, Intact, Orderly
<1> QED
  BY <1>1, <1>2, <1>3, <1>4, <1>5, <1>6, TruncateIntact, FillIntact DEF Next, Step

\* Entries are lost only to overlapping saves, failed writes and deaths: otherwise the
\* file holds the newest answers, at least as many as the cache may keep.
THEOREM NothingLost == CacheSpec => []NothingLostWithoutOverlap
<1>1. CacheSpec => []CacheInv
  BY InitInv, NextInv, PTL DEF CacheSpec
<1>2. CacheInv /\ Intact /\ [Next]_vars => Intact'
  BY NextIntact
<1>3. CacheSpec => []Intact
  BY <1>1, <1>2, InitIntact, PTL DEF CacheSpec
<1>4. Intact => NothingLostWithoutOverlap
  BY DEF Intact, Orderly, Complete, NothingLostWithoutOverlap
<1> QED
  BY <1>3, <1>4, PTL
=============================================================================
