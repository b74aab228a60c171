----------------------- MODULE BudgetAuthority_proofs -----------------------
(***************************************************************************)
(* The properties of BudgetAuthority, for any number of callers, any       *)
(* amounts and any legacy files.                                           *)
(***************************************************************************)
EXTENDS BudgetAuthority, FiniteSetTheorems, TLAPS

-----------------------------------------------------------------------------
(* Sums over reservations: what adding and removing an entry does to them. *)
(* A sum is the size of a set of units, so these facts need no induction.  *)

\* A reservation table with finitely many entries.
FiniteTable(f) == f \in Reservations /\ IsFiniteSet(DOMAIN f)

\* The units of one entry.
EntryUnits(id, amount) == {id} \X (1..amount)

\* A table is a function from its own ids to amounts.
LEMMA TableType ==
    ASSUME NEW f \in Reservations
    PROVE  /\ f \in [DOMAIN f -> Amount]
           /\ DOMAIN f \subseteq Ids
BY DEF Reservations

\* The table with no entry, which a fresh workflow starts from, sums to zero.
LEMMA NoReservationTotal ==
    /\ FiniteTable(NoReservation)
    /\ DOMAIN NoReservation = {}
    /\ Total(NoReservation) = 0
<1>1. NoReservation \in [{} -> Amount] /\ DOMAIN NoReservation = {}
  BY DEF NoReservation
<1>2. NoReservation \in Reservations
  <2>1. {} \in SUBSET Ids
    OBVIOUS
  <2>2. QED
    BY <1>1, <2>1 DEF Reservations
<1>3. Units(NoReservation) = {}
  BY <1>1 DEF Units
<1>4. QED
  BY <1>1, <1>2, <1>3, FS_EmptySet DEF FiniteTable, Total

\* A table with finitely many entries has a sum.
LEMMA TotalType ==
    ASSUME NEW f, FiniteTable(f)
    PROVE  IsFiniteSet(Units(f)) /\ Total(f) \in Nat
<1>1. FloatMax \in Nat
  BY BudgetConstants
<1>2. IsFiniteSet(1..FloatMax)
  BY <1>1, FS_Interval
<1>3. IsFiniteSet((DOMAIN f) \X (1..FloatMax))
  BY <1>2, FS_Product DEF FiniteTable
<1>4. Units(f) \subseteq (DOMAIN f) \X (1..FloatMax)
  BY DEF Units
<1>5. IsFiniteSet(Units(f))
  BY <1>3, <1>4, FS_Subset
<1>6. QED
  BY <1>5, FS_CardinalityType DEF Total

\* One entry of "amount" units counts for "amount".
LEMMA EntryTotal ==
    ASSUME NEW id, NEW amount \in Amount
    PROVE  IsFiniteSet(EntryUnits(id, amount)) /\ Cardinality(EntryUnits(id, amount)) = amount
<1>1. FloatMax \in Nat /\ amount \in Nat
  BY BudgetConstants DEF Amount
<1>2. IsFiniteSet(1..amount) /\ Cardinality(1..amount) = amount
  BY <1>1, FS_Interval
<1>3. IsFiniteSet({id}) /\ Cardinality({id}) = 1
  BY FS_Singleton
<1>4. /\ IsFiniteSet(EntryUnits(id, amount))
      /\ Cardinality(EntryUnits(id, amount)) = 1 * amount
  BY <1>2, <1>3, FS_Product DEF EntryUnits
<1>5. QED
  BY <1>1, <1>4

\* Entering a new id in the table raises the sum by its amount.
LEMMA TotalWith ==
    ASSUME NEW f, FiniteTable(f),
           NEW id \in Ids, id \notin DOMAIN f,
           NEW amount \in Amount
    PROVE  /\ FiniteTable(With(f, id, amount))
           /\ Total(With(f, id, amount)) = Total(f) + amount
<1> DEFINE g == With(f, id, amount)
<1>1. f \in [DOMAIN f -> Amount] /\ DOMAIN f \subseteq Ids
  BY TableType DEF FiniteTable
<1>2. DOMAIN g = DOMAIN f \cup {id} /\ g \in [DOMAIN f \cup {id} -> Amount]
  BY <1>1 DEF With
<1>3. g[id] = amount /\ \A i \in DOMAIN f : g[i] = f[i]
  BY DEF With
<1>4. FiniteTable(g)
  <2>1. IsFiniteSet(DOMAIN g)
    BY <1>2, FS_AddElement DEF FiniteTable
  <2>2. DOMAIN f \cup {id} \in SUBSET Ids
    BY <1>1
  <2>3. QED
    BY <1>2, <2>1, <2>2 DEF FiniteTable, Reservations
<1>5. Units(g) = Units(f) \cup EntryUnits(id, amount)
  <2>1. 1..amount \subseteq 1..FloatMax
    BY BudgetConstants DEF Amount
  <2>2. ASSUME NEW u \in Units(g) PROVE u \in Units(f) \cup EntryUnits(id, amount)
    <3>1. PICK i \in DOMAIN f \cup {id}, k \in 1..FloatMax : u = <<i, k>> /\ k <= g[i]
      BY <1>2 DEF Units
    <3>2. CASE i = id
      BY <3>1, <3>2, <1>3 DEF EntryUnits, Amount
    <3>3. CASE i # id
      BY <3>1, <3>3, <1>3 DEF Units
    <3>4. QED
      BY <3>2, <3>3
  <2>3. ASSUME NEW u \in Units(f) PROVE u \in Units(g)
    <3>1. PICK i \in DOMAIN f, k \in 1..FloatMax : u = <<i, k>> /\ k <= f[i]
      BY DEF Units
    <3>2. QED
      BY <3>1, <1>2, <1>3 DEF Units
  <2>4. ASSUME NEW u \in EntryUnits(id, amount) PROVE u \in Units(g)
    <3>1. PICK k \in 1..amount : u = <<id, k>>
      BY DEF EntryUnits
    <3>2. k \in 1..FloatMax /\ k <= g[id]
      BY <2>1, <1>3, BudgetConstants DEF Amount
    <3>3. QED
      BY <3>1, <3>2, <1>2 DEF Units
  <2>5. QED
    BY <2>2, <2>3, <2>4
<1>6. Units(f) \cap EntryUnits(id, amount) = {}
  BY DEF Units, EntryUnits
<1>7. Cardinality(Units(g)) = Cardinality(Units(f)) + amount
  <2>1. /\ IsFiniteSet(Units(f)) /\ Cardinality(Units(f)) \in Nat
    BY TotalType DEF Total
  <2>2. Cardinality(Units(f) \cup EntryUnits(id, amount))
          = Cardinality(Units(f)) + amount - Cardinality(Units(f) \cap EntryUnits(id, amount))
    BY <2>1, EntryTotal, FS_Union
  <2>3. Cardinality(Units(f) \cap EntryUnits(id, amount)) = 0
    BY <1>6, FS_EmptySet
  <2>4. amount \in Nat
    BY BudgetConstants DEF Amount
  <2>5. QED
    BY <1>5, <2>1, <2>2, <2>3, <2>4
<1>8. QED
  BY <1>4, <1>7 DEF Total

\* Removing an id lowers the sum by its amount, and by nothing if it is absent.
LEMMA TotalWithout ==
    ASSUME NEW f, FiniteTable(f), NEW id
    PROVE  /\ FiniteTable(Without(f, id))
           /\ DOMAIN Without(f, id) = DOMAIN f \ {id}
           /\ \A i \in DOMAIN f \ {id} : Without(f, id)[i] = f[i]
           /\ Total(f) = Total(Without(f, id)) + (IF id \in DOMAIN f THEN f[id] ELSE 0)
<1> DEFINE g == Without(f, id)
<1>1. f \in [DOMAIN f -> Amount] /\ DOMAIN f \subseteq Ids
  BY TableType DEF FiniteTable
<1>2. /\ DOMAIN g = DOMAIN f \ {id}
      /\ g \in [DOMAIN f \ {id} -> Amount]
      /\ \A i \in DOMAIN f \ {id} : g[i] = f[i]
  BY <1>1 DEF Without
<1>3. FiniteTable(g)
  <2>1. IsFiniteSet(DOMAIN g)
    BY <1>2, FS_RemoveElement DEF FiniteTable
  <2>2. DOMAIN f \ {id} \in SUBSET Ids
    BY <1>1
  <2>3. QED
    BY <1>2, <2>1, <2>2 DEF FiniteTable, Reservations
<1>4. CASE id \in DOMAIN f
  <2>1. id \in Ids /\ f[id] \in Amount /\ id \notin DOMAIN g
    BY <1>1, <1>2, <1>4
  <2>2. With(g, id, f[id]) = f
    <3>1. DOMAIN With(g, id, f[id]) = DOMAIN f
      BY <1>2, <1>4 DEF With
    <3>2. \A i \in DOMAIN f : With(g, id, f[id])[i] = f[i]
      BY <1>2, <1>4 DEF With
    <3>3. With(g, id, f[id]) = [i \in DOMAIN f |-> With(g, id, f[id])[i]]
      BY <3>1 DEF With
    <3>4. f = [i \in DOMAIN f |-> f[i]]
      BY <1>1
    <3>5. QED
      BY <3>2, <3>3, <3>4
  <2>3. Total(With(g, id, f[id])) = Total(g) + f[id]
    BY <1>3, <2>1, TotalWith
  <2>4. QED
    BY <1>2, <1>3, <1>4, <2>2, <2>3
<1>5. CASE id \notin DOMAIN f
  <2>1. g = f
    <3>1. DOMAIN f \ {id} = DOMAIN f
      BY <1>5
    <3>2. f = [i \in DOMAIN f |-> f[i]]
      BY <1>1
    <3>3. QED
      BY <3>1, <3>2 DEF Without
  <2>2. Total(f) \in Nat
    BY TotalType
  <2>3. QED
    BY <1>2, <1>3, <1>5, <2>1, <2>2
<1>6. QED
  BY <1>4, <1>5

-----------------------------------------------------------------------------
(* What each entry point leaves in each field of the state *)

\* Fields of a well-typed state.
LEMMA StateFields ==
    ASSUME NEW s \in State
    PROVE  /\ s.owner \in {"none", "unset", "here", "elsewhere"}
           /\ s.max \in 0..NonFinite /\ s.status \in Status
           /\ s.spent \in 0..NonFinite /\ s.res \in Reservations
           /\ s.source \in LegacyStates \cup {NoSource}
BY DEF State

\* The state that the checks of reserve look at: the file as it was, or else
\* an import, or else a fresh workflow that has spent nothing.
LEMMA OpenedFacts ==
    ASSUME NEW s \in State, ~Established(s) => s = Empty, FiniteTable(s.res),
           NEW found \in SUBSET (LegacyStates \cup {Unreadable}),
           ~ImportBlocked(s, found),
           NEW req \in Request, ~RequestInvalid(req)
    PROVE  LET o == Opened(s, found, req)
           IN  /\ o \in State /\ Established(o) /\ FiniteTable(o.res)
               /\ Established(s) => o = s
               /\ ~Established(s) =>
                     \/ /\ o.source \in LegacyStates /\ found \subseteq {o.source}
                        /\ o.max = o.source.max /\ o.spent = o.source.spent
                        /\ o.status = o.source.status /\ o.res = o.source.res
                     \/ /\ o.source = NoSource /\ found = {}
                        /\ o.spent = 0 /\ o.res = NoReservation
<1> DEFINE o == Opened(s, found, req)
<1>1. CASE Established(s)
  BY <1>1 DEF Opened, Imported, Established
<1>2. CASE ~Established(s) /\ found # {}
  <2> DEFINE l == CHOOSE x \in found : TRUE
  <2>1. l \in found /\ l \in LegacyStates
    BY <1>2 DEF ImportBlocked
  <2>2. l \in LegacyContent /\ DOMAIN l.res \subseteq LegacyIds /\ IsFiniteSet(DOMAIN l.res)
    BY <2>1, BudgetConstants, FS_Subset
  <2>3. o = Adopt(l)
    BY <1>2 DEF Opened, Imported, Adopt, Established
  <2>4. /\ l.max \in 0..NonFinite /\ l.status \in Status /\ l.spent \in 0..NonFinite
        /\ l.res \in Reservations
    BY <2>2, BudgetConstants DEF LegacyContent, Amount, NonFinite
  <2>5. o \in State /\ FiniteTable(o.res)
    BY <2>1, <2>2, <2>3, <2>4 DEF Adopt, State, FiniteTable
  <2>6. found \subseteq {l}
    BY <2>1 DEF ImportBlocked
  <2>7. QED
    BY <1>2, <2>1, <2>3, <2>5, <2>6 DEF Adopt, Established
<1>3. CASE ~Established(s) /\ found = {}
  <2>1. o = Fresh(req)
    BY <1>3 DEF Opened, Imported, Established
  <2>2. req.max \in 0..NonFinite
    BY DEF Request
  <2>3. 0 \in 0..NonFinite /\ "active" \in Status
    BY BudgetConstants DEF NonFinite, Status
  <2>4. o \in State /\ FiniteTable(o.res)
    BY <2>1, <2>2, <2>3, NoReservationTotal DEF Fresh, State, FiniteTable
  <2>5. Established(o) /\ o.source = NoSource /\ o.spent = 0 /\ o.res = NoReservation
    BY <2>1 DEF Fresh, Established
  <2>6. QED
    BY <1>3, <2>4, <2>5
<1>4. QED
  BY <1>1, <1>2, <1>3

\* Validity, exposure and the ability to admit depend on four fields only.
LEMMA OwnedFacts ==
    ASSUME NEW s \in State
    PROVE  /\ Owned(s) \in State /\ Established(Owned(s))
           /\ Owned(s).max = s.max /\ Owned(s).spent = s.spent /\ Owned(s).res = s.res
           /\ Owned(s).status = s.status /\ Owned(s).source = s.source
BY DEF State, Owned, Established

\* A granted reserve enters the reservation and changes nothing else; the total,
\* the new reservation included, is within the maximum (budget.py 406-437).
LEMMA GrantedFacts ==
    ASSUME NEW s \in State, ~Established(s) => s = Empty, FiniteTable(s.res),
           NEW found \in SUBSET (LegacyStates \cup {Unreadable}),
           NEW req \in Request, NEW c \in Calls, c \notin DOMAIN s.res,
           Granted(s, found, req)
    PROVE  LET o == Opened(s, found, req)
               t == AfterReserve(s, found, c, req)
           IN  /\ c \notin DOMAIN o.res /\ req.reserved \in Amount
               /\ t \in State /\ Established(t) /\ FiniteTable(t.res)
               /\ t.max = o.max /\ t.spent = o.spent /\ t.source = o.source
               /\ t.status = "active" /\ o.status = "active"
               /\ t.res = With(o.res, c, req.reserved)
               /\ t.max \in 1..FloatMax /\ t.spent \in Amount
               /\ Total(t.res) = Total(o.res) + req.reserved
               /\ Total(o.res) \in Nat
               /\ t.spent + Total(t.res) <= t.max
<1> DEFINE o == Opened(s, found, req)
           t == AfterReserve(s, found, c, req)
<1>1. /\ ~RequestInvalid(req) /\ ~ImportBlocked(s, found)
      /\ ~Unusable(o) /\ ~Refused(o, req)
  BY DEF Granted
<1>2. /\ o \in State /\ Established(o) /\ FiniteTable(o.res)
      /\ Established(s) => o = s
      /\ ~Established(s) =>
            \/ o.source \in LegacyStates /\ o.res = o.source.res
            \/ o.res = NoReservation
  BY <1>1, OpenedFacts
<1>3. c \notin DOMAIN o.res
  <2>1. \A l \in LegacyStates : c \notin DOMAIN l.res
    BY BudgetConstants
  <2>2. QED
    BY <1>2, <2>1, NoReservationTotal
<1>4. t = Hold(Owned(o), c, req.reserved)
  BY <1>1 DEF AfterReserve
<1>5. req.reserved \in Amount
  BY <1>1 DEF RequestInvalid, IsFinite
<1>6. /\ FiniteTable(With(o.res, c, req.reserved))
      /\ Total(With(o.res, c, req.reserved)) = Total(o.res) + req.reserved
  BY <1>2, <1>3, <1>5, TotalWith DEF Ids
<1>7. /\ t \in State /\ Established(t)
      /\ t.max = o.max /\ t.spent = o.spent /\ t.source = o.source /\ t.status = o.status
      /\ t.res = With(o.res, c, req.reserved)
  <2>1. With(o.res, c, req.reserved) \in Reservations
    BY <1>6 DEF FiniteTable
  <2>2. Owned(o).res = o.res
    BY <1>2, OwnedFacts
  <2>3. QED
    BY <1>2, <1>4, <2>1, <2>2 DEF Hold, Owned, State, Established
<1>8. /\ o.max \in 1..FloatMax /\ o.spent \in Amount
      /\ o.status = "active" /\ o.max = req.max /\ ~OverLimit(o, req)
  BY <1>1 DEF Unusable, AuthorityValid, IsPositive, IsFinite, Refused
<1>9. Total(o.res) \in Nat
  BY <1>2, TotalType
<1>10. t.spent + Total(t.res) <= t.max
  <2>1. ~(o.spent + Total(o.res) + req.reserved > req.max)
    BY <1>8 DEF OverLimit, Exposure
  <2>2. o.spent \in Int /\ req.reserved \in Int /\ req.max \in Int
    BY <1>5, <1>8, BudgetConstants DEF Amount
  <2>3. QED
    BY <1>6, <1>7, <1>8, <1>9, <2>1, <2>2
<1>11. QED
  BY <1>2, <1>3, <1>5, <1>6, <1>7, <1>8, <1>9, <1>10

\* A reserve that is not granted leaves the file alone, or leaves the import, the
\* fresh workflow or the authority id that it had already written into it.
LEMMA BlockedFacts ==
    ASSUME NEW s \in State, ~Established(s) => s = Empty, FiniteTable(s.res),
           NEW found \in SUBSET (LegacyStates \cup {Unreadable}),
           NEW req \in Request, NEW c \in Calls,
           ~Granted(s, found, req)
    PROVE  LET t == AfterReserve(s, found, c, req)
           IN  /\ t \in State /\ FiniteTable(t.res)
               /\ Established(s) =>
                     /\ Established(t) /\ t.max = s.max /\ t.spent = s.spent
                     /\ t.res = s.res /\ t.status = s.status /\ t.source = s.source
               /\ ~Established(s) =>
                     \/ t = s
                     \/ /\ Established(t) /\ t.source \in LegacyStates
                        /\ t.max = t.source.max /\ t.spent = t.source.spent
                        /\ t.status = t.source.status /\ t.res = t.source.res
                     \/ /\ Established(t) /\ t.source = NoSource
                        /\ t.spent = 0 /\ t.res = NoReservation
<1> DEFINE o == Opened(s, found, req)
           t == AfterReserve(s, found, c, req)
<1>1. CASE RequestInvalid(req) \/ ImportBlocked(s, found)
  BY <1>1 DEF AfterReserve
<1>2. CASE ~RequestInvalid(req) /\ ~ImportBlocked(s, found)
  <2>1. t = o \/ t = Owned(o)
    BY <1>2 DEF AfterReserve, Granted
  <2>2. /\ o \in State /\ Established(o) /\ FiniteTable(o.res)
        /\ Established(s) => o = s
        /\ ~Established(s) =>
              \/ /\ o.source \in LegacyStates
                 /\ o.max = o.source.max /\ o.spent = o.source.spent
                 /\ o.status = o.source.status /\ o.res = o.source.res
              \/ /\ o.source = NoSource
                 /\ o.spent = 0 /\ o.res = NoReservation
    BY <1>2, OpenedFacts
  <2>3. /\ t \in State /\ Established(t)
        /\ t.max = o.max /\ t.spent = o.spent /\ t.res = o.res
        /\ t.status = o.status /\ t.source = o.source
    BY <2>1, <2>2, OwnedFacts
  <2>4. QED
    BY <2>2, <2>3
<1>3. QED
  BY <1>1, <1>2

\* A release removes one entry and nothing else (budget.py 441-444).
LEMMA ReleaseFacts ==
    ASSUME NEW s \in State, FiniteTable(s.res), NEW c
    PROVE  LET t == AfterRelease(s, c)
           IN  /\ t \in State /\ FiniteTable(t.res)
               /\ Established(t) <=> Established(s)
               /\ t.max = s.max /\ t.spent = s.spent
               /\ t.status = s.status /\ t.source = s.source
               /\ t.res = Without(s.res, c)
<1>1. FiniteTable(Without(s.res, c))
  BY TotalWithout
<1>2. Without(s.res, c) \in Reservations
  BY <1>1 DEF FiniteTable
<1>3. QED
  BY <1>1, <1>2 DEF AfterRelease, State, Established

\* A settlement replaces the entry by its cost (budget.py 503-506).
LEMMA SettleFacts ==
    ASSUME NEW s \in State, FiniteTable(s.res), NEW c, NEW req, NEW cost,
           ~SettleRaises(s, cost)
    PROVE  LET t == AfterSettle(s, c, req, cost)
           IN  /\ cost \in Amount /\ s.spent \in Amount /\ s.spent + cost \in Amount
               /\ s.max \in 1..FloatMax
               /\ t \in State /\ FiniteTable(t.res)
               /\ Established(t) <=> Established(s)
               /\ t.max = s.max /\ t.spent = s.spent + cost /\ t.source = s.source
               /\ t.res = Without(s.res, c)
               /\ s.status = "stopped" => t.status = "stopped"
               /\ t.status = "active" => t.spent <= t.max
               /\ Charged(s, c, cost) = [t EXCEPT !.status = s.status]
<1> DEFINE t == AfterSettle(s, c, req, cost)
<1>1. FiniteTable(Without(s.res, c)) /\ Without(s.res, c) \in Reservations
  BY TotalWithout DEF FiniteTable
<1>2. cost \in Amount /\ s.spent \in Amount /\ s.max \in 1..FloatMax
  BY DEF SettleRaises, SettleInvalid, AuthorityValid, IsFinite, IsPositive
<1>3. s.spent + cost \in Amount /\ s.spent + cost \in 0..NonFinite
  BY <1>2, BudgetConstants DEF SettleRaises, SettleOverflows, Amount, NonFinite
<1> DEFINE st == IF Violation(s, req, cost) THEN "stopped" ELSE s.status
<1>4. st \in Status /\ (s.status = "stopped" => st = "stopped")
  BY DEF Status, State
<1>5. t = [s EXCEPT !.res = Without(s.res, c), !.spent = s.spent + cost, !.status = st]
  BY DEF AfterSettle, SettleRaises, Charged, State
<1>6. /\ t \in State
      /\ Established(t) <=> Established(s)
      /\ t.max = s.max /\ t.spent = s.spent + cost /\ t.source = s.source
      /\ t.res = Without(s.res, c) /\ t.status = st
  <2> HIDE DEF st
  <2>1. QED
    BY <1>1, <1>3, <1>4, <1>5 DEF State, Established
<1>7. st = "active" => s.spent + cost <= s.max
  BY <1>2, BudgetConstants DEF Violation, Amount
<1>8. Charged(s, c, cost) = [t EXCEPT !.status = s.status]
  BY <1>5 DEF Charged, State
<1>9. QED
  BY <1>1, <1>2, <1>3, <1>4, <1>6, <1>7, <1>8

\* A settlement that raises changes at most the status, and keeps every entry
\* of the file (budget.py 483-502).
LEMMA RefusedFacts ==
    ASSUME NEW s \in State, NEW c, NEW req, NEW cost, SettleRaises(s, cost)
    PROVE  LET t == AfterSettle(s, c, req, cost)
           IN  /\ t \in State
               /\ Established(t) <=> Established(s)
               /\ t.max = s.max /\ t.spent = s.spent /\ t.source = s.source
               /\ t.res = s.res
               /\ t.status \in {s.status, "stopped"}
BY DEF AfterSettle, SettleRaises, State, Status, Established

-----------------------------------------------------------------------------
(* The inductive invariant.  ReservationsMatchCallers alone is not enough    *)
(* for the bounds: a release must find an authority whose sum was valid, so  *)
(* HoldersValid says that whoever holds a reservation was admitted by one.   *)

Tables == FiniteTable(file.res) /\ FiniteTable(charged)

ChargedCallers == DOMAIN charged = {c \in Calls : phase[c] \in {"settled", "unreported"}}

Unopened == ~Established(file) => file = Empty /\ charged = NoReservation /\ Liable = {}

HoldersValid == \A c \in Liable : AuthorityValid(file) /\ request[c].reserved \in Amount

IInv ==
    /\ TypeOK /\ Tables /\ ChargedCallers /\ Unopened /\ HoldersValid
    /\ ReservationsMatchCallers /\ SpentIsAccounted
    /\ ActiveWithinMax /\ ExposureBounded /\ ImportedIsKept

\* The excess of a file is what its exposure is allowed beyond its maximum.
LEMMA ExcessFacts ==
    ASSUME NEW s \in State, FiniteTable(s.res)
    PROVE  /\ Excess(s) \in Nat
           /\ AuthorityValid(s) => Exposure(s) <= s.max + Excess(s)
<1>1. Total(s.res) \in Nat
  BY TotalType
<1>2. s.max \in Nat /\ s.spent \in Nat
  BY BudgetConstants DEF State, NonFinite
<1>3. QED
  BY <1>1, <1>2 DEF Excess, Exposure

\* An empty authority is not valid, so nothing is claimed of its amounts.
LEMMA EmptyFacts ==
    /\ Empty \in State /\ FiniteTable(Empty.res) /\ ~Established(Empty)
    /\ ~AuthorityValid(Empty) /\ Empty.spent = 0 /\ Empty.source = NoSource
    /\ Excess(Empty) = 0 /\ DOMAIN Empty.res = {}
<1>1. Empty \in State
  <2>1. 0 \in 0..NonFinite /\ "active" \in Status
    BY BudgetConstants DEF NonFinite, Status
  <2>2. QED
    BY <2>1, NoReservationTotal DEF Empty, State, FiniteTable
<1>2. ~AuthorityValid(Empty)
  BY DEF AuthorityValid, IsPositive, Empty
<1>3. QED
  BY <1>1, <1>2, NoReservationTotal DEF Empty, Established, Excess

\* No call has been made in an initial state, and what an earlier release left
\* is inside its maximum unless it stopped.
LEMMA InitIInv == Init => IInv
<1> SUFFICES ASSUME Init PROVE IInv
  OBVIOUS
<1>1. /\ file \in State /\ file.source = NoSource /\ DOMAIN file.res \subseteq LegacyIds
      /\ ~Established(file) => file = Empty
      /\ AuthorityValid(file) /\ file.status = "active" => file.spent <= file.max
  BY AuthorityConstants, EarlierReleaseKeptCap DEF Init
<1>2. Liable = {}
  BY DEF Init, Liable
<1>3. FiniteTable(file.res)
  BY <1>1, BudgetConstants, FS_Subset DEF FiniteTable, State
<1>4. file.spent \in 0..NonFinite /\ file.spent \in Nat
  BY <1>1, BudgetConstants DEF State, NonFinite
<1>5. TypeOK
  <2>1. NoRequest \in Request
    BY BudgetConstants DEF NoRequest, Request, NonFinite
  <2>2. charged \in Reservations
    BY NoReservationTotal DEF Init, FiniteTable
  <2>3. overrun \in Nat
    BY <1>1, <1>3, ExcessFacts DEF Init
  <2>4. QED
    BY <1>1, <1>4, <2>1, <2>2, <2>3 DEF Init, TypeOK, Phase
<1>6. Tables
  BY <1>3, NoReservationTotal DEF Init, Tables
<1>7. ChargedCallers
  BY NoReservationTotal DEF Init, ChargedCallers
<1>8. Unopened /\ HoldersValid
  BY <1>1, <1>2 DEF Init, Unopened, HoldersValid
<1>9. ReservationsMatchCallers
  BY <1>1, <1>2, BudgetConstants DEF ReservationsMatchCallers
<1>10. SpentIsAccounted
  BY <1>4, NoReservationTotal DEF Init, SpentIsAccounted
<1>11. ActiveWithinMax
  BY <1>1 DEF ActiveWithinMax
<1>12. ExposureBounded
  BY <1>1, <1>3, ExcessFacts DEF Init, ExposureBounded
<1>13. ImportedIsKept
  BY <1>1 DEF ImportedIsKept
<1>14. QED
  BY <1>5, <1>6, <1>7, <1>8, <1>9, <1>10, <1>11, <1>12, <1>13 DEF IInv

\* A step that touches no amount and nobody's standing keeps the invariant.
LEMMA QuietStep ==
    ASSUME IInv, TypeOK', UNCHANGED <<file, charged, inherited, overrun>>,
           Liable' = Liable,
           \A c \in Calls : /\ phase'[c] = "settled" <=> phase[c] = "settled"
                            /\ phase'[c] = "unreported" <=> phase[c] = "unreported",
           \A c \in Liable : request'[c] = request[c]
    PROVE  IInv'
<1>1. Tables' /\ Unopened' /\ SpentIsAccounted' /\ ExposureBounded' /\ ImportedIsKept'
  BY DEF IInv, Tables, Unopened, SpentIsAccounted, ExposureBounded, ImportedIsKept
<1>2. ChargedCallers'
  BY DEF IInv, ChargedCallers
<1>3. HoldersValid' /\ ReservationsMatchCallers'
  BY DEF IInv, HoldersValid, ReservationsMatchCallers
<1>4. ActiveWithinMax'
  BY DEF IInv, ActiveWithinMax
<1>5. QED
  BY <1>1, <1>2, <1>3, <1>4 DEF IInv

\* Reading the legacy files decides nothing yet.
LEMMA ScanStep ==
    ASSUME IInv, NEW c \in Calls, NEW req \in Requests, ScanLegacy(c, req)
    PROVE  IInv'
<1>1. TypeOK
  BY DEF IInv
<1>2. Found \in SUBSET (LegacyStates \cup {Unreadable}) /\ req \in Request
  BY <1>1, AuthorityConstants DEF TypeOK, Found
<1>3. TypeOK'
  BY <1>1, <1>2 DEF TypeOK, ScanLegacy, Phase
<1>4. Liable' = Liable /\ c \notin Liable
  BY <1>1 DEF TypeOK, ScanLegacy, Liable
<1>5. QED
  BY <1>1, <1>3, <1>4, QuietStep DEF TypeOK, ScanLegacy, Liable

\* A reserve that fails to read or write the file leaves it alone.
LEMMA ReserveFailsStep ==
    ASSUME IInv, NEW c \in Calls, ReserveFails(c)
    PROVE  IInv'
<1>1. TypeOK
  BY DEF IInv
<1>2. TypeOK'
  BY <1>1 DEF TypeOK, ReserveFails, Phase
<1>3. Liable' = Liable
  BY <1>1 DEF TypeOK, ReserveFails, Liable
<1>4. QED
  BY <1>1, <1>2, <1>3, QuietStep DEF TypeOK, ReserveFails

\* So does a settlement that fails: its reservation is still there.
LEMMA SettleFailsStep ==
    ASSUME IInv, NEW c \in Calls, SettleFails(c)
    PROVE  IInv'
<1>1. TypeOK
  BY DEF IInv
<1>2. TypeOK'
  BY <1>1 DEF TypeOK, SettleFails, Phase
<1>3. Liable' = Liable
  BY <1>1 DEF TypeOK, SettleFails, Liable
<1>4. QED
  BY <1>1, <1>2, <1>3, QuietStep DEF TypeOK, SettleFails

\* An earlier release writes its own file only.
LEMMA LegacyStep ==
    ASSUME IInv, NEW d \in LegacyDirs, LegacyChanges(d)
    PROVE  IInv'
<1>1. TypeOK
  BY DEF IInv
<1>2. TypeOK'
  BY <1>1 DEF TypeOK, LegacyChanges
<1>3. Liable' = Liable
  BY DEF LegacyChanges, Liable
<1>4. QED
  BY <1>2, <1>3, QuietStep DEF LegacyChanges

\* A granted reserve: the new entry fits under the maximum with all the others.
LEMMA ReserveStep ==
    ASSUME IInv, NEW c \in Calls, Reserve(c)
    PROVE  IInv'
<1> DEFINE o == Opened(file, seen[c], request[c])
<1>1. /\ TypeOK /\ Tables /\ ChargedCallers /\ Unopened /\ HoldersValid
      /\ ReservationsMatchCallers /\ SpentIsAccounted
      /\ ActiveWithinMax /\ ExposureBounded /\ ImportedIsKept
  BY DEF IInv
<1>2. /\ file \in State /\ seen[c] \in SUBSET (LegacyStates \cup {Unreadable})
      /\ request[c] \in Request /\ FiniteTable(file.res) /\ FiniteTable(charged)
      /\ ~Established(file) => file = Empty
  BY <1>1 DEF TypeOK, Tables, Unopened
<1>3. /\ phase[c] = "scanned" /\ Granted(file, seen[c], request[c])
      /\ file' = AfterReserve(file, seen[c], c, request[c])
      /\ phase' = [phase EXCEPT ![c] = "held"]
      /\ inherited' = IF Established(file) THEN inherited ELSE o.spent
      /\ overrun' = IF Established(file) THEN overrun ELSE Excess(o)
      /\ UNCHANGED <<legacy, seen, request, charged>>
  BY DEF Reserve, Inherit
<1>4. c \notin Liable /\ c \notin DOMAIN file.res
  <2>1. c \notin Liable
    BY <1>3 DEF Liable
  <2>2. QED
    BY <2>1, <1>1 DEF ReservationsMatchCallers
<1>5. /\ c \notin DOMAIN o.res /\ request[c].reserved \in Amount
      /\ file' \in State /\ Established(file') /\ FiniteTable(file'.res)
      /\ file'.max = o.max /\ file'.spent = o.spent /\ file'.source = o.source
      /\ file'.status = "active" /\ o.status = "active"
      /\ file'.res = With(o.res, c, request[c].reserved)
      /\ file'.max \in 1..FloatMax /\ file'.spent \in Amount
      /\ Total(file'.res) = Total(o.res) + request[c].reserved
      /\ Total(o.res) \in Nat
      /\ file'.spent + Total(file'.res) <= file'.max
  BY <1>2, <1>3, <1>4, GrantedFacts
<1>6. /\ o \in State /\ FiniteTable(o.res)
      /\ Established(file) => o = file
      /\ ~Established(file) =>
            \/ /\ o.source \in LegacyStates
               /\ o.max = o.source.max /\ o.spent = o.source.spent
               /\ o.status = o.source.status /\ o.res = o.source.res
            \/ o.source = NoSource /\ o.res = NoReservation
  BY <1>2, <1>3, OpenedFacts DEF Granted
<1>7. TypeOK'
  <2>1. overrun' \in Nat /\ inherited' \in 0..NonFinite
    BY <1>1, <1>3, <1>6, ExcessFacts DEF TypeOK, State
  <2>2. QED
    BY <1>1, <1>3, <1>5, <2>1 DEF TypeOK, Phase
<1>8. Liable' = Liable \cup {c}
  BY <1>1, <1>3 DEF TypeOK, Liable
<1>9. Tables'
  BY <1>2, <1>3, <1>5 DEF Tables
<1>10. ChargedCallers'
  BY <1>1, <1>3 DEF ChargedCallers, TypeOK
<1>11. Unopened'
  BY <1>5 DEF Unopened
<1>12. AuthorityValid(file')
  <2>1. Total(file'.res) \in Nat /\ Total(file'.res) <= FloatMax
    BY <1>5, TotalType, BudgetConstants DEF Amount
  <2>2. QED
    BY <2>1, <1>5 DEF AuthorityValid, IsPositive, IsFinite
<1>13. HoldersValid'
  BY <1>1, <1>3, <1>5, <1>8, <1>12 DEF HoldersValid
<1>14. ReservationsMatchCallers'
  <2>1. DOMAIN o.res \cap Calls = Liable /\ \A d \in Liable : o.res[d] = request[d].reserved
    <3>1. CASE Established(file)
      BY <3>1, <1>1, <1>6 DEF ReservationsMatchCallers
    <3>2. CASE ~Established(file)
      <4>1. Liable = {}
        BY <3>2, <1>1 DEF Unopened
      <4>2. DOMAIN o.res \cap Calls = {}
        BY <3>2, <1>6, BudgetConstants, NoReservationTotal
      <4>3. QED
        BY <4>1, <4>2
    <3>3. QED
      BY <3>1, <3>2
  <2>2. DOMAIN file'.res = DOMAIN o.res \cup {c}
    BY <1>5 DEF With
  <2>3. file'.res[c] = request[c].reserved /\ \A d \in DOMAIN o.res : file'.res[d] = o.res[d]
    BY <1>5 DEF With
  <2>4. QED
    BY <1>3, <1>8, <2>1, <2>2, <2>3 DEF ReservationsMatchCallers
<1>15. SpentIsAccounted'
  <2>1. CASE Established(file)
    BY <2>1, <1>1, <1>3, <1>5, <1>6 DEF SpentIsAccounted
  <2>2. CASE ~Established(file)
    <3>1. Total(charged') = 0
      BY <2>2, <1>1, <1>3, NoReservationTotal DEF Unopened
    <3>2. inherited' = file'.spent /\ inherited' \in Int
      BY <2>2, <1>3, <1>5, BudgetConstants DEF Amount
    <3>3. QED
      BY <3>1, <3>2 DEF SpentIsAccounted
  <2>3. QED
    BY <2>1, <2>2
<1>16. ActiveWithinMax'
  <2>1. Total(file'.res) \in Nat
    BY <1>5, TotalType
  <2>2. file'.spent <= file'.max
    BY <1>5, <2>1, BudgetConstants DEF Amount
  <2>3. QED
    BY <2>2 DEF ActiveWithinMax
<1>17. ExposureBounded'
  <2>1. Total(file'.res) \in Nat /\ overrun' \in Nat
    BY <1>5, <1>7, TotalType DEF TypeOK
  <2>2. Exposure(file') <= file'.max + overrun'
    BY <1>5, <2>1, BudgetConstants DEF Amount, Exposure
  <2>3. QED
    BY <2>2 DEF ExposureBounded
<1>18. ImportedIsKept'
  <2>1. \A i \in DOMAIN o.res : i \in DOMAIN file'.res /\ file'.res[i] = o.res[i]
    BY <1>5 DEF With
  <2>2. CASE Established(file)
    BY <2>1, <2>2, <1>1, <1>5, <1>6 DEF ImportedIsKept
  <2>3. CASE ~Established(file)
    BY <2>1, <2>3, <1>5, <1>6, BudgetConstants DEF ImportedIsKept, Amount
  <2>4. QED
    BY <2>2, <2>3
<1>19. QED
  BY <1>7, <1>9, <1>10, <1>11, <1>13, <1>14, <1>15, <1>16, <1>17, <1>18 DEF IInv

\* A refused reserve: whatever it leaves in an established file, no amount of it
\* changes; an empty one may now hold an import or a fresh workflow.
LEMMA ReserveBlockedStep ==
    ASSUME IInv, NEW c \in Calls, ReserveBlocked(c)
    PROVE  IInv'
<1>1. /\ TypeOK /\ Tables /\ ChargedCallers /\ Unopened /\ HoldersValid
      /\ ReservationsMatchCallers /\ SpentIsAccounted
      /\ ActiveWithinMax /\ ExposureBounded /\ ImportedIsKept
  BY DEF IInv
<1>2. /\ file \in State /\ seen[c] \in SUBSET (LegacyStates \cup {Unreadable})
      /\ request[c] \in Request /\ FiniteTable(file.res) /\ FiniteTable(charged)
      /\ ~Established(file) => file = Empty
  BY <1>1 DEF TypeOK, Tables, Unopened
<1>3. /\ phase[c] = "scanned" /\ ~Granted(file, seen[c], request[c])
      /\ file' = AfterReserve(file, seen[c], c, request[c])
      /\ phase' = [phase EXCEPT ![c] = "blocked"]
      /\ inherited' = IF Established(file) THEN inherited ELSE file'.spent
      /\ overrun' = IF Established(file) THEN overrun ELSE Excess(file')
      /\ UNCHANGED <<legacy, seen, request, charged>>
  BY DEF ReserveBlocked, Inherit
<1>4. /\ file' \in State /\ FiniteTable(file'.res)
      /\ Established(file) =>
            /\ Established(file') /\ file'.max = file.max /\ file'.spent = file.spent
            /\ file'.res = file.res /\ file'.status = file.status
            /\ file'.source = file.source
      /\ ~Established(file) =>
            \/ file' = file
            \/ /\ Established(file') /\ file'.source \in LegacyStates
               /\ file'.max = file'.source.max /\ file'.spent = file'.source.spent
               /\ file'.status = file'.source.status /\ file'.res = file'.source.res
            \/ /\ Established(file') /\ file'.source = NoSource
               /\ file'.spent = 0 /\ file'.res = NoReservation
  BY <1>2, <1>3, BlockedFacts
<1>5. TypeOK'
  <2>1. overrun' \in Nat /\ inherited' \in 0..NonFinite
    BY <1>1, <1>3, <1>4, ExcessFacts DEF TypeOK, State
  <2>2. QED
    BY <1>1, <1>3, <1>4, <2>1 DEF TypeOK, Phase
<1>6. Liable' = Liable
  BY <1>1, <1>3 DEF TypeOK, Liable
<1>7. Tables' /\ ChargedCallers'
  BY <1>1, <1>3, <1>4 DEF Tables, ChargedCallers, TypeOK
<1>8. CASE Established(file)
  <2>1. AuthorityValid(file') <=> AuthorityValid(file)
    BY <1>4, <1>8 DEF AuthorityValid
  <2>2. Unopened' /\ HoldersValid' /\ ReservationsMatchCallers'
    BY <1>1, <1>3, <1>4, <1>6, <1>8, <2>1 DEF Unopened, HoldersValid, ReservationsMatchCallers
  <2>3. SpentIsAccounted' /\ ExposureBounded'
    BY <1>1, <1>3, <1>4, <1>8, <2>1 DEF SpentIsAccounted, ExposureBounded, Exposure
  <2>4. ActiveWithinMax'
    <3>1. ASSUME NEW d \in Calls, phase[d] = "unreported" PROVE phase'[d] = "unreported"
      BY <1>1, <1>3, <3>1 DEF TypeOK
    <3>2. QED
      BY <1>1, <1>4, <1>8, <2>1, <3>1 DEF ActiveWithinMax
  <2>5. ImportedIsKept'
    BY <1>1, <1>4, <1>8 DEF ImportedIsKept
  <2>6. QED
    BY <1>5, <1>7, <2>2, <2>3, <2>4, <2>5 DEF IInv
<1>9. CASE ~Established(file)
  <2>1. file = Empty /\ Liable = {} /\ charged' = NoReservation /\ Total(charged') = 0
    BY <1>1, <1>3, <1>9, NoReservationTotal DEF Unopened
  <2>2. DOMAIN file'.res \cap Calls = {}
    BY <1>4, <1>9, <2>1, BudgetConstants, NoReservationTotal, EmptyFacts
  <2>3. Unopened' /\ HoldersValid' /\ ReservationsMatchCallers'
    BY <1>4, <1>6, <1>9, <2>1, <2>2 DEF Unopened, HoldersValid, ReservationsMatchCallers
  <2>4. SpentIsAccounted'
    <3>1. file'.spent \in Int
      BY <1>4, BudgetConstants DEF State, NonFinite
    <3>2. QED
      BY <1>3, <1>9, <2>1, <3>1 DEF SpentIsAccounted
  <2>5. ExposureBounded'
    BY <1>3, <1>4, <1>9, ExcessFacts DEF ExposureBounded
  <2>6. ActiveWithinMax'
    <3>1. CASE file' = file
      BY <2>1, <3>1, EmptyFacts DEF ActiveWithinMax
    <3>2. CASE file'.source \in LegacyStates /\ file'.max = file'.source.max
               /\ file'.spent = file'.source.spent /\ file'.status = file'.source.status
      BY <3>2, EarlierReleaseKeptCap DEF ActiveWithinMax
    <3>3. CASE file'.spent = 0
      BY <3>3, BudgetConstants DEF ActiveWithinMax, AuthorityValid, IsPositive
    <3>4. QED
      BY <1>4, <1>9, <3>1, <3>2, <3>3
  <2>7. ImportedIsKept'
    <3>1. file'.spent \in Int
      BY <1>4, BudgetConstants DEF State, NonFinite
    <3>2. QED
      BY <1>4, <1>9, <2>1, <3>1, EmptyFacts DEF ImportedIsKept
  <2>8. QED
    BY <1>5, <1>7, <2>3, <2>4, <2>5, <2>6, <2>7 DEF IInv
<1>10. QED
  BY <1>8, <1>9

\* What a caller that still holds its reservation finds in the file.
LEMMA HolderFacts ==
    ASSUME IInv, NEW c \in Liable
    PROVE  /\ c \in Calls /\ file \in State /\ FiniteTable(file.res)
           /\ Established(file) /\ AuthorityValid(file)
           /\ c \in DOMAIN file.res /\ file.res[c] = request[c].reserved
           /\ request[c].reserved \in Amount
           /\ Total(file.res) \in Nat /\ Total(Without(file.res, c)) \in Nat
           /\ Total(file.res) = Total(Without(file.res, c)) + request[c].reserved
<1>1. c \in Calls
  BY DEF Liable
<1>2. /\ file \in State /\ FiniteTable(file.res) /\ Established(file) /\ AuthorityValid(file)
      /\ c \in DOMAIN file.res /\ file.res[c] = request[c].reserved
      /\ request[c].reserved \in Amount
  BY <1>1 DEF IInv, TypeOK, Tables, Unopened, HoldersValid, ReservationsMatchCallers
<1>3. QED
  BY <1>1, <1>2, TotalWithout, TotalType

\* The table without one holder still matches the other callers.
LEMMA RemoveHolder ==
    ASSUME IInv, NEW c \in Liable,
           UNCHANGED request, Liable' = Liable \ {c},
           file'.res = Without(file.res, c)
    PROVE  ReservationsMatchCallers'
<1>1. /\ DOMAIN Without(file.res, c) = DOMAIN file.res \ {c}
      /\ \A i \in DOMAIN file.res \ {c} : Without(file.res, c)[i] = file.res[i]
  BY HolderFacts, TotalWithout
<1>2. ReservationsMatchCallers
  BY DEF IInv
<1>3. QED
  BY <1>1, <1>2 DEF ReservationsMatchCallers

\* Removing a holder keeps the imported reservations.
LEMMA RemoveKeepsImported ==
    ASSUME IInv, NEW c \in Liable,
           file'.res = Without(file.res, c), file'.source = file.source,
           file'.max = file.max, file'.spent >= file.spent, file'.spent \in Int,
           file.status = "stopped" => file'.status = "stopped"
    PROVE  ImportedIsKept'
<1>1. /\ DOMAIN Without(file.res, c) = DOMAIN file.res \ {c}
      /\ \A i \in DOMAIN file.res \ {c} : Without(file.res, c)[i] = file.res[i]
  BY HolderFacts, TotalWithout
<1>2. ImportedIsKept /\ file \in State /\ c \in Calls
  BY HolderFacts DEF IInv
<1>3. \A l \in LegacyStates : c \notin DOMAIN l.res /\ l.spent \in Int
  BY <1>2, BudgetConstants DEF LegacyContent, Amount
<1>4. file.source # NoSource => file.source \in LegacyStates
  BY <1>2 DEF State
<1>5. file.spent \in Int
  BY <1>2, BudgetConstants DEF State, NonFinite
<1>6. QED
  BY <1>1, <1>2, <1>3, <1>4, <1>5 DEF ImportedIsKept

\* A release gives back exactly what was reserved.
LEMMA ReleaseStep ==
    ASSUME IInv, NEW c \in Calls, Release(c)
    PROVE  IInv'
<1>1. /\ TypeOK /\ Tables /\ ChargedCallers /\ Unopened /\ HoldersValid
      /\ SpentIsAccounted /\ ActiveWithinMax /\ ExposureBounded
  BY DEF IInv
<1>2. /\ phase[c] \in {"held", "refused"} /\ file' = AfterRelease(file, c)
      /\ phase' = [phase EXCEPT ![c] = "released"]
      /\ UNCHANGED <<legacy, seen, request, charged, inherited, overrun>>
  BY DEF Release
<1>3. c \in Liable /\ Liable' = Liable \ {c}
  BY <1>1, <1>2 DEF Liable, TypeOK
<1>4. /\ file \in State /\ FiniteTable(file.res) /\ Established(file) /\ AuthorityValid(file)
      /\ request[c].reserved \in Amount
      /\ Total(Without(file.res, c)) \in Nat
      /\ Total(file.res) = Total(Without(file.res, c)) + request[c].reserved
  BY <1>3, HolderFacts
<1>5. /\ file' \in State /\ FiniteTable(file'.res)
      /\ Established(file') <=> Established(file)
      /\ file'.max = file.max /\ file'.spent = file.spent
      /\ file'.status = file.status /\ file'.source = file.source
      /\ file'.res = Without(file.res, c)
  BY <1>2, <1>4, ReleaseFacts
<1>6. TypeOK' /\ Tables' /\ ChargedCallers' /\ Unopened'
  BY <1>1, <1>2, <1>4, <1>5 DEF TypeOK, Phase, Tables, ChargedCallers, Unopened
<1>7. AuthorityValid(file')
  BY <1>4, <1>5, BudgetConstants DEF AuthorityValid, Amount
<1>8. HoldersValid'
  BY <1>1, <1>2, <1>3, <1>7 DEF HoldersValid
<1>9. ReservationsMatchCallers'
  BY <1>2, <1>3, <1>5, RemoveHolder
<1>10. SpentIsAccounted'
  BY <1>1, <1>2, <1>5 DEF SpentIsAccounted
<1>11. ActiveWithinMax'
  <2>1. ASSUME NEW d \in Calls, phase[d] = "unreported" PROVE phase'[d] = "unreported"
    BY <1>1, <1>2, <2>1 DEF TypeOK
  <2>2. QED
    BY <1>1, <1>4, <1>5, <2>1 DEF ActiveWithinMax
<1>12. ExposureBounded'
  <2>1. /\ file.spent \in Int /\ file.max \in Int /\ overrun \in Nat
        /\ request[c].reserved \in Nat
    BY <1>1, <1>4, BudgetConstants DEF State, NonFinite, Amount, TypeOK
  <2>2. Exposure(file) <= file.max + overrun
    BY <1>1, <1>4 DEF ExposureBounded
  <2>3. Exposure(file') <= file'.max + overrun'
    BY <1>2, <1>4, <1>5, <2>1, <2>2 DEF Exposure
  <2>4. QED
    BY <2>3 DEF ExposureBounded
<1>13. ImportedIsKept'
  <2>1. file.spent \in Int
    BY <1>4, BudgetConstants DEF State, NonFinite
  <2>2. QED
    BY <1>3, <1>5, <2>1, RemoveKeepsImported
<1>14. QED
  BY <1>6, <1>8, <1>9, <1>10, <1>11, <1>12, <1>13 DEF IInv

\* What a settlement and an unreported settlement have in common: the entry is
\* replaced by the cost, and the cost may exceed the entry by what overrun gains.
LEMMA ChargeStep ==
    ASSUME IInv, NEW c \in Calls, NEW cost \in Costs, NEW standing \in {"settled", "unreported"},
           phase[c] = "held", ~SettleRaises(file, cost),
           phase' = [phase EXCEPT ![c] = standing],
           charged' = With(charged, c, cost),
           overrun' = IF cost > request[c].reserved
                      THEN overrun + (cost - request[c].reserved) ELSE overrun,
           UNCHANGED <<legacy, seen, request, inherited>>,
           file' \in State, Established(file') <=> Established(file),
           file'.max = file.max, file'.source = file.source,
           file'.res = Without(file.res, c), file'.spent = file.spent + cost,
           file.status = "stopped" => file'.status = "stopped",
           file'.status = "active" => file'.spent <= file'.max \/ standing = "unreported"
    PROVE  IInv'
<1>1. /\ TypeOK /\ Tables /\ ChargedCallers /\ Unopened /\ HoldersValid
      /\ SpentIsAccounted /\ ExposureBounded
  BY DEF IInv
<1>2. c \in Liable /\ Liable' = Liable \ {c}
  BY <1>1 DEF Liable, TypeOK
<1>3. /\ file \in State /\ FiniteTable(file.res) /\ Established(file) /\ AuthorityValid(file)
      /\ request[c].reserved \in Amount
      /\ Total(Without(file.res, c)) \in Nat
      /\ Total(file.res) = Total(Without(file.res, c)) + request[c].reserved
  BY <1>2, HolderFacts
<1>4. /\ cost \in Amount /\ file.spent \in Amount /\ file.spent + cost \in Amount
      /\ file.max \in 1..FloatMax /\ FiniteTable(Without(file.res, c))
  <2>1. FiniteTable(Without(file.res, c))
    BY <1>3, TotalWithout
  <2>2. cost \in Amount /\ file.spent \in Amount /\ file.max \in 1..FloatMax
    BY <1>3 DEF SettleRaises, SettleInvalid, AuthorityValid, IsFinite, IsPositive
  <2>3. file.spent + cost \in Amount
    BY <2>2, BudgetConstants DEF SettleRaises, SettleOverflows, Amount
  <2>4. QED
    BY <2>1, <2>2, <2>3
<1>5. /\ cost \in Nat /\ file.spent \in Nat /\ file.max \in Nat /\ overrun \in Nat
      /\ request[c].reserved \in Nat
  BY <1>1, <1>3, <1>4, BudgetConstants DEF Amount, TypeOK
<1>6. /\ c \notin DOMAIN charged /\ FiniteTable(charged)
      /\ FiniteTable(With(charged, c, cost))
      /\ Total(With(charged, c, cost)) = Total(charged) + cost
      /\ Total(charged) \in Nat
  BY <1>1, <1>4, TotalWith, TotalType DEF ChargedCallers, Tables, Ids
<1>7. TypeOK'
  <2>1. overrun' \in Nat
    BY <1>5
  <2>2. charged' \in Reservations
    BY <1>6 DEF FiniteTable
  <2>3. phase' \in [Calls -> Phase]
    BY <1>1 DEF TypeOK, Phase
  <2>4. QED
    BY <1>1, <2>1, <2>2, <2>3 DEF TypeOK
<1>8. Tables' /\ Unopened'
  BY <1>3, <1>4, <1>6 DEF Tables, Unopened
<1>9. ChargedCallers'
  <2>1. DOMAIN charged' = DOMAIN charged \cup {c}
    BY DEF With
  <2>2. QED
    BY <1>1, <2>1 DEF ChargedCallers, TypeOK
<1>10. AuthorityValid(file')
  <2>1. Total(file'.res) <= FloatMax
    BY <1>3, <1>5, BudgetConstants DEF AuthorityValid
  <2>2. QED
    BY <1>4, <2>1 DEF AuthorityValid, IsPositive, IsFinite
<1>11. HoldersValid'
  BY <1>1, <1>2, <1>10 DEF HoldersValid
<1>12. ReservationsMatchCallers'
  BY <1>2, RemoveHolder
<1>13. SpentIsAccounted'
  <2>1. inherited \in Int
    BY <1>1, BudgetConstants DEF TypeOK, NonFinite
  <2>2. QED
    BY <1>1, <1>5, <1>6, <2>1 DEF SpentIsAccounted
<1>14. ActiveWithinMax'
  <2>1. phase'[c] = standing
    BY <1>1 DEF TypeOK
  <2>2. QED
    BY <2>1 DEF ActiveWithinMax
<1>15. ExposureBounded'
  <2>1. file.spent + Total(file.res) <= file.max + overrun
    BY <1>1, <1>3 DEF ExposureBounded, Exposure
  <2>2. Exposure(file') <= file'.max + overrun'
    BY <1>3, <1>5, <2>1 DEF Exposure
  <2>3. QED
    BY <2>2 DEF ExposureBounded
<1>16. ImportedIsKept'
  BY <1>2, <1>5, RemoveKeepsImported
<1>17. QED
  BY <1>7, <1>8, <1>9, <1>11, <1>12, <1>13, <1>14, <1>15, <1>16 DEF IInv

\* A settlement stops the workflow when it passes the maximum.
LEMMA SettleStep ==
    ASSUME IInv, NEW c \in Calls, NEW cost \in Costs, Settle(c, cost)
    PROVE  IInv'
<1>1. c \in Liable
  BY DEF Settle, Liable
<1>2. file \in State /\ FiniteTable(file.res)
  BY <1>1, HolderFacts
<1>3. /\ file' \in State
      /\ Established(file') <=> Established(file)
      /\ file'.max = file.max /\ file'.source = file.source
      /\ file'.res = Without(file.res, c) /\ file'.spent = file.spent + cost
      /\ file.status = "stopped" => file'.status = "stopped"
      /\ file'.status = "active" => file'.spent <= file'.max
  BY <1>2, SettleFacts DEF Settle
<1>4. QED
  BY <1>3, ChargeStep DEF Settle

\* An unreported one leaves the status as it was.
LEMMA SettleUnreportedStep ==
    ASSUME IInv, NEW c \in Calls, NEW cost \in Costs, SettleUnreported(c, cost)
    PROVE  IInv'
<1>1. c \in Liable
  BY DEF SettleUnreported, Liable
<1>2. file \in State /\ FiniteTable(file.res)
  BY <1>1, HolderFacts
<1>3. /\ Without(file.res, c) \in Reservations
      /\ file.spent + cost \in 0..NonFinite
  <2>1. FiniteTable(Without(file.res, c)) /\ file.spent + cost \in Amount
    BY <1>2, SettleFacts, TotalWithout DEF SettleUnreported
  <2>2. QED
    BY <2>1, BudgetConstants DEF FiniteTable, Amount, NonFinite
<1>4. /\ file' \in State
      /\ Established(file') <=> Established(file)
      /\ file'.max = file.max /\ file'.source = file.source
      /\ file'.res = Without(file.res, c) /\ file'.spent = file.spent + cost
      /\ file'.status = file.status
  BY <1>2, <1>3 DEF SettleUnreported, Charged, State, Established
<1>5. QED
  BY <1>4, ChargeStep DEF SettleUnreported

\* A settlement that raises keeps the reservation as a liability.
LEMMA SettleRefusedStep ==
    ASSUME IInv, NEW c \in Calls, NEW cost \in Costs, SettleRefused(c, cost)
    PROVE  IInv'
<1>1. /\ TypeOK /\ Tables /\ ChargedCallers /\ Unopened /\ HoldersValid
      /\ ReservationsMatchCallers /\ SpentIsAccounted
      /\ ActiveWithinMax /\ ExposureBounded /\ ImportedIsKept
  BY DEF IInv
<1>2. c \in Liable /\ Liable' = Liable
  BY <1>1 DEF Liable, TypeOK, SettleRefused
<1>3. file \in State /\ Established(file)
  BY <1>2, HolderFacts
<1>4. /\ file' \in State
      /\ Established(file') <=> Established(file)
      /\ file'.max = file.max /\ file'.spent = file.spent
      /\ file'.source = file.source /\ file'.res = file.res
      /\ file'.status \in {file.status, "stopped"}
  BY <1>3, RefusedFacts DEF SettleRefused
<1>5. AuthorityValid(file') <=> AuthorityValid(file)
  BY <1>4 DEF AuthorityValid
<1>6. TypeOK' /\ Tables' /\ Unopened' /\ ChargedCallers'
  BY <1>1, <1>3, <1>4 DEF TypeOK, Phase, Tables, Unopened, ChargedCallers, SettleRefused
<1>7. HoldersValid' /\ ReservationsMatchCallers'
  BY <1>1, <1>2, <1>4, <1>5 DEF HoldersValid, ReservationsMatchCallers, SettleRefused
<1>8. SpentIsAccounted' /\ ExposureBounded'
  BY <1>1, <1>4, <1>5 DEF SpentIsAccounted, ExposureBounded, Exposure, SettleRefused
<1>9. ActiveWithinMax'
  <2>1. ASSUME NEW d \in Calls, phase[d] = "unreported" PROVE phase'[d] = "unreported"
    BY <1>1, <2>1 DEF TypeOK, SettleRefused
  <2>2. QED
    BY <1>1, <1>4, <1>5, <2>1 DEF ActiveWithinMax
<1>10. ImportedIsKept'
  BY <1>1, <1>4 DEF ImportedIsKept
<1>11. QED
  BY <1>6, <1>7, <1>8, <1>9, <1>10 DEF IInv

-----------------------------------------------------------------------------
(* The theorems *)

\* Every step of every caller, and of an earlier release, keeps the invariant.
LEMMA NextIInv == IInv /\ [Next]_vars => IInv'
<1> SUFFICES ASSUME IInv, [Next]_vars PROVE IInv'
  OBVIOUS
<1>1. ASSUME NEW c \in Calls, CallerStep(c) PROVE IInv'
  <2>1. CASE \E req \in Requests : ScanLegacy(c, req)
    BY <2>1, ScanStep
  <2>2. CASE Reserve(c)
    BY <2>2, ReserveStep
  <2>3. CASE ReserveBlocked(c)
    BY <2>3, ReserveBlockedStep
  <2>4. CASE ReserveFails(c)
    BY <2>4, ReserveFailsStep
  <2>5. CASE \E cost \in Costs :
               Settle(c, cost) \/ SettleUnreported(c, cost) \/ SettleRefused(c, cost)
    BY <2>5, SettleStep, SettleUnreportedStep, SettleRefusedStep
  <2>6. CASE SettleFails(c)
    BY <2>6, SettleFailsStep
  <2>7. CASE Release(c)
    BY <2>7, ReleaseStep
  <2>8. QED
    BY <1>1, <2>1, <2>2, <2>3, <2>4, <2>5, <2>6, <2>7 DEF CallerStep
<1>2. CASE \E d \in LegacyDirs : LegacyChanges(d)
  BY <1>2, LegacyStep
<1>3. CASE UNCHANGED vars
  <2>1. TypeOK' /\ Liable' = Liable
    BY <1>3 DEF IInv, TypeOK, vars, Liable
  <2>2. QED
    BY <1>3, <2>1, QuietStep DEF vars
<1>4. QED
  BY <1>1, <1>2, <1>3 DEF Next

\* The invariant holds in every reachable state.
THEOREM Invariance == Spec => []IInv
BY InitIInv, NextIInv, PTL DEF Spec

\* The state files, the legacy files and the callers keep their types.
THEOREM TypeCorrect == Spec => []TypeOK
<1>1. IInv => TypeOK
  BY DEF IInv
<1>2. QED
  BY <1>1, Invariance, PTL

\* No reservation is lost to another caller's write or outlives its settlement.
THEOREM ReservationsKept == Spec => []ReservationsMatchCallers
<1>1. IInv => ReservationsMatchCallers
  BY DEF IInv
<1>2. QED
  BY <1>1, Invariance, PTL

\* Every settled cost is in the recorded spend exactly once.
THEOREM SpentAccounted == Spec => []SpentIsAccounted
<1>1. IInv => SpentIsAccounted
  BY DEF IInv
<1>2. QED
  BY <1>1, Invariance, PTL

\* Spend plus liabilities passes the maximum only by what settlements overran.
THEOREM ExposureIsBounded == Spec => []ExposureBounded
<1>1. IInv => ExposureBounded
  BY DEF IInv
<1>2. QED
  BY <1>1, Invariance, PTL

\* An active workflow is within its maximum.
THEOREM ActiveIsWithinMax == Spec => []ActiveWithinMax
<1>1. IInv => ActiveWithinMax
  BY DEF IInv
<1>2. QED
  BY <1>1, Invariance, PTL

\* What was imported from an earlier release is never undone.
THEOREM ImportKept == Spec => []ImportedIsKept
<1>1. IInv => ImportedIsKept
  BY DEF IInv
<1>2. QED
  BY <1>1, Invariance, PTL

-----------------------------------------------------------------------------
(* Action properties.  Each kind of step is summed up once, by what it does  *)
(* to the fields of the file and to the set of admitted calls.               *)

\* A granted reserve, seen from outside.
LEMMA ReserveEffect ==
    ASSUME IInv, NEW c \in Calls, Reserve(c)
    PROVE  /\ file.status = "active" /\ file'.status = "active" /\ Established(file')
           /\ seen[c] \subseteq {file'.source}
           /\ Established(file) =>
                 /\ file'.max = file.max /\ file'.spent = file.spent
                 /\ file'.source = file.source
                 /\ Total(file'.res) = Total(file.res) + request[c].reserved
           /\ request[c].reserved \in Amount
           /\ file'.max \in 1..FloatMax /\ file'.spent \in Amount
           /\ Total(file'.res) \in Nat
           /\ file'.spent + Total(file'.res) <= file'.max
           /\ Admitted' = Admitted \cup {c} /\ c \notin Admitted
<1> DEFINE o == Opened(file, seen[c], request[c])
<1>1. TypeOK /\ Tables /\ Unopened /\ ReservationsMatchCallers
  BY DEF IInv
<1>2. /\ file \in State /\ seen[c] \in SUBSET (LegacyStates \cup {Unreadable})
      /\ request[c] \in Request /\ FiniteTable(file.res)
      /\ ~Established(file) => file = Empty
  BY <1>1 DEF TypeOK, Tables, Unopened
<1>3. /\ phase[c] = "scanned" /\ Granted(file, seen[c], request[c])
      /\ file' = AfterReserve(file, seen[c], c, request[c])
      /\ phase' = [phase EXCEPT ![c] = "held"]
  BY DEF Reserve
<1>4. c \notin DOMAIN file.res
  BY <1>1, <1>3 DEF ReservationsMatchCallers, Liable
<1>5. /\ request[c].reserved \in Amount
      /\ file' \in State /\ Established(file') /\ FiniteTable(file'.res)
      /\ file'.max = o.max /\ file'.spent = o.spent /\ file'.source = o.source
      /\ file'.status = "active" /\ o.status = "active"
      /\ file'.max \in 1..FloatMax /\ file'.spent \in Amount
      /\ Total(file'.res) = Total(o.res) + request[c].reserved
      /\ file'.spent + Total(file'.res) <= file'.max
  BY <1>2, <1>3, <1>4, GrantedFacts
<1>6. /\ ~ImportBlocked(file, seen[c])
      /\ Established(file) => o = file
      /\ ~Established(file) =>
            \/ seen[c] \subseteq {o.source}
            \/ seen[c] = {}
  BY <1>2, <1>3, OpenedFacts DEF Granted
<1>7. seen[c] \subseteq {file'.source}
  BY <1>5, <1>6 DEF ImportBlocked
<1>8. file.status = "active"
  BY <1>2, <1>5, <1>6 DEF Empty
<1>9. Admitted' = Admitted \cup {c} /\ c \notin Admitted
  BY <1>1, <1>3 DEF TypeOK, Admitted
<1>10. Total(file'.res) \in Nat
  BY <1>5, TotalType
<1>11. QED
  BY <1>5, <1>6, <1>7, <1>8, <1>9, <1>10

\* A refused reserve, seen from outside.
LEMMA ReserveBlockedEffect ==
    ASSUME IInv, NEW c \in Calls, ReserveBlocked(c)
    PROVE  /\ Established(file) =>
                 /\ Established(file') /\ file'.max = file.max /\ file'.spent = file.spent
                 /\ file'.res = file.res /\ file'.status = file.status
                 /\ file'.source = file.source
           /\ ~Established(file) => file = Empty /\ (file' = file \/ Established(file'))
           /\ phase' = [phase EXCEPT ![c] = "blocked"] /\ phase[c] = "scanned"
           /\ Admitted' = Admitted
<1>1. TypeOK /\ Tables /\ Unopened
  BY DEF IInv
<1>2. /\ file \in State /\ seen[c] \in SUBSET (LegacyStates \cup {Unreadable})
      /\ request[c] \in Request /\ FiniteTable(file.res)
      /\ ~Established(file) => file = Empty
  BY <1>1 DEF TypeOK, Tables, Unopened
<1>3. /\ phase[c] = "scanned" /\ ~Granted(file, seen[c], request[c])
      /\ file' = AfterReserve(file, seen[c], c, request[c])
      /\ phase' = [phase EXCEPT ![c] = "blocked"]
  BY DEF ReserveBlocked
<1>4. Admitted' = Admitted
  BY <1>1, <1>3 DEF TypeOK, Admitted
<1>5. QED
  BY <1>2, <1>3, <1>4, BlockedFacts

\* The three ways to settle and the release: an entry may go, the spend may grow,
\* the workflow may stop.
HolderAct(c) ==
    \/ \E cost \in Costs : Settle(c, cost) \/ SettleUnreported(c, cost) \/ SettleRefused(c, cost)
    \/ Release(c)

\* None of them changes the maximum or the record, lowers the spend or admits.
LEMMA HolderEffect ==
    ASSUME IInv, NEW c \in Calls, HolderAct(c)
    PROVE  /\ Established(file) /\ Established(file')
           /\ file'.max = file.max /\ file'.source = file.source
           /\ file.spent \in Nat /\ file'.spent \in Nat /\ file'.spent >= file.spent
           /\ DOMAIN file'.res \subseteq DOMAIN file.res
           /\ Total(file'.res) \in Nat /\ Total(file'.res) <= Total(file.res)
           /\ file'.status \in {file.status, "stopped"}
           /\ Admitted' = Admitted
           /\ phase'[c] \notin {"scanned", "held"}
           /\ \A d \in Calls \ {c} : phase'[d] = phase[d]
<1>1. TypeOK
  BY DEF IInv
<1>2. c \in Liable
  BY DEF HolderAct, Settle, SettleUnreported, SettleRefused, Release, Liable
<1>3. /\ file \in State /\ FiniteTable(file.res) /\ Established(file)
      /\ request[c].reserved \in Amount
      /\ Total(file.res) \in Nat /\ Total(Without(file.res, c)) \in Nat
      /\ Total(file.res) = Total(Without(file.res, c)) + request[c].reserved
      /\ DOMAIN Without(file.res, c) = DOMAIN file.res \ {c}
  BY <1>2, HolderFacts, TotalWithout
<1>4. file.spent \in Nat /\ request[c].reserved \in Nat
  BY <1>3, BudgetConstants DEF State, NonFinite, Amount
<1>5. \E standing \in {"settled", "unreported", "refused", "released"} :
          phase' = [phase EXCEPT ![c] = standing]
  BY DEF HolderAct, Settle, SettleUnreported, SettleRefused, Release
<1>6. /\ Admitted' = Admitted
      /\ phase'[c] \notin {"scanned", "held"}
      /\ \A d \in Calls \ {c} : phase'[d] = phase[d]
  BY <1>1, <1>2, <1>5 DEF TypeOK, Admitted, Liable
<1>7. ASSUME NEW cost \in Costs, Settle(c, cost) \/ SettleUnreported(c, cost)
      PROVE  /\ Established(file')
             /\ file'.max = file.max /\ file'.source = file.source
             /\ file'.spent = file.spent + cost /\ cost \in Nat
             /\ file'.res = Without(file.res, c)
             /\ file'.status \in {file.status, "stopped"}
  <2>1. cost \in Nat
    BY <1>7, BudgetConstants
       DEF Settle, SettleUnreported, SettleRaises, SettleInvalid, IsFinite, Amount
  <2>2. file' = Charged(file, c, cost) \/ file' = [Charged(file, c, cost) EXCEPT !.status = "stopped"]
             \/ file' = [Charged(file, c, cost) EXCEPT !.status = Charged(file, c, cost).status]
    BY <1>7 DEF Settle, SettleUnreported, SettleRaises, AfterSettle
  <2>3. QED
    BY <1>3, <2>1, <2>2 DEF Charged, State, Established
<1>8. ASSUME NEW cost \in Costs, SettleRefused(c, cost)
      PROVE  /\ Established(file')
             /\ file'.max = file.max /\ file'.source = file.source
             /\ file'.spent = file.spent /\ file'.res = file.res
             /\ file'.status \in {file.status, "stopped"}
  BY <1>3, <1>8, RefusedFacts DEF SettleRefused
<1>9. ASSUME Release(c)
      PROVE  /\ Established(file')
             /\ file'.max = file.max /\ file'.source = file.source
             /\ file'.spent = file.spent /\ file'.res = Without(file.res, c)
             /\ file'.status = file.status
  BY <1>3, <1>9, ReleaseFacts DEF Release
<1>10. QED
  BY <1>3, <1>4, <1>6, <1>7, <1>8, <1>9 DEF HolderAct

\* The remaining steps leave the file alone and admit nobody.
IdleAct ==
    \/ \E c \in Calls : \E req \in Requests : ScanLegacy(c, req)
    \/ \E c \in Calls : ReserveFails(c) \/ SettleFails(c)
    \/ \E d \in LegacyDirs : LegacyChanges(d)
    \/ UNCHANGED vars

\* The steps that leave the file as it is admit nobody.
LEMMA IdleEffect ==
    ASSUME IInv, IdleAct
    PROVE  /\ file' = file /\ Admitted' = Admitted
           /\ \A c \in Calls : ~(phase[c] = "scanned" /\ phase'[c] = "held")
<1>1. TypeOK
  BY DEF IInv
<1>2. CASE \E c \in Calls : \E req \in Requests : ScanLegacy(c, req)
  BY <1>1, <1>2 DEF ScanLegacy, TypeOK, Admitted
<1>3. CASE \E c \in Calls : ReserveFails(c) \/ SettleFails(c)
  BY <1>1, <1>3 DEF ReserveFails, SettleFails, TypeOK, Admitted
<1>4. CASE \E d \in LegacyDirs : LegacyChanges(d)
  BY <1>4 DEF LegacyChanges, Admitted
<1>5. CASE UNCHANGED vars
  BY <1>5 DEF vars, Admitted
<1>6. QED
  BY <1>2, <1>3, <1>4, <1>5 DEF IdleAct

\* Every step is one of the four.
LEMMA StepKinds ==
    ASSUME [Next]_vars
    PROVE  IdleAct \/ \E c \in Calls : Reserve(c) \/ ReserveBlocked(c) \/ HolderAct(c)
BY DEF Next, CallerStep, IdleAct, HolderAct

\* A stop is final, for every caller and every legacy file.
THEOREM StopFinal == Spec => StopIsFinal
<1>1. IInv /\ [Next]_vars => [KeepsStop]_vars
  <2> SUFFICES ASSUME IInv, [Next]_vars PROVE KeepsStop
    OBVIOUS
  <2>1. CASE IdleAct
    BY <2>1, IdleEffect DEF KeepsStop
  <2>2. ASSUME NEW c \in Calls, Reserve(c) PROVE KeepsStop
    BY <2>2, ReserveEffect DEF KeepsStop
  <2>3. ASSUME NEW c \in Calls, ReserveBlocked(c) PROVE KeepsStop
    BY <2>3, ReserveBlockedEffect DEF KeepsStop, Empty
  <2>4. ASSUME NEW c \in Calls, HolderAct(c) PROVE KeepsStop
    BY <2>4, HolderEffect DEF KeepsStop
  <2>5. QED
    BY <2>1, <2>2, <2>3, <2>4, StepKinds
<1>2. QED
  BY <1>1, Invariance, PTL DEF Spec, StopIsFinal

\* The maximum and the migration record are fixed, and the spend only grows.
THEOREM RecordKept == Spec => NothingIsReset
<1>1. IInv /\ [Next]_vars => [KeepsRecord]_vars
  <2> SUFFICES ASSUME IInv, [Next]_vars PROVE KeepsRecord
    OBVIOUS
  <2>0. file.spent \in Int
    BY BudgetConstants DEF IInv, TypeOK, State, NonFinite
  <2>1. CASE IdleAct
    BY <2>0, <2>1, IdleEffect DEF KeepsRecord
  <2>2. ASSUME NEW c \in Calls, Reserve(c) PROVE KeepsRecord
    BY <2>0, <2>2, ReserveEffect DEF KeepsRecord
  <2>3. ASSUME NEW c \in Calls, ReserveBlocked(c) PROVE KeepsRecord
    BY <2>0, <2>3, ReserveBlockedEffect DEF KeepsRecord
  <2>4. ASSUME NEW c \in Calls, HolderAct(c) PROVE KeepsRecord
    BY <2>4, HolderEffect DEF KeepsRecord
  <2>5. QED
    BY <2>1, <2>2, <2>3, <2>4, StepKinds
<1>2. QED
  BY <1>1, Invariance, PTL DEF Spec, NothingIsReset

\* Nobody is admitted beside a legacy file that the authority has not imported.
THEOREM LegacyAgrees == Spec => AdmissionAgreesWithLegacy
<1>1. IInv /\ [Next]_vars => [AdmitsKnownLegacy]_vars
  <2> SUFFICES ASSUME IInv, [Next]_vars PROVE AdmitsKnownLegacy
    OBVIOUS
  <2>0. TypeOK
    BY DEF IInv
  <2>1. CASE IdleAct
    BY <2>1, IdleEffect DEF AdmitsKnownLegacy
  <2>2. ASSUME NEW c \in Calls, Reserve(c) PROVE AdmitsKnownLegacy
    <3>1. seen[c] \subseteq {file'.source}
      BY <2>2, ReserveEffect
    <3>2. \A d \in Calls \ {c} : phase'[d] = phase[d]
      BY <2>0, <2>2 DEF TypeOK, Reserve
    <3>3. QED
      BY <3>1, <3>2 DEF AdmitsKnownLegacy
  <2>3. ASSUME NEW c \in Calls, ReserveBlocked(c) PROVE AdmitsKnownLegacy
    BY <2>0, <2>3, ReserveBlockedEffect DEF AdmitsKnownLegacy, TypeOK
  <2>4. ASSUME NEW c \in Calls, HolderAct(c) PROVE AdmitsKnownLegacy
    BY <2>4, HolderEffect DEF AdmitsKnownLegacy
  <2>5. QED
    BY <2>1, <2>2, <2>3, <2>4, StepKinds
<1>2. QED
  BY <1>1, Invariance, PTL DEF Spec, AdmissionAgreesWithLegacy

-----------------------------------------------------------------------------
(* The authority implements the spending cap *)

\* An initial file is an account that has admitted nobody.
LEMMA InitImplementsCap == Init => Cap!CapInit
<1> SUFFICES ASSUME Init PROVE Cap!CapInit
  OBVIOUS
<1>1. TypeOK /\ Tables /\ Unopened
  BY InitIInv DEF IInv
<1>2. file.max \in Nat /\ file.spent \in Nat /\ Total(file.res) \in Nat
  BY <1>1, TotalType, BudgetConstants DEF TypeOK, Tables, State, NonFinite
<1>3. Stage \in {"none", "active", "stopped"}
  BY <1>1 DEF TypeOK, State, Status, Stage
<1>4. Stage = "none" => file.spent = 0 /\ Total(file.res) = 0
  <2>1. file.status \in {"active", "stopped"}
    BY <1>1 DEF TypeOK, State, Status
  <2>2. Stage = "none" => file = Empty
    BY <1>1, <2>1 DEF Stage, Unopened
  <2>3. QED
    BY <2>2, NoReservationTotal DEF Empty
<1>5. Admitted = {}
  BY DEF Init, Admitted
<1>6. QED
  BY <1>2, <1>3, <1>4, <1>5 DEF Cap!CapInit

\* Every step opens the account, admits a call within the limit, charges or
\* gives up a liability, or changes nothing the account shows.
LEMMA NextImplementsCap == IInv /\ IInv' /\ [Next]_vars => [Cap!CapNext]_Cap!capVars
<1> SUFFICES ASSUME IInv, IInv', [Next]_vars PROVE Cap!CapNext \/ UNCHANGED Cap!capVars
  BY DEF Cap!capVars
<1>1. /\ file.max \in Nat /\ file.spent \in Nat /\ Total(file.res) \in Nat
      /\ file.status \in {"active", "stopped"}
  BY TotalType, BudgetConstants DEF IInv, TypeOK, Tables, State, NonFinite, Status
<1>2. /\ file'.max \in Nat /\ file'.spent \in Nat /\ Total(file'.res) \in Nat
      /\ file'.status \in {"active", "stopped"}
  <2>1. file' \in State /\ FiniteTable(file'.res)
    BY DEF IInv, TypeOK, Tables
  <2>2. QED
    BY <2>1, TotalType, BudgetConstants DEF State, NonFinite, Status
<1>3. CASE IdleAct
  <2>1. UNCHANGED Cap!capVars
    BY <1>3, IdleEffect DEF Cap!capVars, Stage
  <2>2. QED
    BY <2>1
<1>4. ASSUME NEW c \in Calls, Reserve(c) PROVE Cap!Admit
  <2>1. Stage \in {"none", "active"} /\ Stage' = "active"
    BY <1>4, ReserveEffect DEF Stage
  <2>2. Stage = "active" => /\ file'.max = file.max /\ file'.spent = file.spent
                            /\ Total(file'.res) >= Total(file.res)
    BY <1>1, <1>4, ReserveEffect, BudgetConstants DEF Stage, Amount
  <2>3. c \in Calls \ Admitted /\ Admitted' = Admitted \cup {c}
        /\ file'.spent + Total(file'.res) <= file'.max
    BY <1>4, ReserveEffect
  <2>4. QED
    BY <1>2, <2>1, <2>2, <2>3 DEF Cap!Admit
<1>5. ASSUME NEW c \in Calls, ReserveBlocked(c) PROVE Cap!Open \/ UNCHANGED Cap!capVars
  <2>1. CASE Established(file)
    BY <1>5, <2>1, ReserveBlockedEffect DEF Cap!capVars, Stage
  <2>2. CASE ~Established(file) /\ file' = file
    BY <1>5, <2>2, ReserveBlockedEffect DEF Cap!capVars, Stage
  <2>3. CASE ~Established(file) /\ Established(file')
    BY <1>2, <1>5, <2>3, ReserveBlockedEffect DEF Cap!Open, Stage
  <2>4. QED
    BY <1>5, <2>1, <2>2, <2>3, ReserveBlockedEffect
<1>6. ASSUME NEW c \in Calls, HolderAct(c) PROVE Cap!Charge
  BY <1>1, <1>2, <1>6, HolderEffect DEF Cap!Charge, Stage
<1>7. QED
  BY <1>3, <1>4, <1>5, <1>6, StepKinds DEF Cap!CapNext

\* For every number of callers and every legacy file, the budget files and the
\* lock implement an account that never admits a call past its limit.
THEOREM AuthorityImplementsCap == Spec => ImplementsCap
BY InitImplementsCap, NextImplementsCap, Invariance, PTL DEF Spec, ImplementsCap, Cap!CapSpec
=============================================================================
