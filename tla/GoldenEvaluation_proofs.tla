------------------------ MODULE GoldenEvaluation_proofs ------------------------
(***************************************************************************)
(* The evidence of a golden evaluation, for any inventory, suite, filters  *)
(* and number of rows of other processes: the records and the ledger keep  *)
(* their shape, a case is never recorded by a row of another case, and a   *)
(* candidate that passes earned it.  GoldenInv is about the rows and the   *)
(* records, EarnedInv, proved on top of it, about a report that passes.    *)
(***************************************************************************)
EXTENDS GoldenEvaluation, FiniteSetTheorems, WellFoundedInduction, SequenceTheorems, TLAPS

CurrentCase == [stage |-> stage, case |-> CaseNumber]
Written(i) == i \in DOMAIN ledger /\ ledger[i].of # NoCase

Frame ==
    /\ suite \in {Normalised(s) : s \in Suites} /\ allow \in Allowances
    /\ stage \in Stages \cup {"resolve", "report", "refused"}
    /\ pc \in {"idle", "attempt", "failed"}
    /\ pc # "idle" => stage \in Stages /\ CaseNumber <= suite.cases
    /\ left \subseteq DOMAIN Inventory /\ (pc = "attempt") = (left # {})
    /\ pc = "attempt" => left \subseteq Admitted(Inventory, Asked)
    /\ ledger \in Seq(Row) /\ prior \in 0..Len(ledger)
    /\ runs \in [Stages -> Seq(Case)]
    /\ \A s \in Stages : Len(runs[s]) <= suite.cases

\* What a case is recorded by.
Recorded(s, n) ==
    LET c == runs[s][n]
        row == ledger[c.row]
    IN  /\ c.row \in 0..Len(ledger)
        /\ c.row # 0 =>
            /\ row.cost = c.cost
            /\ c.ok => row.event = "model_call" /\ row.route \in Matches[RouteOf(s)]
            /\ ~c.ok => row.route = RouteOf(s)
            /\ row.of = [stage |-> s, case |-> n] \/ (~c.ok /\ row.of = NoCase)

Records == \A s \in Stages : \A n \in DOMAIN runs[s] : Recorded(s, n)

\* A row of the run belongs to a recorded case, or it is new and of the current one.
Placed ==
    /\ \A i \in DOMAIN ledger : Written(i) =>
          \/ ledger[i].of.case \in DOMAIN runs[ledger[i].of.stage]
          \/ pc # "idle" /\ ledger[i].of = CurrentCase /\ i > prior
    /\ pc # "idle" =>
          \A i \in prior + 1..Len(ledger) : ledger[i].of \in {NoCase, CurrentCase}

\* A row of the run is of a route that was matched and that its flags allow.
AllowedRow(row) ==
    /\ row.route \in Matches[RouteOf(row.of.stage)]
    /\ Free(Inventory[row.route]) \/ allow.paid
    /\ ExecutionEnabled(Inventory[row.route]) \/ allow.trial
    /\ suite.local => TrustedLocal(Inventory[row.route])
Allowed == \A i \in DOMAIN ledger : Written(i) => AllowedRow(ledger[i])

\* Row j stands for row i, which is j itself or the first of two rows of one call.
StandsFor(j, i) ==
    /\ ledger[j].of = ledger[i].of /\ ledger[j].cost = ledger[i].cost
    /\ i # j => ledger[j].event = "budget_incident"

Exact(s) == Matches[RouteOf(s)] = {RouteOf(s)} /\ Alone(RouteOf(s))

\* Every row of the run whose case is recorded is stood for by the row of the record.
CountedRows(s) ==
    \A i \in DOMAIN ledger :
        Written(i) /\ ledger[i].of.stage = s /\ ledger[i].of.case \in DOMAIN runs[s] =>
           /\ runs[s][ledger[i].of.case].row # 0
           /\ StandsFor(runs[s][ledger[i].of.case].row, i)

\* Nothing is written before the call answers or fails, and then two rows at most.
OneTry ==
    /\ pc = "attempt" =>
          \A i \in prior + 1..Len(ledger) : ledger[i].of # CurrentCase
    /\ pc = "failed" =>
          \A i, j \in prior + 1..Len(ledger) :
             i < j /\ ledger[i].of = CurrentCase /\ ledger[j].of = CurrentCase =>
                StandsFor(j, i)

Counted == \A s \in Stages : Exact(s) => CountedRows(s) /\ (s = stage => OneTry)

GoldenInv == Frame /\ Records /\ Placed /\ Allowed /\ Counted

-----------------------------------------------------------------------------
(* Helpers *)

LEMMA HasMax ==
    ASSUME NEW n \in Nat, NEW I \in SUBSET (1..n), I # {}
    PROVE  Max(I) \in I /\ \A i \in I : i <= Max(I)
<1> DEFINE T == {n - i : i \in I}
<1>1. T \subseteq Nat
  OBVIOUS
<1>2. PICK e \in I : TRUE
  OBVIOUS
<1>3. n - e \in T
  OBVIOUS
<1>4. PICK t \in T : \A y \in T : ~(<<y, t>> \in OpToRel(<, Nat))
  BY <1>1, <1>3, WFMin, NatLessThanWellFounded
<1>5. \A y \in T : ~(y < t)
  BY <1>1, <1>4 DEF OpToRel
<1>6. PICK x \in I : t = n - x
  BY <1>4
<1>7. \A i \in I : x >= i
  <2> SUFFICES ASSUME NEW i \in I PROVE x >= i
    OBVIOUS
  <2>1. n - i \in T
    OBVIOUS
  <2>2. ~(n - i < n - x)
    BY <1>5, <1>6, <2>1
  <2>3. i \in Nat /\ x \in Nat
    OBVIOUS
  <2> QED
    BY <2>2, <2>3
<1>8. Max(I) \in I /\ \A i \in I : Max(I) >= i
  BY <1>6, <1>7 DEF Max
<1> QED
  BY <1>8

\* The row a failed case is recorded by.
LEMMA LastRow ==
    ASSUME NEW route, ledger \in Seq(Row), prior \in 0..Len(ledger)
    PROVE  LET i == FailedCaseRow(route)
           IN  /\ i \in 0..Len(ledger)
               /\ i # 0 => i > prior /\ ledger[i].route = route
               /\ \A j \in prior + 1..Len(ledger) :
                     ledger[j].route = route => i # 0 /\ j <= i
<1> DEFINE I == {j \in prior + 1..Len(ledger) : ledger[j].route = route}
<1>1. FailedCaseRow(route) = IF I # {} THEN Max(I) ELSE 0
  BY DEF FailedCaseRow, SelectLastInSubSeq
<1>2. I \in SUBSET (1..Len(ledger)) /\ Len(ledger) \in Nat
  OBVIOUS
<1>3. I # {} => Max(I) \in I /\ \A i \in I : i <= Max(I)
  BY <1>2, HasMax
<1> QED
  BY <1>1, <1>2, <1>3

LEMMA SuiteFacts ==
    ASSUME suite \in {Normalised(s) : s \in Suites}
    PROVE  suite.cases \in Nat /\ suite.maxCallCost \in Nat
<1>1. PICK s \in SuiteInfo : suite = Normalised(s)
  BY GoldenConstants
<1> QED
  BY <1>1 DEF Normalised, SuiteInfo

\* What the call of a case asks for, and what its routes are.
LEMMA AskedFacts ==
    /\ Asked.limit = suite.maxCallCost /\ Asked.local = suite.local
    /\ Asked.only = Matches[RouteOf(stage)]
    /\ Asked.exact = TRUE /\ Asked.trial = allow.trial
    /\ Asked.paid => allow.paid
BY DEF Asked, Effective

LEMMA AdmittedFacts ==
    ASSUME NEW r \in Admitted(Inventory, Asked)
    PROVE  /\ r \in DOMAIN Inventory /\ r \in Routes /\ r \in Matches[RouteOf(stage)]
           /\ Inventory[r].price \in Nat \cup {Unpriced}
           /\ Free(Inventory[r]) \/ allow.paid
           /\ ExecutionEnabled(Inventory[r]) \/ allow.trial
           /\ suite.local => TrustedLocal(Inventory[r])
<1>1. r \in ExactPool(Inventory, Asked)
  BY AskedFacts DEF Admitted
<1>2. r \in DOMAIN Inventory /\ (Free(Inventory[r]) \/ allow.paid)
  BY <1>1, AskedFacts DEF ExactPool
<1>3. r \in Routes /\ Inventory[r].price \in Nat \cup {Unpriced}
  BY <1>2, GoldenConstants DEF IsInventory, RouteInfo
<1> QED
  BY <1>2, <1>3, AskedFacts DEF Admitted, Named

\* What Write appends.
LEMMA Appended ==
    ASSUME ledger \in Seq(Row), NEW of \in [stage: Stages, case: Nat] \cup {NoCase},
           NEW r \in Routes, NEW events \in Seq(Event), NEW cost \in Cost,
           Write(of, r, events, cost)
    PROVE  /\ ledger' \in Seq(Row) /\ Len(ledger') = Len(ledger) + Len(events)
           /\ \A i \in 1..Len(ledger) : ledger'[i] = ledger[i]
           /\ \A i \in Len(ledger) + 1..Len(ledger') :
                 ledger'[i] = [of |-> of, route |-> r,
                               event |-> events[i - Len(ledger)], cost |-> cost]
<1> DEFINE new == [i \in DOMAIN events |->
                      [of |-> of, route |-> r, event |-> events[i], cost |-> cost]]
<1>1. new \in Seq(Row) /\ Len(new) = Len(events)
  <2>1. \A i \in 1..Len(events) : new[i] \in Row
    BY DEF Row
  <2>2. DOMAIN new = 1..Len(events) /\ Len(events) \in Nat
    OBVIOUS
  <2>3. new \in [1..Len(events) -> Row]
    BY <2>1, <2>2
  <2> QED
    BY <2>2, <2>3
<1>2. \A i \in 1..Len(events) :
         new[i] = [of |-> of, route |-> r, event |-> events[i], cost |-> cost]
  OBVIOUS
<1>3. ledger' = ledger \o new
  BY DEF Write
<1> HIDE DEF new
<1>4. ledger' \in Seq(Row) /\ Len(ledger') = Len(ledger) + Len(events)
  <2>1. ledger \o new \in Seq(Row)
    BY <1>1
  <2>2. Len(ledger \o new) = Len(ledger) + Len(new)
    BY <1>1
  <2> QED
    BY <1>1, <1>3, <2>1, <2>2
<1>5. \A i \in 1..Len(ledger) : ledger'[i] = ledger[i]
  BY <1>1, <1>3
<1>6. \A i \in Len(ledger) + 1..Len(ledger') :
         i - Len(ledger) \in 1..Len(events) /\ ledger'[i] = new[i - Len(ledger)]
  BY <1>1, <1>3, <1>4
<1> QED
  BY <1>2, <1>4, <1>5, <1>6

\* The rows of a run say whose they are.
LEMMA WrittenType ==
    ASSUME ledger \in Seq(Row), NEW i \in DOMAIN ledger, Written(i)
    PROVE  /\ ledger[i].of.stage \in Stages /\ ledger[i].of.case \in Nat
           /\ ledger[i].of = [stage |-> ledger[i].of.stage, case |-> ledger[i].of.case]
<1>1. ledger[i] \in Row
  OBVIOUS
<1>2. ledger[i].of \in [stage: Stages, case: Nat]
  BY <1>1 DEF Written, Row
<1> QED
  BY <1>2

LEMMA CurrentType ==
    ASSUME Frame, stage \in Stages
    PROVE  /\ CaseNumber \in Nat /\ CaseNumber = Len(runs[stage]) + 1
           /\ CurrentCase \in [stage: Stages, case: Nat] /\ CurrentCase # NoCase
           /\ CurrentCase.stage = stage /\ CurrentCase.case = CaseNumber
           /\ DOMAIN runs[stage] = 1..Len(runs[stage])
<1>1. runs[stage] \in Seq(Case)
  BY DEF Frame
<1>2. CaseNumber \in Nat /\ CaseNumber = Len(runs[stage]) + 1
  BY <1>1 DEF CaseNumber
<1>3. stage # "other"
  BY DEF Stages
<1>4. CurrentCase.stage # NoCase.stage
  BY <1>3 DEF CurrentCase, NoCase
<1> QED
  BY <1>1, <1>2, <1>4 DEF CurrentCase

\* Rows that are there stay, and a case that is kept is recorded by its row.
LEMMA Grows ==
    ASSUME Frame, ledger' \in Seq(Row), Len(ledger) <= Len(ledger'),
           \A i \in 1..Len(ledger) : ledger'[i] = ledger[i]
    PROVE  /\ \A s \in Stages : Exact(s)' => Exact(s)
           /\ \A s \in Stages : \A n : runs'[s][n] = runs[s][n] /\ Recorded(s, n)
                                          => Recorded(s, n)'
<1>1. DOMAIN ledger \subseteq DOMAIN ledger' /\ DOMAIN ledger = 1..Len(ledger)
  BY DEF Frame
<1>2. ASSUME NEW s \in Stages, Exact(s)' PROVE Exact(s)
  BY <1>1, <1>2 DEF Exact, Alone, RouteOf
<1>3. ASSUME NEW s \in Stages, NEW n, runs'[s][n] = runs[s][n], Recorded(s, n)
      PROVE  Recorded(s, n)'
  <2>1. runs[s][n].row \in 0..Len(ledger) /\ Len(ledger) \in Nat /\ Len(ledger') \in Nat
    BY <1>3 DEF Recorded, Frame
  <2>2. runs[s][n].row # 0 => ledger'[runs[s][n].row] = ledger[runs[s][n].row]
    BY <2>1
  <2>3. runs[s][n].row \in 0..Len(ledger')
    BY <2>1
  <2> QED
    BY <1>3, <2>2, <2>3 DEF Recorded, RouteOf
<1> QED
  BY <1>2, <1>3

-----------------------------------------------------------------------------
(* The steps *)

LEMMA GoldenInit == Init => GoldenInv
<1> SUFFICES ASSUME Init PROVE GoldenInv
  OBVIOUS
<1>1. ledger = <<>> /\ Len(ledger) = 0 /\ \A s \in Stages : runs[s] = <<>>
  BY DEF Init
<1>2. suite.cases \in Nat
  BY SuiteFacts DEF Init
<1>3. Frame
  BY <1>1, <1>2 DEF Frame, Init, Stages
<1>4. Records
  BY <1>1 DEF Records
<1>5. pc = "idle" /\ stage \notin Stages /\ \A i \in DOMAIN ledger : FALSE
  BY <1>1 DEF Init, Stages
<1>6. Placed /\ Allowed
  BY <1>5 DEF Placed, Allowed
<1>7. Counted
  BY <1>5 DEF Counted, CountedRows
<1> QED
  BY <1>3, <1>4, <1>6, <1>7 DEF GoldenInv

LEMMA SecondOfTwo ==
    ASSUME NEW a \in Nat, NEW n \in Nat, NEW i \in Nat, NEW j \in Nat,
           n < 3, i > a, j > i, j <= a + n
    PROVE  j = a + 2 /\ j - a = 2 /\ n = 2
OBVIOUS

\* A route is tried without an answer: one row, or two of which the last is an incident.
LEMMA TryFails ==
    ASSUME GoldenInv, pc = "attempt", NEW r \in left,
           NEW events \in Seq(Event), NEW cost \in Cost, WriteOwn(r, events, cost),
           0 < Len(events), Len(events) < 3,
           \A k \in DOMAIN events : k > 1 => events[k] = "budget_incident",
           left' \subseteq left \ {r}, pc' = IF left' = {} THEN "failed" ELSE "attempt",
           UNCHANGED <<suite, allow, stage, prior, runs>>
    PROVE  GoldenInv'
<1> DEFINE old == Len(ledger)
<1>1. stage \in Stages /\ CaseNumber <= suite.cases /\ r \in Admitted(Inventory, Asked)
  BY DEF GoldenInv, Frame
<1>2. r \in Routes /\ AllowedRow([of |-> CurrentCase, route |-> r])
  BY <1>1, AdmittedFacts DEF AllowedRow, CurrentCase
<1>3. /\ CurrentCase \in [stage: Stages, case: Nat] /\ CurrentCase # NoCase
      /\ CurrentCase.stage = stage /\ CurrentCase.case = CaseNumber
      /\ CaseNumber \notin DOMAIN runs[stage]
  BY <1>1, CurrentType DEF GoldenInv
<1>4. CurrentCase' = CurrentCase /\ CaseNumber' = CaseNumber /\ Asked' = Asked
  BY DEF CurrentCase, CaseNumber, Asked, RouteOf
<1>5. /\ ledger' \in Seq(Row) /\ Len(ledger') = old + Len(events)
      /\ \A i \in 1..old : ledger'[i] = ledger[i]
      /\ \A i \in old + 1..Len(ledger') :
            ledger'[i] = [of |-> CurrentCase, route |-> r,
                          event |-> events[i - old], cost |-> cost]
  BY <1>2, <1>3, Appended DEF WriteOwn, CurrentCase, GoldenInv, Frame
<1>6. /\ old \in Nat /\ prior \in 0..old /\ DOMAIN ledger = 1..old
      /\ DOMAIN ledger' = 1..Len(ledger') /\ old < Len(ledger') /\ Len(ledger') \in Nat
  <2>1. ledger \in Seq(Row) /\ prior \in 0..Len(ledger)
    BY DEF GoldenInv, Frame
  <2>2. Len(events) \in Nat /\ Len(events) > 0 /\ old \in Nat
    BY <2>1
  <2>3. ledger' \in Seq(Row) /\ Len(ledger') = old + Len(events)
    BY <1>5
  <2> QED
    BY <2>1, <2>2, <2>3
<1>7. \A i \in old + 1..Len(ledger') :
         /\ ledger'[i].of = CurrentCase /\ ledger'[i].route = r
         /\ ledger'[i].event = events[i - old] /\ ledger'[i].cost = cost
  <2> SUFFICES ASSUME NEW i \in old + 1..Len(ledger')
               PROVE  /\ ledger'[i].of = CurrentCase /\ ledger'[i].route = r
                      /\ ledger'[i].event = events[i - old] /\ ledger'[i].cost = cost
    OBVIOUS
  <2>1. ledger'[i] = [of |-> CurrentCase, route |-> r, event |-> events[i - old], cost |-> cost]
    BY <1>5
  <2> QED
    BY <2>1
<1>8. /\ \A s \in Stages : Exact(s)' => Exact(s)
      /\ \A s \in Stages : \A n : Recorded(s, n) => Recorded(s, n)'
  BY <1>5, <1>6, Grows DEF GoldenInv
<1>9. Frame'
  BY <1>1, <1>4, <1>5, <1>6 DEF GoldenInv, Frame
<1>10. Records'
  BY <1>8 DEF GoldenInv, Records
<1>11. \A i \in DOMAIN ledger' : i \in 1..old \/ i \in old + 1..Len(ledger')
  BY <1>6
<1>12. \A i \in 1..old : (Written(i)' <=> Written(i)) /\ ledger'[i] = ledger[i]
  BY <1>5, <1>6 DEF Written
<1> HIDE DEF old
<1>13. Placed'
  <2>1. ASSUME NEW i \in DOMAIN ledger', Written(i)'
        PROVE  \/ ledger'[i].of.case \in DOMAIN runs[ledger'[i].of.stage]
               \/ pc' # "idle" /\ ledger'[i].of = CurrentCase /\ i > prior
    <3>1. CASE i \in 1..old
      BY <2>1, <3>1, <1>6, <1>12 DEF GoldenInv, Placed
    <3>2. CASE i \in old + 1..Len(ledger')
      BY <3>2, <1>6, <1>7
    <3> QED
      BY <3>1, <3>2, <1>11
  <2>2. ASSUME NEW i \in prior + 1..Len(ledger')
        PROVE  ledger'[i].of \in {NoCase, CurrentCase}
    <3>1. CASE i \in 1..old
      BY <3>1, <2>2, <1>6, <1>12 DEF GoldenInv, Placed, old
    <3>2. CASE i \in old + 1..Len(ledger')
      BY <3>2, <1>7
    <3> QED
      BY <3>1, <3>2, <2>2, <1>6
  <2> QED
    BY <2>1, <2>2, <1>4 DEF Placed
<1>14. Allowed'
  <2>1. \A row : AllowedRow(row) => AllowedRow(row)'
    BY DEF AllowedRow, RouteOf
  <2>2. \A i \in 1..old : Written(i)' => AllowedRow(ledger'[i])
    BY <1>6, <1>12 DEF GoldenInv, Allowed
  <2>3. \A i \in old + 1..Len(ledger') : AllowedRow(ledger'[i])
    BY <1>2, <1>7 DEF AllowedRow
  <2>4. \A i \in DOMAIN ledger' : Written(i)' => AllowedRow(ledger[i])'
    <3> SUFFICES ASSUME NEW i \in DOMAIN ledger', Written(i)' PROVE AllowedRow(ledger[i])'
      OBVIOUS
    <3>1. AllowedRow(ledger'[i])
      BY <1>11, <2>2, <2>3
    <3> QED
      BY <3>1 DEF AllowedRow, RouteOf
  <2> QED
    BY <2>4 DEF Allowed
<1>15. ASSUME NEW s \in Stages, Exact(s)' PROVE CountedRows(s)'
  <2>1. CountedRows(s)
    BY <1>8, <1>15 DEF GoldenInv, Counted
  <2> SUFFICES ASSUME NEW i \in DOMAIN ledger', Written(i)', ledger'[i].of.stage = s,
                      ledger'[i].of.case \in DOMAIN runs[s]
               PROVE  /\ runs[s][ledger'[i].of.case].row # 0
                      /\ StandsFor(runs[s][ledger[i].of.case].row, i)'
    BY DEF CountedRows
  <2>2. i \in 1..old
    BY <1>3, <1>7, <1>11
  <2> DEFINE j == runs[s][ledger[i].of.case].row
  <2>3. ledger'[i] = ledger[i] /\ Written(i) /\ i \in DOMAIN ledger
    BY <1>6, <1>12, <2>2
  <2>4. j # 0 /\ StandsFor(j, i)
    BY <2>1, <2>3 DEF CountedRows
  <2>5. j \in 0..old
    BY <2>3 DEF GoldenInv, Records, Recorded, old
  <2>6. ledger'[j] = ledger[j]
    BY <1>6, <1>12, <2>4, <2>5
  <2>7. j = (runs[s][ledger[i].of.case].row)'
    BY <2>3
  <2>8. ledger'[j].of = ledger'[i].of /\ ledger'[j].cost = ledger'[i].cost
        /\ (i # j => ledger'[j].event = "budget_incident")
    BY <2>3, <2>4, <2>6 DEF StandsFor
  <2> QED
    BY <2>3, <2>4, <2>7, <2>8 DEF StandsFor
<1>16. ASSUME Exact(stage)' PROVE OneTry'
  <2>1. Exact(stage) /\ OneTry
    BY <1>1, <1>8, <1>16 DEF GoldenInv, Counted
  <2>2. left \subseteq Matches[RouteOf(stage)]
    BY AdmittedFacts DEF GoldenInv, Frame
  <2>3. left = {r} /\ left' = {} /\ pc' = "failed"
    BY <2>1, <2>2 DEF Exact
  <2>4. \A i \in prior + 1..old : ledger[i].of # CurrentCase
    BY <2>1 DEF OneTry, old
  <2>5. ASSUME NEW i \in prior + 1..Len(ledger'), NEW j \in prior + 1..Len(ledger'),
               i < j, ledger'[i].of = CurrentCase, ledger'[j].of = CurrentCase
        PROVE  StandsFor(j, i)'
    <3>1. i \in old + 1..Len(ledger')
      BY <1>6, <1>12, <2>4, <2>5
    <3>2. j \in old + 1..Len(ledger')
      BY <1>6, <3>1, <2>5
    <3>3. j = old + 2 /\ j - old = 2 /\ Len(events) = 2
      <4>1. Len(ledger') = old + Len(events)
        BY <1>5
      <4>2. Len(events) \in Nat
        OBVIOUS
      <4>3. i \in Nat /\ j \in Nat /\ i > old /\ j > i /\ j <= old + Len(events)
        BY <1>6, <3>1, <3>2, <2>5, <4>1
      <4> QED
        BY <1>6, <4>2, <4>3, SecondOfTwo
    <3>4. ledger'[j].event = "budget_incident" /\ ledger'[i].cost = ledger'[j].cost
      BY <1>6, <1>7, <3>1, <3>2, <3>3
    <3> QED
      BY <2>5, <3>4 DEF StandsFor
  <2> QED
    BY <1>4, <2>3, <2>5 DEF OneTry
<1>17. Counted'
  BY <1>15, <1>16 DEF Counted
<1> QED
  BY <1>9, <1>10, <1>13, <1>14, <1>17 DEF GoldenInv

LEMMA TwoEvents == ASSUME NEW a, NEW b PROVE <<a>> \o <<b>> = <<a, b>>
<1> DEFINE S == {a, b}
<1>1. <<a>> \in Seq(S) /\ <<b>> \in Seq(S) /\ <<a, b>> \in Seq(S)
  OBVIOUS
<1>2. /\ <<a>> \o <<b>> \in Seq(S) /\ Len(<<a>> \o <<b>>) = 2
      /\ (<<a>> \o <<b>>)[1] = a /\ (<<a>> \o <<b>>)[2] = b
  BY <1>1
<1>3. Len(<<a, b>>) = 2 /\ <<a, b>>[1] = a /\ <<a, b>>[2] = b
  OBVIOUS
<1> DEFINE p == <<a>> \o <<b>>
           q == <<a, b>>
<1>4. p \in Seq(S) /\ q \in Seq(S) /\ Len(p) = 2 /\ Len(q) = 2 /\ p[1] = q[1] /\ p[2] = q[2]
  BY <1>1, <1>2, <1>3
<1> HIDE DEF p, q, S
<1>5. \A i \in 1..Len(p) : p[i] = q[i]
  BY <1>4
<1>6. p = q
  BY <1>4, <1>5, SeqEqual
<1> QED
  BY <1>6 DEF p, q

\* A route is tried without an answer.
Failing(r, events, cost) ==
    /\ WriteOwn(r, events, cost)
    /\ 0 < Len(events) /\ Len(events) < 3
    /\ \A k \in DOMAIN events : k > 1 => events[k] = "budget_incident"
    /\ left' \subseteq left \ {r} /\ pc' = IF left' = {} THEN "failed" ELSE "attempt"
    /\ UNCHANGED <<suite, allow, stage, prior, runs, verdict>>

\* The four ways a route fails.
LEMMA Failures ==
    ASSUME GoldenInv, pc = "attempt", NEW r \in left,
           Refuse(r) \/ Fail(r) \/ Invalid(r) \/ Overrun(r)
    PROVE  \E events \in Seq(Event), cost \in Cost : Failing(r, events, cost)
<1> DEFINE Outcome(events, cost) ==
             /\ WriteOwn(r, events, cost)
             /\ left' \subseteq left \ {r}
             /\ pc' = IF left' = {} THEN "failed" ELSE "attempt"
             /\ UNCHANGED <<suite, allow, stage, prior, runs, verdict>>
           Fails == \E events \in Seq(Event), cost \in Cost : Failing(r, events, cost)
<1> SUFFICES Fails
  OBVIOUS
<1>1. ASSUME NEW e \in Event, NEW cost \in Cost, Outcome(<<e>>, cost) PROVE Fails
  <2>1. <<e>> \in Seq(Event) /\ Len(<<e>>) = 1 /\ DOMAIN <<e>> = {1}
    OBVIOUS
  <2> DEFINE events == <<e>>
  <2>2. /\ events \in Seq(Event) /\ 0 < Len(events) /\ Len(events) < 3
        /\ \A k \in DOMAIN events : k > 1 => events[k] = "budget_incident"
    BY <2>1
  <2>3. Outcome(events, cost)
    BY <1>1
  <2> HIDE DEF events
  <2> QED
    BY <2>2, <2>3 DEF Failing
<1>2. ASSUME NEW e \in Event, NEW cost \in Cost, Outcome(<<e, "budget_incident">>, cost)
      PROVE  Fails
  <2> DEFINE events == <<e, "budget_incident">>
  <2>1. "budget_incident" \in Event
    BY DEF Event
  <2>2. /\ events \in Seq(Event) /\ Len(events) = 2 /\ DOMAIN events = {1, 2}
        /\ events[2] = "budget_incident"
    BY <2>1
  <2>3. /\ 0 < Len(events) /\ Len(events) < 3
        /\ \A k \in DOMAIN events : k > 1 => events[k] = "budget_incident"
    BY <2>2
  <2>4. Outcome(events, cost)
    BY <1>2
  <2> HIDE DEF events
  <2> QED
    BY <2>2, <2>3, <2>4 DEF Failing
<1> HIDE DEF Fails
<1>3. /\ r \in Admitted(Inventory, Asked) /\ Inventory[r].price \in Cost /\ 0 \in Cost
      /\ Unpriced \in Cost /\ suite.maxCallCost + 1 \in Cost /\ Asked.limit = suite.maxCallCost
  <2>1. suite.maxCallCost \in Nat
    BY SuiteFacts DEF GoldenInv, Frame
  <2>2. r \in Admitted(Inventory, Asked)
    BY DEF GoldenInv, Frame
  <2> QED
    BY <2>1, <2>2, AdmittedFacts, AskedFacts DEF Cost
<1>4. Event = {"model_call", "model_failure", "infrastructure failure",
               "invalid_structured_output", "budget_incident"}
  BY DEF Event, Sampled
<1>5. NextTry(r) => /\ left' \subseteq left \ {r}
                    /\ pc' = IF left' = {} THEN "failed" ELSE "attempt"
                    /\ UNCHANGED <<suite, allow, stage, prior, runs, verdict>>
  BY DEF NextTry
<1>6. End => /\ left' \subseteq left \ {r}
             /\ pc' = IF left' = {} THEN "failed" ELSE "attempt"
             /\ UNCHANGED <<suite, allow, stage, prior, runs, verdict>>
  BY DEF End
<1>7. CASE Refuse(r)
  BY <1>1, <1>3, <1>4, <1>5, <1>7 DEF Refuse
<1>8. CASE Fail(r)
  <2>1. PICK e \in {"model_failure", "infrastructure failure"},
             cost \in {0, Unpriced, Inventory[r].price} : WriteOwn(r, <<e>>, cost)
    BY <1>8 DEF Fail
  <2> QED
    BY <1>1, <1>3, <1>4, <1>5, <1>8, <2>1 DEF Fail
<1>9. CASE Invalid(r)
  BY <1>1, <1>3, <1>4, <1>6, <1>9 DEF Invalid
<1>10. CASE Overrun(r)
  <2>1. PICK before \in {<<>>, IF suite.governed THEN <<"invalid_structured_output">>
                               ELSE <<"model_failure">>} :
             WriteOwn(r, before \o <<"budget_incident">>, Asked.limit + 1)
    BY <1>10 DEF Overrun
  <2>2. End
    BY <1>10 DEF Overrun
  <2>3. CASE before = <<>>
    <3>1. before \o <<"budget_incident">> = <<"budget_incident">>
      BY <2>3
    <3> QED
      BY <1>1, <1>3, <1>4, <1>6, <2>1, <2>2, <3>1
  <2>4. CASE before # <<>>
    <3>1. PICK e \in {"invalid_structured_output", "model_failure"} : before = <<e>>
      BY <2>4
    <3>2. before \o <<"budget_incident">> = <<e, "budget_incident">>
      BY <3>1, TwoEvents
    <3> QED
      BY <1>2, <1>3, <1>4, <1>6, <2>1, <2>2, <3>2
  <2> QED
    BY <2>3, <2>4
<1> QED
  BY <1>7, <1>8, <1>9, <1>10

LEMMA RefuseKeeps ==
    ASSUME GoldenInv, pc = "attempt", NEW r \in left,
           Refuse(r) \/ Fail(r) \/ Invalid(r) \/ Overrun(r)
    PROVE  GoldenInv'
<1>1. PICK events \in Seq(Event), cost \in Cost : Failing(r, events, cost)
  BY Failures
<1> QED
  BY <1>1, TryFails DEF Failing

LEMMA AnswerKeeps ==
    ASSUME GoldenInv, pc = "attempt", NEW r \in left, Answer(r)
    PROVE  GoldenInv'
<1> DEFINE old == Len(ledger)
<1>1. PICK passed \in BOOLEAN, cost \in Cost :
         /\ WriteOwn(r, <<"model_call">>, cost)
         /\ runs' = [runs EXCEPT ![stage] = Append(@,
                       [ran |-> TRUE, ok |-> TRUE, passed |-> passed,
                        row |-> Len(ledger) + 1, cost |-> cost])]
  <2>1. Inventory[r].price \in Cost /\ 0 \in Cost
    BY AdmittedFacts DEF GoldenInv, Frame, Cost
  <2> QED
    BY <2>1 DEF Answer
<1>2. pc' = "idle" /\ left' = {} /\ UNCHANGED <<suite, allow, stage, prior>>
  BY DEF Answer
<1> DEFINE c == [ran |-> TRUE, ok |-> TRUE, passed |-> passed, row |-> old + 1, cost |-> cost]
<1> DEFINE new == [of |-> CurrentCase, route |-> r, event |-> "model_call", cost |-> cost]
<1>3. stage \in Stages /\ CaseNumber <= suite.cases /\ r \in Admitted(Inventory, Asked)
  BY DEF GoldenInv, Frame
<1>4. r \in Routes /\ r \in Matches[RouteOf(stage)] /\ AllowedRow([of |-> CurrentCase, route |-> r])
  BY <1>3, AdmittedFacts DEF AllowedRow, CurrentCase
<1>5. /\ CurrentCase \in [stage: Stages, case: Nat] /\ CurrentCase # NoCase
      /\ CurrentCase.stage = stage /\ CurrentCase.case = CaseNumber
      /\ CaseNumber \in Nat /\ CaseNumber = Len(runs[stage]) + 1
      /\ DOMAIN runs[stage] = 1..Len(runs[stage])
  BY <1>3, CurrentType DEF GoldenInv
<1>6. /\ ledger' \in Seq(Row) /\ Len(ledger') = old + 1
      /\ \A i \in 1..old : ledger'[i] = ledger[i]
      /\ ledger'[old + 1] = new
  <2>1. old \in Nat
    BY DEF GoldenInv, Frame
  <2> DEFINE events == <<"model_call">>
  <2>2. events \in Seq(Event) /\ Len(events) = 1 /\ events[1] = "model_call"
    BY DEF Event, Sampled
  <2>3. Write(CurrentCase, r, events, cost)
    BY <1>1 DEF WriteOwn, CurrentCase
  <2> HIDE DEF events
  <2>4. /\ ledger' \in Seq(Row) /\ Len(ledger') = old + Len(events)
        /\ \A i \in 1..old : ledger'[i] = ledger[i]
        /\ \A i \in old + 1..Len(ledger') :
              ledger'[i] = [of |-> CurrentCase, route |-> r,
                            event |-> events[i - old], cost |-> cost]
    <3>1. ledger \in Seq(Row) /\ CurrentCase \in [stage: Stages, case: Nat] \cup {NoCase}
      BY <1>5 DEF GoldenInv, Frame
    <3>2. r \in Routes /\ cost \in Cost
      BY <1>4
    <3> QED
      BY <2>2, <2>3, <3>1, <3>2, Appended
  <2>5. Len(ledger') = old + 1 /\ old + 1 \in old + 1..Len(ledger') /\ old + 1 - old = 1
    BY <2>1, <2>2, <2>4
  <2>6. ledger'[old + 1] = [of |-> CurrentCase, route |-> r, event |-> events[1], cost |-> cost]
    BY <2>4, <2>5
  <2> QED
    BY <2>2, <2>4, <2>5, <2>6
<1>7. /\ old \in Nat /\ prior \in 0..old /\ DOMAIN ledger = 1..old
      /\ DOMAIN ledger' = 1..(old + 1)
  BY <1>6 DEF GoldenInv, Frame
<1>8. /\ c \in Case
      /\ runs' \in [Stages -> Seq(Case)]
      /\ \A s \in Stages \ {stage} : runs'[s] = runs[s]
      /\ Len(runs'[stage]) = CaseNumber /\ DOMAIN runs'[stage] = 1..CaseNumber
      /\ runs'[stage][CaseNumber] = c
      /\ \A n \in DOMAIN runs[stage] : runs'[stage][n] = runs[stage][n]
  <2>1. c \in Case
    BY <1>7 DEF Case
  <2>2. runs \in [Stages -> Seq(Case)] /\ runs[stage] \in Seq(Case)
    BY <1>3 DEF GoldenInv, Frame
  <2>3. runs' = [runs EXCEPT ![stage] = Append(@, c)]
    BY <1>1
  <2> HIDE DEF c
  <2>4. runs'[stage] = Append(runs[stage], c) /\ \A s \in Stages \ {stage} : runs'[s] = runs[s]
    BY <1>3, <2>2, <2>3
  <2>5. Append(runs[stage], c) \in Seq(Case)
    BY <2>1, <2>2
  <2>6. runs' \in [Stages -> Seq(Case)]
    BY <2>2, <2>3, <2>5
  <2>7. /\ Len(runs'[stage]) = CaseNumber /\ DOMAIN runs'[stage] = 1..CaseNumber
        /\ runs'[stage][CaseNumber] = c
        /\ \A n \in DOMAIN runs[stage] : runs'[stage][n] = runs[stage][n]
    BY <1>5, <2>1, <2>2, <2>4
  <2> QED
    BY <2>1, <2>4, <2>6, <2>7
<1>9. /\ \A s \in Stages : Exact(s)' => Exact(s)
      /\ \A s \in Stages : \A n : runs'[s][n] = runs[s][n] /\ Recorded(s, n)
                                     => Recorded(s, n)'
  <2>1. Len(ledger) <= Len(ledger')
    BY <1>6, <1>7
  <2> QED
    BY <1>6, <2>1, Grows DEF GoldenInv
<1>10. Frame'
  <2>1. prior' \in 0..Len(ledger') /\ \A s \in Stages : Len(runs'[s]) <= suite.cases
    <3>1. prior' \in 0..Len(ledger')
      BY <1>2, <1>6, <1>7
    <3>2. ASSUME NEW s \in Stages PROVE Len(runs'[s]) <= suite.cases
      <4>1. CASE s = stage
        BY <1>3, <1>8, <4>1
      <4>2. CASE s # stage
        BY <1>8, <4>2 DEF GoldenInv, Frame
      <4> QED
        BY <4>1, <4>2
    <3> QED
      BY <3>1, <3>2
  <2> QED
    BY <1>2, <1>6, <1>8, <2>1 DEF GoldenInv, Frame
<1>11. Records'
  <2> SUFFICES ASSUME NEW s \in Stages, NEW n \in DOMAIN runs'[s] PROVE Recorded(s, n)'
    BY DEF Records
  <2>1. CASE s = stage /\ n = CaseNumber
    <3>1. runs'[s][n] = c /\ c.row = old + 1 /\ c.ok = TRUE /\ c.cost = cost
      BY <1>8, <2>1
    <3>2. new.event = "model_call" /\ new.route = r /\ new.cost = cost /\ new.of = CurrentCase
      OBVIOUS
    <3>3. old + 1 \in 0..Len(ledger') /\ CurrentCase = [stage |-> s, case |-> n]
      BY <1>6, <1>7, <2>1 DEF CurrentCase
    <3>4. RouteOf(s)' = RouteOf(s)
      BY DEF RouteOf
    <3> QED
      BY <1>4, <1>6, <2>1, <3>1, <3>2, <3>3, <3>4 DEF Recorded
  <2>2. CASE ~(s = stage /\ n = CaseNumber)
    <3>1. n \in DOMAIN runs[s] /\ runs'[s][n] = runs[s][n]
      BY <1>5, <1>8, <2>2
    <3> QED
      BY <1>9, <3>1 DEF GoldenInv, Records
  <2> QED
    BY <2>1, <2>2
<1>12. \A i \in DOMAIN ledger' : (i \in 1..old /\ ledger'[i] = ledger[i] /\ (Written(i)' <=> Written(i)))
                                 \/ (i = old + 1 /\ ledger'[i] = new)
  BY <1>6, <1>7 DEF Written
<1>13. \A i \in 1..old : Written(i) =>
          \/ ledger[i].of.case \in DOMAIN runs[ledger[i].of.stage]
          \/ ledger[i].of = CurrentCase /\ i > prior
  BY <1>7 DEF GoldenInv, Placed
<1>14. \A s \in Stages : DOMAIN runs[s] \subseteq DOMAIN runs'[s]
  BY <1>5, <1>8
<1> HIDE DEF old, c
<1>15. Placed'
  <2> SUFFICES ASSUME NEW i \in DOMAIN ledger', Written(i)'
               PROVE  ledger'[i].of.case \in DOMAIN runs'[ledger'[i].of.stage]
    BY <1>2 DEF Placed
  <2>1. CaseNumber \in DOMAIN runs'[stage]
    BY <1>5, <1>8
  <2>2. CASE i \in 1..old /\ ledger'[i] = ledger[i] /\ Written(i)
    <3>1. ledger[i].of.stage \in Stages
      BY <1>7, <2>2, WrittenType DEF GoldenInv, Frame
    <3> QED
      BY <1>5, <1>13, <1>14, <2>1, <2>2, <3>1
  <2>3. CASE ledger'[i] = new
    BY <1>5, <2>1, <2>3
  <2> QED
    BY <1>12, <2>2, <2>3
<1>16. Allowed'
  <2> SUFFICES ASSUME NEW i \in DOMAIN ledger', Written(i)' PROVE AllowedRow(ledger[i])'
    BY DEF Allowed
  <2>1. AllowedRow(ledger'[i])
    <3>1. CASE ledger'[i] = ledger[i] /\ Written(i) /\ i \in 1..old
      BY <1>7, <3>1 DEF GoldenInv, Allowed
    <3>2. CASE ledger'[i] = new
      BY <1>4, <3>2 DEF AllowedRow
    <3> QED
      BY <1>12, <3>1, <3>2
  <2> QED
    BY <1>2, <2>1 DEF AllowedRow, RouteOf
<1>17. Counted'
  <2> SUFFICES ASSUME NEW s \in Stages, Exact(s)' PROVE CountedRows(s)'
    BY <1>2 DEF Counted, OneTry
  <2>1. Exact(s) /\ CountedRows(s) /\ (s = stage => OneTry)
    BY <1>9 DEF GoldenInv, Counted
  <2> SUFFICES ASSUME NEW i \in DOMAIN ledger', Written(i)', ledger'[i].of.stage = s,
                      ledger'[i].of.case \in DOMAIN runs'[s]
               PROVE  /\ runs'[s][ledger'[i].of.case].row # 0
                      /\ StandsFor(runs[s][ledger[i].of.case].row, i)'
    BY DEF CountedRows
  <2>2. CASE ledger'[i] = new /\ i = old + 1
    <3>1. runs'[s][ledger'[i].of.case] = c /\ c.row = old + 1
      BY <1>5, <1>8, <2>2 DEF c
    <3> QED
      BY <1>7, <2>2, <3>1 DEF StandsFor
  <2>3. CASE i \in 1..old /\ ledger'[i] = ledger[i] /\ Written(i)
    <3> DEFINE j == runs[s][ledger[i].of.case].row
    <3>1. ~(ledger[i].of = CurrentCase /\ i > prior)
      BY <1>5, <1>7, <2>1, <2>3 DEF GoldenInv, Frame, OneTry, old
    <3>2. ledger[i].of.case \in DOMAIN runs[s]
      BY <1>13, <2>3, <3>1
    <3>3. j # 0 /\ StandsFor(j, i) /\ j \in 0..old
      BY <1>7, <2>1, <2>3, <3>2 DEF CountedRows, GoldenInv, Records, Recorded, old
    <3>4. ledger'[j] = ledger[j]
      BY <1>6, <1>7, <3>3
    <3>5. runs'[s][ledger[i].of.case] = runs[s][ledger[i].of.case]
      BY <1>8, <3>2
    <3>6. j = (runs[s][ledger[i].of.case].row)'
      BY <2>3, <3>5
    <3>7. ledger'[j].of = ledger'[i].of /\ ledger'[j].cost = ledger'[i].cost
          /\ (i # j => ledger'[j].event = "budget_incident")
      BY <2>3, <3>3, <3>4 DEF StandsFor
    <3> QED
      BY <2>3, <3>3, <3>6, <3>7 DEF StandsFor
  <2> QED
    BY <1>12, <2>2, <2>3
<1> QED
  BY <1>10, <1>11, <1>15, <1>16, <1>17 DEF GoldenInv

\* The case is recorded by the last row of its route, the cases after it are skipped.
LEMMA FailureKeeps ==
    ASSUME GoldenInv, CaseFails
    PROVE  GoldenInv'
<1> DEFINE route == RouteOf(stage)
           last == FailedCaseRow(route)
           failed == [ran |-> TRUE, ok |-> FALSE, passed |-> FALSE, row |-> last,
                      cost |-> IF last = 0 THEN Unpriced ELSE ledger[last].cost]
           cases == [n \in 1..suite.cases |->
                        IF n < CaseNumber THEN runs[stage][n]
                        ELSE IF n = CaseNumber THEN failed ELSE Skipped]
<1>1. /\ pc = "failed" /\ pc' = "idle" /\ left' = {}
      /\ UNCHANGED <<suite, allow, stage, prior, ledger>>
      /\ runs' = [runs EXCEPT ![stage] =
                     [n \in 1..suite.cases |->
                        IF n < CaseNumber THEN @[n] ELSE IF n = CaseNumber THEN failed ELSE Skipped]]
  BY DEF CaseFails
<1>2. /\ stage \in Stages /\ CaseNumber <= suite.cases /\ suite.cases \in Nat
      /\ ledger \in Seq(Row) /\ prior \in 0..Len(ledger) /\ DOMAIN ledger = 1..Len(ledger)
      /\ runs \in [Stages -> Seq(Case)] /\ Len(ledger) \in Nat
  BY <1>1, SuiteFacts DEF GoldenInv, Frame
<1>3. /\ CurrentCase \in [stage: Stages, case: Nat] /\ CurrentCase # NoCase
      /\ CurrentCase.stage = stage /\ CurrentCase.case = CaseNumber
      /\ CaseNumber \in Nat /\ CaseNumber = Len(runs[stage]) + 1
      /\ DOMAIN runs[stage] = 1..Len(runs[stage])
  BY <1>2, CurrentType DEF GoldenInv
<1>4. /\ last \in 0..Len(ledger)
      /\ last # 0 => last > prior /\ ledger[last].route = route
      /\ \A j \in prior + 1..Len(ledger) : ledger[j].route = route => last # 0 /\ j <= last
  BY <1>2, LastRow
<1> HIDE DEF last, route
<1>5. failed \in Case
  <2>1. last # 0 => ledger[last] \in Row
    BY <1>2, <1>4
  <2> QED
    BY <1>4, <2>1 DEF Case, Cost, Row
<1>6. failed.row = last /\ failed.ok = FALSE /\ (last # 0 => failed.cost = ledger[last].cost)
  OBVIOUS
<1>7. Skipped \in Case /\ Skipped.row = 0
  BY DEF Skipped, Case, Cost
<1> HIDE DEF failed
<1>8. cases \in Seq(Case) /\ Len(cases) = suite.cases /\ DOMAIN cases = 1..suite.cases
  <2>1. \A n \in 1..suite.cases : n < CaseNumber => runs[stage][n] \in Case
    BY <1>2, <1>3
  <2>2. cases \in [1..suite.cases -> Case]
    BY <1>5, <1>7, <2>1
  <2>3. DOMAIN cases = 1..suite.cases /\ suite.cases \in Nat
    BY <1>2
  <2> HIDE DEF cases
  <2>4. cases \in Seq(Case)
    BY <2>2, <2>3
  <2>5. Len(cases) = suite.cases
    BY <2>3, <2>4
  <2> QED
    BY <2>3, <2>4, <2>5
<1>9. /\ \A n \in DOMAIN runs[stage] : n \in DOMAIN cases /\ cases[n] = runs[stage][n]
      /\ CaseNumber \in DOMAIN cases /\ cases[CaseNumber] = failed
      /\ \A n \in DOMAIN cases : n > CaseNumber => cases[n] = Skipped
  BY <1>2, <1>3, <1>8
<1>10. runs' = [runs EXCEPT ![stage] = cases]
  BY <1>1, <1>2
<1> HIDE DEF cases
<1>11. /\ runs' \in [Stages -> Seq(Case)] /\ runs'[stage] = cases
       /\ \A s \in Stages \ {stage} : runs'[s] = runs[s]
  BY <1>2, <1>8, <1>10
<1>12. \A s \in Stages : \A n \in DOMAIN runs[s] :
          n \in DOMAIN runs'[s] /\ runs'[s][n] = runs[s][n]
  BY <1>9, <1>11
<1>13. /\ \A s \in Stages : Exact(s)' => Exact(s)
       /\ \A s \in Stages : \A n : runs'[s][n] = runs[s][n] /\ Recorded(s, n)
                                      => Recorded(s, n)'
  <2>1. /\ ledger' \in Seq(Row) /\ Len(ledger) <= Len(ledger')
        /\ \A i \in 1..Len(ledger) : ledger'[i] = ledger[i]
    BY <1>1, <1>2
  <2> QED
    BY <2>1, Grows DEF GoldenInv
<1>14. Frame'
  BY <1>1, <1>2, <1>8, <1>11 DEF GoldenInv, Frame
<1>15. Records'
  <2> SUFFICES ASSUME NEW s \in Stages, NEW n \in DOMAIN runs'[s] PROVE Recorded(s, n)'
    BY DEF Records
  <2>1. CASE n \in DOMAIN runs[s]
    BY <1>12, <1>13, <2>1 DEF GoldenInv, Records
  <2>2. CASE s = stage /\ n = CaseNumber
    <3>1. runs'[s][n] = failed
      BY <1>9, <1>11, <2>2
    <3>2. last # 0 => ledger[last].of \in {NoCase, CurrentCase}
      BY <1>1, <1>2, <1>4 DEF GoldenInv, Placed
    <3>3. CurrentCase = [stage |-> s, case |-> n] /\ route = RouteOf(s)
      BY <2>2 DEF CurrentCase, route
    <3>4. RouteOf(s)' = RouteOf(s)
      BY DEF RouteOf
    <3> QED
      BY <1>1, <1>4, <1>6, <3>1, <3>2, <3>3, <3>4 DEF Recorded
  <2>3. CASE s = stage /\ n \in DOMAIN cases /\ n > CaseNumber
    BY <1>1, <1>2, <1>7, <1>9, <1>11, <2>3 DEF Recorded
  <2>4. s = stage /\ n \notin DOMAIN runs[s] => n \in DOMAIN cases /\ n >= CaseNumber
    BY <1>3, <1>8, <1>11
  <2> QED
    BY <1>3, <1>8, <1>11, <2>1, <2>2, <2>3, <2>4
<1>16. \A i \in DOMAIN ledger : Written(i) =>
          \/ ledger[i].of.case \in DOMAIN runs[ledger[i].of.stage]
          \/ ledger[i].of = CurrentCase /\ i > prior
  BY DEF GoldenInv, Placed
<1>17. \A i : Written(i)' <=> Written(i)
  BY <1>1 DEF Written
<1>18. Placed'
  <2> SUFFICES ASSUME NEW i \in DOMAIN ledger, Written(i)
               PROVE  ledger[i].of.case \in DOMAIN runs'[ledger[i].of.stage]
    BY <1>1, <1>17 DEF Placed
  <2>1. ledger[i].of.stage \in Stages
    BY <1>2, WrittenType
  <2> QED
    BY <1>3, <1>9, <1>11, <1>12, <1>16, <2>1
<1>19. Allowed'
  <2>1. \A i \in DOMAIN ledger : AllowedRow(ledger[i]) => AllowedRow(ledger[i])'
    BY <1>1 DEF AllowedRow, RouteOf
  <2> QED
    BY <1>1, <1>17, <2>1 DEF GoldenInv, Allowed
<1>20. Counted'
  <2> SUFFICES ASSUME NEW s \in Stages, Exact(s)' PROVE CountedRows(s)'
    BY <1>1 DEF Counted, OneTry
  <2>1. Exact(s) /\ CountedRows(s) /\ (s = stage => OneTry)
    BY <1>13 DEF GoldenInv, Counted
  <2>2. \A i, j : StandsFor(j, i)' <=> StandsFor(j, i)
    BY <1>1 DEF StandsFor
  <2> SUFFICES ASSUME NEW i \in DOMAIN ledger, Written(i), ledger[i].of.stage = s
               PROVE  /\ runs'[s][ledger[i].of.case].row # 0
                      /\ StandsFor(runs'[s][ledger[i].of.case].row, i)
    BY <1>1, <1>17, <2>2 DEF CountedRows, StandsFor
  <2>3. CASE ledger[i].of.case \in DOMAIN runs[s]
    BY <1>12, <2>1, <2>3 DEF CountedRows
  <2>4. CASE ledger[i].of = CurrentCase /\ i > prior
    <3>1. s = stage /\ runs'[s][ledger[i].of.case] = failed
      BY <1>3, <1>9, <1>11, <2>4
    <3>2. ledger[i].route = route
      <4>1. ledger[i].route \in Matches[RouteOf(stage)]
        BY <1>3, <2>4 DEF GoldenInv, Allowed, AllowedRow
      <4> QED
        BY <2>1, <3>1, <4>1 DEF Exact, route
    <3>3. i \in prior + 1..Len(ledger)
      BY <1>2, <2>4
    <3>4. last # 0 /\ i <= last /\ last \in prior + 1..Len(ledger) /\ ledger[last].route = route
      BY <1>2, <1>4, <3>2, <3>3
    <3>5. ledger[last].of # NoCase
      BY <1>2, <2>1, <3>1, <3>4 DEF Exact, Alone, route
    <3>6. ledger[last].of = CurrentCase
      BY <1>1, <3>4, <3>5 DEF GoldenInv, Placed
    <3>7. StandsFor(last, i)
      <4>1. CASE i = last
        BY <4>1 DEF StandsFor
      <4>2. CASE i # last
        <5>1. i < last
          BY <1>2, <3>3, <3>4, <4>2
        <5> QED
          BY <1>1, <2>1, <2>4, <3>1, <3>3, <3>4, <3>6, <5>1 DEF OneTry
      <4> QED
        BY <4>1, <4>2
    <3> QED
      BY <1>6, <3>1, <3>4, <3>7
  <2> QED
    BY <1>16, <2>3, <2>4
<1> QED
  BY <1>14, <1>15, <1>18, <1>19, <1>20 DEF GoldenInv

LEMMA BeginKeeps ==
    ASSUME GoldenInv, BeginCase
    PROVE  GoldenInv'
<1>1. /\ stage \in Stages /\ pc = "idle" /\ CaseNumber <= suite.cases
      /\ prior' = Len(ledger) /\ UNCHANGED <<suite, allow, stage, ledger, runs>>
  BY DEF BeginCase
<1>2. /\ left' \subseteq Admitted(Inventory, Asked)
      /\ pc' = IF left' = {} THEN "failed" ELSE "attempt"
  BY DEF BeginCase
<1>3. /\ ledger \in Seq(Row) /\ Len(ledger) \in Nat
      /\ \A i \in Len(ledger) + 1..Len(ledger) : FALSE
  BY DEF GoldenInv, Frame
<1>4. CaseNumber' = CaseNumber /\ CurrentCase' = CurrentCase /\ Asked' = Asked
      /\ \A s \in Stages : (Exact(s)' <=> Exact(s)) /\ RouteOf(s)' = RouteOf(s)
  BY <1>1 DEF CaseNumber, CurrentCase, Asked, RouteOf, Exact, Alone
<1>5. Frame'
  <2>1. left' \subseteq DOMAIN Inventory
    BY <1>2, AdmittedFacts
  <2> QED
    BY <1>1, <1>2, <1>3, <1>4, <2>1 DEF GoldenInv, Frame
<1>6. Records'
  BY <1>1, <1>4 DEF GoldenInv, Records, Recorded
<1>7. \A i : Written(i)' <=> Written(i)
  BY <1>1 DEF Written
<1>8. Placed'
  BY <1>1, <1>3, <1>7 DEF GoldenInv, Placed
<1>9. Allowed'
  <2>1. \A i \in DOMAIN ledger : AllowedRow(ledger[i]) => AllowedRow(ledger[i])'
    BY <1>1 DEF AllowedRow, RouteOf
  <2> QED
    BY <1>1, <1>7, <2>1 DEF GoldenInv, Allowed
<1>10. OneTry'
  BY <1>1, <1>3 DEF OneTry
<1>11. Counted'
  <2>1. ASSUME NEW s \in Stages, Exact(s)' PROVE CountedRows(s)'
    BY <1>1, <1>4, <1>7, <2>1 DEF GoldenInv, Counted, CountedRows, StandsFor
  <2> QED
    BY <1>10, <2>1 DEF Counted
<1> QED
  BY <1>5, <1>6, <1>8, <1>9, <1>11 DEF GoldenInv

LEMMA OtherKeeps ==
    ASSUME GoldenInv, OtherRow
    PROVE  GoldenInv'
<1> DEFINE old == Len(ledger)
<1>1. PICK r \in Compared, event \in Event, cost \in {0, Unpriced} :
         Write(NoCase, r, <<event>>, cost)
  BY DEF OtherRow
<1>2. UNCHANGED <<suite, allow, stage, pc, prior, left, runs>>
  BY DEF OtherRow
<1>3. r \in Routes /\ cost \in Cost
  BY GoldenConstants DEF Compared, IsInventory, Cost
<1>4. /\ ledger' \in Seq(Row) /\ Len(ledger') = old + 1
      /\ \A i \in 1..old : ledger'[i] = ledger[i]
      /\ ledger'[old + 1].of = NoCase
  <2> DEFINE events == <<event>>
  <2>1. events \in Seq(Event) /\ Len(events) = 1 /\ ledger \in Seq(Row) /\ old \in Nat
    BY DEF GoldenInv, Frame
  <2>2. Write(NoCase, r, events, cost) /\ NoCase \in [stage: Stages, case: Nat] \cup {NoCase}
    BY <1>1
  <2> HIDE DEF events
  <2>3. /\ ledger' \in Seq(Row) /\ Len(ledger') = old + Len(events)
        /\ \A i \in 1..old : ledger'[i] = ledger[i]
        /\ \A i \in old + 1..Len(ledger') :
              ledger'[i] = [of |-> NoCase, route |-> r,
                            event |-> events[i - old], cost |-> cost]
    BY <1>3, <2>1, <2>2, Appended
  <2>4. old + 1 \in old + 1..Len(ledger')
    BY <2>1, <2>3
  <2>5. ledger'[old + 1] = [of |-> NoCase, route |-> r,
                            event |-> events[old + 1 - old], cost |-> cost]
    BY <2>3, <2>4
  <2>6. ledger'[old + 1].of = NoCase
    BY <2>5
  <2> QED
    BY <2>1, <2>3, <2>6
<1>5. /\ old \in Nat /\ prior \in 0..old /\ DOMAIN ledger = 1..old
      /\ DOMAIN ledger' = 1..(old + 1)
  BY <1>4 DEF GoldenInv, Frame
<1>6. CaseNumber' = CaseNumber /\ CurrentCase' = CurrentCase /\ Asked' = Asked
  BY <1>2 DEF CaseNumber, CurrentCase, Asked, RouteOf
<1>7. /\ \A s \in Stages : Exact(s)' => Exact(s)
      /\ \A s \in Stages : \A n : Recorded(s, n) => Recorded(s, n)'
  <2>1. Len(ledger) <= Len(ledger')
    BY <1>4, <1>5
  <2> QED
    BY <1>2, <1>4, <2>1, Grows DEF GoldenInv
<1>8. \A i \in DOMAIN ledger' : Written(i)' => i \in 1..old /\ ledger'[i] = ledger[i] /\ Written(i)
  BY <1>4, <1>5 DEF Written
<1> HIDE DEF old
<1>9. Frame'
  <2>1. prior' \in 0..Len(ledger')
    BY <1>2, <1>4, <1>5
  <2> QED
    BY <1>2, <1>4, <1>6, <2>1 DEF GoldenInv, Frame
<1>10. Records'
  BY <1>2, <1>7 DEF GoldenInv, Records
<1>11. Placed'
  <2>1. \A i \in DOMAIN ledger' : Written(i)' =>
          \/ ledger'[i].of.case \in DOMAIN runs[ledger'[i].of.stage]
          \/ pc # "idle" /\ ledger'[i].of = CurrentCase /\ i > prior
    BY <1>5, <1>8 DEF GoldenInv, Placed
  <2>2. pc # "idle" =>
          \A i \in prior + 1..Len(ledger') : ledger'[i].of \in {NoCase, CurrentCase}
    <3> SUFFICES ASSUME pc # "idle", NEW i \in prior + 1..Len(ledger')
                 PROVE  ledger'[i].of \in {NoCase, CurrentCase}
      OBVIOUS
    <3>1. CASE i = old + 1
      BY <1>4, <3>1
    <3>2. CASE i # old + 1
      <4>1. i \in prior + 1..Len(ledger) /\ i \in 1..old
        BY <1>4, <1>5, <3>2 DEF old
      <4> QED
        BY <1>4, <4>1 DEF GoldenInv, Placed
    <3> QED
      BY <3>1, <3>2
  <2> QED
    BY <1>2, <1>6, <2>1, <2>2 DEF Placed
<1>12. Allowed'
  <2> SUFFICES ASSUME NEW i \in DOMAIN ledger', Written(i)' PROVE AllowedRow(ledger[i])'
    BY DEF Allowed
  <2>1. AllowedRow(ledger'[i])
    BY <1>5, <1>8 DEF GoldenInv, Allowed
  <2> QED
    BY <1>2, <2>1 DEF AllowedRow, RouteOf
<1>13. ASSUME NEW s \in Stages, Exact(s)' PROVE CountedRows(s)'
  <2>1. CountedRows(s)
    BY <1>7, <1>13 DEF GoldenInv, Counted
  <2> SUFFICES ASSUME NEW i \in DOMAIN ledger', Written(i)', ledger'[i].of.stage = s,
                      ledger'[i].of.case \in DOMAIN runs[s]
               PROVE  /\ runs[s][ledger'[i].of.case].row # 0
                      /\ StandsFor(runs[s][ledger[i].of.case].row, i)'
    BY <1>2 DEF CountedRows
  <2> DEFINE j == runs[s][ledger[i].of.case].row
  <2>2. i \in 1..old /\ ledger'[i] = ledger[i] /\ Written(i)
    BY <1>8
  <2>3. j # 0 /\ StandsFor(j, i) /\ j \in 0..old
    BY <1>5, <2>1, <2>2 DEF CountedRows, GoldenInv, Records, Recorded, old
  <2>4. ledger'[j] = ledger[j]
    BY <1>4, <1>5, <2>3
  <2>5. j = (runs[s][ledger[i].of.case].row)'
    BY <1>2, <2>2
  <2>6. ledger'[j].of = ledger'[i].of /\ ledger'[j].cost = ledger'[i].cost
        /\ (i # j => ledger'[j].event = "budget_incident")
    BY <2>2, <2>3, <2>4 DEF StandsFor
  <2> QED
    BY <2>2, <2>3, <2>5, <2>6 DEF StandsFor
<1>14. ASSUME Exact(stage)', stage \in Stages, OneTry PROVE OneTry'
  <2>1. \A i \in prior + 1..Len(ledger') : ledger'[i].of = CurrentCase =>
          i \in prior + 1..old /\ i \in 1..old /\ ledger'[i] = ledger[i]
    <3> SUFFICES ASSUME NEW i \in prior + 1..Len(ledger'), ledger'[i].of = CurrentCase
                 PROVE  i \in prior + 1..old /\ i \in 1..old /\ ledger'[i] = ledger[i]
      OBVIOUS
    <3>1. i # old + 1
      <4>1. CurrentCase # NoCase
        BY <1>14, CurrentType DEF GoldenInv
      <4> QED
        BY <1>4, <4>1
    <3>2. i \in prior + 1..old /\ i \in 1..old
      BY <1>4, <1>5, <3>1
    <3> QED
      BY <1>4, <3>2
  <2>2. ASSUME NEW i \in prior + 1..Len(ledger'), NEW j \in prior + 1..Len(ledger'), i < j,
               ledger'[i].of = CurrentCase, ledger'[j].of = CurrentCase, pc = "failed"
        PROVE  StandsFor(j, i)'
    BY <1>14, <2>1, <2>2 DEF OneTry, StandsFor, old
  <2>3. pc = "attempt" => \A i \in prior + 1..Len(ledger') : ledger'[i].of # CurrentCase
    BY <1>14, <2>1 DEF OneTry, old
  <2> QED
    BY <1>2, <1>6, <2>2, <2>3 DEF OneTry
<1>15. Counted'
  BY <1>2, <1>7, <1>13, <1>14 DEF GoldenInv, Counted
<1> QED
  BY <1>9, <1>10, <1>11, <1>12, <1>15 DEF GoldenInv

\* Resolve, FinishRun and Decide happen between the cases.
LEMMA BetweenKeeps ==
    ASSUME GoldenInv, pc = "idle", stage' \in Stages \cup {"resolve", "report", "refused"},
           UNCHANGED <<suite, allow, pc, prior, left, ledger, runs>>
    PROVE  GoldenInv'
<1>1. \A s \in Stages : (Exact(s)' <=> Exact(s)) /\ RouteOf(s)' = RouteOf(s)
  BY DEF RouteOf, Exact, Alone
<1>2. \A i : Written(i)' <=> Written(i)
  BY DEF Written
<1>3. Frame'
  BY DEF GoldenInv, Frame
<1>4. Records'
  BY <1>1 DEF GoldenInv, Records, Recorded
<1>5. Placed'
  BY <1>2 DEF GoldenInv, Placed
<1>6. Allowed'
  <2>1. \A i \in DOMAIN ledger : AllowedRow(ledger[i]) => AllowedRow(ledger[i])'
    BY DEF AllowedRow, RouteOf
  <2> QED
    BY <1>2, <2>1 DEF GoldenInv, Allowed
<1>7. OneTry'
  BY DEF OneTry
<1>8. Counted'
  <2>1. ASSUME NEW s \in Stages, Exact(s)' PROVE CountedRows(s)'
    BY <1>1, <1>2, <2>1 DEF GoldenInv, Counted, CountedRows, StandsFor
  <2> QED
    BY <1>7, <2>1 DEF Counted
<1> QED
  BY <1>3, <1>4, <1>5, <1>6, <1>8 DEF GoldenInv

LEMMA GoldenStep == GoldenInv /\ [Next]_vars => GoldenInv'
<1> SUFFICES ASSUME GoldenInv, [Next]_vars PROVE GoldenInv'
  OBVIOUS
<1>1. stage \notin Stages => pc = "idle"
  BY DEF GoldenInv, Frame
<1>2. CASE Resolve
  BY <1>1, <1>2, BetweenKeeps DEF Resolve, Stages
<1>3. CASE BeginCase
  BY <1>3, BeginKeeps
<1>4. CASE Attempt
  BY <1>4, RefuseKeeps, AnswerKeeps DEF Attempt
<1>5. CASE CaseFails
  BY <1>5, FailureKeeps
<1>6. CASE FinishRun
  BY <1>6, BetweenKeeps DEF FinishRun, Stages
<1>7. CASE Decide
  <2>1. stage' = "report" /\ pc = "idle"
    BY <1>1, <1>7 DEF Decide, Stages
  <2> QED
    BY <1>7, <2>1, BetweenKeeps DEF Decide
<1>8. CASE OtherRow
  BY <1>8, OtherKeeps
<1>9. CASE UNCHANGED vars
  <2>1. stage' \in Stages \cup {"resolve", "report", "refused"}
    BY <1>9 DEF vars, GoldenInv, Frame
  <2>2. GoldenInv' <=> GoldenInv
    BY <1>9 DEF vars, GoldenInv, Frame, Records, Recorded, Placed, Written, Allowed,
                AllowedRow, Counted, CountedRows, OneTry, StandsFor, Exact, Alone,
                CaseNumber, CurrentCase, Asked, RouteOf
  <2> QED
    BY <2>2
<1> QED
  BY <1>2, <1>3, <1>4, <1>5, <1>6, <1>7, <1>8, <1>9 DEF Next

LEMMA GoldenInvariant == GoldenSpec => []GoldenInv
BY GoldenInit, GoldenStep, PTL DEF GoldenSpec

-----------------------------------------------------------------------------
(* What a promotion rests on *)

\* A case that has an answer ran, and is recorded by the row of the answer.
Answers ==
    \A s \in Stages : \A n \in DOMAIN runs[s] :
        runs[s][n].ok => runs[s][n].ran /\ runs[s][n].row # 0

\* A call that can try one route only writes nothing before it ends, so a case that was
\* answered has no other row, whatever other processes do.
Sole(s) == Matches[RouteOf(s)] = {RouteOf(s)}
OneRow(s) ==
    \A i \in DOMAIN ledger :
        /\ Written(i) /\ ledger[i].of.stage = s
        /\ ledger[i].of.case \in DOMAIN runs[s] /\ runs[s][ledger[i].of.case].ok
        => i = runs[s][ledger[i].of.case].row
Untried == pc = "attempt" => \A i \in prior + 1..Len(ledger) : ledger[i].of # CurrentCase
Lone == \A s \in Stages : Sole(s) => OneRow(s) /\ (s = stage => Untried)

\* The report does not change once a decision read it, and a candidate that passed the
\* gates was followed by its baseline.
Course ==
    /\ stage = "report" /\ Baseline # NoRoute /\ PassesBaselineEntry =>
          Len(runs["baseline"]) = suite.cases
    /\ verdict.status = "pass" =>
          /\ stage = "report"
          /\ HardGates /\ BaselineGates /\ ReviewGates(verdict.review)

EarnedInv == Answers /\ Lone /\ Course

LEMMA EarnedInit == Init => EarnedInv
BY DEF Init, EarnedInv, Answers, Lone, OneRow, Untried, Course, Stages

\* Writing only appends.
LEMMA Grown ==
    ASSUME GoldenInv, NEW of \in [stage: Stages, case: Nat] \cup {NoCase},
           NEW r \in Routes, NEW events \in Seq(Event), NEW cost \in Cost,
           Write(of, r, events, cost)
    PROVE  \A i \in DOMAIN ledger' :
              \/ i \in DOMAIN ledger /\ ledger'[i] = ledger[i]
              \/ i \in Len(ledger) + 1..Len(ledger') /\ ledger'[i].of = of
<1>1. ledger \in Seq(Row) /\ Len(ledger) \in Nat /\ DOMAIN ledger = 1..Len(ledger)
  BY DEF GoldenInv, Frame
<1>2. /\ ledger' \in Seq(Row) /\ Len(ledger') = Len(ledger) + Len(events)
      /\ \A i \in 1..Len(ledger) : ledger'[i] = ledger[i]
      /\ \A i \in Len(ledger) + 1..Len(ledger') :
            ledger'[i] = [of |-> of, route |-> r,
                          event |-> events[i - Len(ledger)], cost |-> cost]
  BY <1>1, Appended
<1>3. ASSUME NEW i \in Len(ledger) + 1..Len(ledger') PROVE ledger'[i].of = of
  <2>1. ledger'[i] = [of |-> of, route |-> r,
                      event |-> events[i - Len(ledger)], cost |-> cost]
    BY <1>2
  <2> QED
    BY <2>1
<1>4. DOMAIN ledger' = 1..Len(ledger') /\ Len(ledger') \in Nat
  BY <1>2
<1> QED
  BY <1>1, <1>2, <1>3, <1>4

\* The routes a call tries, if the filters match its route alone.
LEMMA SoleRoute ==
    ASSUME GoldenInv, Sole(stage), NEW r \in left, pc = "attempt"
    PROVE  left = {r}
<1>1. left \subseteq Matches[RouteOf(stage)]
  BY AdmittedFacts DEF GoldenInv, Frame
<1> QED
  BY <1>1 DEF Sole

LEMMA FailingEarned ==
    ASSUME GoldenInv, EarnedInv, pc = "attempt", NEW r \in left,
           NEW events \in Seq(Event), NEW cost \in Cost, Failing(r, events, cost)
    PROVE  Answers' /\ Lone'
<1>1. /\ UNCHANGED <<suite, stage, prior, runs>>
      /\ left' \subseteq left \ {r} /\ pc' = IF left' = {} THEN "failed" ELSE "attempt"
      /\ Write(CurrentCase, r, events, cost)
  BY DEF Failing, WriteOwn, CurrentCase
<1>2. stage \in Stages /\ r \in Routes
  BY AdmittedFacts DEF GoldenInv, Frame
<1>3. /\ CurrentCase \in [stage: Stages, case: Nat]
      /\ CurrentCase.stage = stage /\ CurrentCase.case \notin DOMAIN runs[stage]
  BY <1>2, CurrentType DEF GoldenInv
<1>4. \A i \in DOMAIN ledger' : \/ i \in DOMAIN ledger /\ ledger'[i] = ledger[i]
                                \/ ledger'[i].of = CurrentCase
  BY <1>1, <1>2, <1>3, Grown
<1>5. Answers'
  BY <1>1 DEF EarnedInv, Answers
<1>6. ASSUME NEW s \in Stages, Sole(s) PROVE OneRow(s)'
  <2>1. OneRow(s)
    BY <1>6 DEF EarnedInv, Lone
  <2>2. \A i \in DOMAIN ledger' :
           ledger'[i].of.stage = s /\ ledger'[i].of.case \in DOMAIN runs[s]
              => i \in DOMAIN ledger /\ ledger'[i] = ledger[i]
    BY <1>3, <1>4
  <2> QED
    BY <1>1, <2>1, <2>2 DEF OneRow, Written
<1>7. Sole(stage) => Untried'
  <2>1. Sole(stage) => left' = {}
    BY <1>1, SoleRoute
  <2> QED
    BY <1>1, <2>1 DEF Untried
<1>8. \A s \in Stages : Sole(s)' <=> Sole(s)
  BY DEF Sole, RouteOf
<1> QED
  BY <1>1, <1>5, <1>6, <1>7, <1>8 DEF Lone

\* The row of an answer is the only one of its case.
LEMMA AnswerEarned ==
    ASSUME GoldenInv, EarnedInv, pc = "attempt", NEW r \in left, Answer(r)
    PROVE  Answers' /\ Lone'
<1> DEFINE old == Len(ledger)
<1>1. PICK passed \in BOOLEAN, cost \in Cost :
         /\ WriteOwn(r, <<"model_call">>, cost)
         /\ runs' = [runs EXCEPT ![stage] = Append(@,
                       [ran |-> TRUE, ok |-> TRUE, passed |-> passed,
                        row |-> old + 1, cost |-> cost])]
  <2>1. Inventory[r].price \in Cost /\ 0 \in Cost
    BY AdmittedFacts DEF GoldenInv, Frame, Cost
  <2> QED
    BY <2>1 DEF Answer
<1> DEFINE c == [ran |-> TRUE, ok |-> TRUE, passed |-> passed, row |-> old + 1, cost |-> cost]
<1>2. pc' = "idle" /\ UNCHANGED <<suite, stage, prior>>
  BY DEF Answer
<1>3. stage \in Stages /\ r \in Routes
  BY AdmittedFacts DEF GoldenInv, Frame
<1>4. /\ CurrentCase \in [stage: Stages, case: Nat]
      /\ CurrentCase.stage = stage /\ CurrentCase.case = CaseNumber
      /\ CaseNumber \in Nat /\ CaseNumber = Len(runs[stage]) + 1
      /\ DOMAIN runs[stage] = 1..Len(runs[stage])
  BY <1>3, CurrentType DEF GoldenInv
<1>5. \A i \in DOMAIN ledger' : \/ i \in DOMAIN ledger /\ ledger'[i] = ledger[i]
                                \/ i = old + 1 /\ ledger'[i].of = CurrentCase
  <2> DEFINE events == <<"model_call">>
  <2>1. /\ events \in Seq(Event) /\ Len(events) = 1 /\ old \in Nat /\ ledger \in Seq(Row)
    BY DEF Event, Sampled, GoldenInv, Frame
  <2>2. Write(CurrentCase, r, events, cost)
    BY <1>1 DEF WriteOwn, CurrentCase
  <2> HIDE DEF events
  <2>3. \A i \in DOMAIN ledger' : \/ i \in DOMAIN ledger /\ ledger'[i] = ledger[i]
                                  \/ i \in old + 1..Len(ledger') /\ ledger'[i].of = CurrentCase
    BY <1>3, <1>4, <2>1, <2>2, Grown
  <2>4. Len(ledger') = old + 1
    BY <1>3, <1>4, <2>1, <2>2, Appended
  <2> QED
    BY <2>1, <2>3, <2>4
<1>6. /\ \A s \in Stages \ {stage} : runs'[s] = runs[s]
      /\ DOMAIN runs'[stage] = DOMAIN runs[stage] \cup {CaseNumber}
      /\ \A n \in DOMAIN runs[stage] : runs'[stage][n] = runs[stage][n]
      /\ runs'[stage][CaseNumber] = c
  <2>1. runs \in [Stages -> Seq(Case)] /\ runs[stage] \in Seq(Case) /\ c \in Case
    <3>1. runs \in [Stages -> Seq(Case)] /\ old \in Nat
      BY DEF GoldenInv, Frame
    <3>2. c \in Case
      BY <3>1 DEF Case
    <3> QED
      BY <1>3, <3>1, <3>2
  <2>2. runs' = [runs EXCEPT ![stage] = Append(@, c)]
    BY <1>1
  <2> HIDE DEF c
  <2>3. runs'[stage] = Append(runs[stage], c) /\ \A s \in Stages \ {stage} : runs'[s] = runs[s]
    BY <1>3, <2>1, <2>2
  <2>4. DOMAIN Append(runs[stage], c) = DOMAIN runs[stage] \cup {CaseNumber}
    BY <1>4, <2>1
  <2> QED
    BY <1>4, <2>1, <2>3, <2>4
<1>7. c.ok /\ c.ran /\ c.row = old + 1 /\ old + 1 # 0
  BY DEF GoldenInv, Frame
<1> HIDE DEF c
<1>8. Answers'
  <2> SUFFICES ASSUME NEW s \in Stages, NEW n \in DOMAIN runs'[s], runs'[s][n].ok
               PROVE  runs'[s][n].ran /\ runs'[s][n].row # 0
    BY DEF Answers
  <2>1. CASE s = stage /\ n = CaseNumber
    BY <1>6, <1>7, <2>1
  <2>2. CASE n \in DOMAIN runs[s] /\ runs'[s][n] = runs[s][n]
    BY <2>2 DEF EarnedInv, Answers
  <2> QED
    BY <1>6, <2>1, <2>2
<1>9. ASSUME NEW s \in Stages, Sole(s) PROVE OneRow(s)'
  <2>1. OneRow(s) /\ (s = stage => Untried)
    BY <1>9 DEF EarnedInv, Lone
  <2> SUFFICES ASSUME NEW i \in DOMAIN ledger', Written(i)', ledger'[i].of.stage = s,
                      ledger'[i].of.case \in DOMAIN runs'[s],
                      runs'[s][ledger'[i].of.case].ok
               PROVE  i = runs'[s][ledger'[i].of.case].row
    BY DEF OneRow
  <2>2. CASE i = old + 1 /\ ledger'[i].of = CurrentCase
    BY <1>4, <1>6, <1>7, <2>2
  <2>3. CASE i \in DOMAIN ledger /\ ledger'[i] = ledger[i]
    <3>1. Written(i) /\ ledger[i].of.stage = s
      BY <2>3 DEF Written
    <3>2. ledger[i].of.case \in DOMAIN runs[s]
      <4>1. ASSUME s = stage, ledger[i].of = CurrentCase, i > prior PROVE FALSE
        <5>1. i \in prior + 1..Len(ledger)
          BY <2>3, <4>1 DEF GoldenInv, Frame
        <5> QED
          BY <2>1, <4>1, <5>1 DEF Untried
      <4>2. ~(ledger[i].of = CurrentCase /\ i > prior)
        BY <1>4, <3>1, <4>1
      <4> QED
        BY <2>3, <3>1, <4>2 DEF GoldenInv, Placed
    <3>3. runs'[s][ledger[i].of.case] = runs[s][ledger[i].of.case]
      BY <1>6, <3>2
    <3> QED
      BY <2>1, <2>3, <3>1, <3>2, <3>3 DEF OneRow
  <2> QED
    BY <1>5, <2>2, <2>3
<1>10. \A s \in Stages : Sole(s)' <=> Sole(s)
  BY DEF Sole, RouteOf
<1> QED
  BY <1>2, <1>8, <1>9, <1>10 DEF Lone, Untried

\* A case that fails, and the skipped ones, have no answer.
LEMMA FailureEarned ==
    ASSUME GoldenInv, EarnedInv, CaseFails
    PROVE  Answers' /\ Lone'
<1>1. pc = "failed" /\ pc' = "idle" /\ UNCHANGED <<suite, stage, prior, ledger>>
  BY DEF CaseFails
<1>2. stage \in Stages
  BY <1>1 DEF GoldenInv, Frame
<1>3. \A s \in Stages \ {stage} : runs'[s] = runs[s]
  BY DEF CaseFails, GoldenInv, Frame
<1>4. \A n \in DOMAIN runs'[stage] :
         (n \in DOMAIN runs[stage] /\ runs'[stage][n] = runs[stage][n]) \/ runs'[stage][n].ok = FALSE
  <2> DEFINE i == FailedCaseRow(RouteOf(stage))
             failed == [ran |-> TRUE, ok |-> FALSE, passed |-> FALSE, row |-> i,
                        cost |-> IF i = 0 THEN Unpriced ELSE ledger[i].cost]
             cases == [n \in 1..suite.cases |->
                          IF n < CaseNumber THEN runs[stage][n]
                          ELSE IF n = CaseNumber THEN failed ELSE Skipped]
  <2>1. runs'[stage] = cases
    BY <1>2 DEF CaseFails, GoldenInv, Frame
  <2>2. failed.ok = FALSE /\ Skipped.ok = FALSE
    BY DEF Skipped
  <2>3. CaseNumber = Len(runs[stage]) + 1 /\ DOMAIN runs[stage] = 1..Len(runs[stage])
        /\ Len(runs[stage]) \in Nat
    BY <1>2, CurrentType DEF GoldenInv, Frame
  <2> HIDE DEF failed
  <2> SUFFICES ASSUME NEW n \in 1..suite.cases
               PROVE  (n \in DOMAIN runs[stage] /\ cases[n] = runs[stage][n]) \/ cases[n].ok = FALSE
    BY <2>1
  <2>4. CASE n < CaseNumber
    BY <2>3, <2>4
  <2>5. CASE ~(n < CaseNumber)
    BY <2>2, <2>5
  <2> QED
    BY <2>4, <2>5
<1>5. \A s \in Stages : \A n \in DOMAIN runs'[s] :
         runs'[s][n].ok => n \in DOMAIN runs[s] /\ runs'[s][n] = runs[s][n]
  BY <1>3, <1>4
<1>6. Answers'
  BY <1>5 DEF EarnedInv, Answers
<1>7. ASSUME NEW s \in Stages, Sole(s) PROVE OneRow(s)'
  <2>1. OneRow(s)
    BY <1>7 DEF EarnedInv, Lone
  <2> QED
    BY <1>1, <1>5, <2>1 DEF OneRow, Written
<1>8. \A s \in Stages : Sole(s)' <=> Sole(s)
  BY DEF Sole, RouteOf
<1> QED
  BY <1>1, <1>6, <1>7, <1>8 DEF Lone, Untried

LEMMA OtherEarned ==
    ASSUME GoldenInv, EarnedInv, OtherRow
    PROVE  Answers' /\ Lone'
<1>1. UNCHANGED <<suite, stage, pc, prior, runs>>
  BY DEF OtherRow
<1>2. PICK r \in Compared, event \in Event, cost \in {0, Unpriced} :
         Write(NoCase, r, <<event>>, cost)
  BY DEF OtherRow
<1>3. r \in Routes /\ cost \in Cost
  BY GoldenConstants DEF Compared, IsInventory, Cost
<1>4. \A i \in DOMAIN ledger' : \/ i \in DOMAIN ledger /\ ledger'[i] = ledger[i]
                                \/ ledger'[i].of = NoCase
  <2> DEFINE events == <<event>>
  <2>1. events \in Seq(Event) /\ Write(NoCase, r, events, cost)
    BY <1>2
  <2> HIDE DEF events
  <2> QED
    BY <1>3, <2>1, Grown
<1>5. Answers'
  BY <1>1 DEF EarnedInv, Answers
<1>6. ASSUME NEW s \in Stages, Sole(s) PROVE OneRow(s)'
  <2>1. OneRow(s)
    BY <1>6 DEF EarnedInv, Lone
  <2> QED
    BY <1>1, <1>4, <2>1 DEF OneRow, Written
<1>7. ASSUME stage \in Stages, Untried PROVE Untried'
  <2>1. CurrentCase # NoCase /\ CurrentCase' = CurrentCase
    BY <1>1, <1>7, CurrentType DEF GoldenInv, CurrentCase, CaseNumber
  <2>2. DOMAIN ledger = 1..Len(ledger) /\ DOMAIN ledger' = 1..Len(ledger')
        /\ Len(ledger) \in Nat /\ Len(ledger') \in Nat /\ prior \in Nat
    BY OtherKeeps DEF GoldenInv, Frame
  <2> SUFFICES ASSUME pc = "attempt", NEW i \in prior + 1..Len(ledger')
               PROVE  ledger'[i].of # CurrentCase
    BY <1>1, <2>1 DEF Untried
  <2>3. i \in DOMAIN ledger'
    BY <2>2
  <2>4. CASE ledger'[i].of = NoCase
    BY <2>1, <2>4
  <2>5. CASE i \in DOMAIN ledger /\ ledger'[i] = ledger[i]
    <3>1. i \in prior + 1..Len(ledger)
      BY <2>2, <2>5
    <3> QED
      BY <1>7, <2>5, <3>1 DEF Untried
  <2> QED
    BY <1>4, <2>3, <2>4, <2>5
<1>8. \A s \in Stages : Sole(s)' <=> Sole(s)
  BY DEF Sole, RouteOf
<1> QED
  BY <1>1, <1>5, <1>6, <1>7, <1>8 DEF EarnedInv, Lone

\* BeginCase and what happens between the cases leave the ledger and the records alone.
LEMMA QuietEarned ==
    ASSUME GoldenInv, EarnedInv, UNCHANGED <<ledger, runs>>,
           pc' = "attempt" => prior' = Len(ledger) \/ UNCHANGED <<stage, pc, prior>>
    PROVE  Answers' /\ Lone'
<1>1. Answers'
  BY DEF EarnedInv, Answers
<1>2. \A s \in Stages : (Sole(s)' <=> Sole(s)) /\ (OneRow(s)' <=> OneRow(s))
  BY DEF Sole, RouteOf, OneRow, Written
<1>3. ASSUME stage' \in Stages, Sole(stage') PROVE Untried'
  <2>1. CASE prior' = Len(ledger)
    BY <2>1 DEF Untried, GoldenInv, Frame
  <2>2. CASE UNCHANGED <<stage, pc, prior>>
    BY <1>3, <2>2 DEF EarnedInv, Lone, Untried, CurrentCase, CaseNumber
  <2> QED
    BY <2>1, <2>2 DEF Untried
<1> QED
  BY <1>1, <1>2, <1>3 DEF EarnedInv, Lone

\* The gates read the suite and the records.
LEMMA SameReport ==
    ASSUME UNCHANGED <<suite, runs>>
    PROVE  /\ HardGates' <=> HardGates
           /\ BaselineGates' <=> BaselineGates
           /\ PassesBaselineEntry' <=> PassesBaselineEntry
           /\ \A review : ReviewGates(review)' <=> ReviewGates(review)
BY DEF HardGates, PassesBaselineEntry, BaselineGates, ReviewGates, HasBaseline, Regression,
       Passed, Succeeded, UnknownCosts, TotalCost, Ran

LEMMA CourseStep ==
    ASSUME GoldenInv, Course, [Next]_vars
    PROVE  Course'
<1>1. stage = "report" => pc = "idle" /\ stage \notin Stages
  BY DEF GoldenInv, Frame, Stages
<1>2. ASSUME stage # "report", stage' # "report", verdict' = verdict PROVE Course'
  BY <1>2 DEF Course
<1>3. ASSUME UNCHANGED <<suite, stage, runs, verdict>> PROVE Course'
  BY <1>3, SameReport DEF Course
<1>4. CASE Resolve
  BY <1>2, <1>4 DEF Resolve
<1>5. CASE BeginCase
  BY <1>1, <1>2, <1>5 DEF BeginCase, Stages
<1>6. CASE Attempt
  <2>1. UNCHANGED <<stage, verdict>>
    BY <1>6 DEF Attempt, Refuse, Fail, Invalid, Overrun, Answer, NextTry, End
  <2>2. stage # "report"
    BY <1>1, <1>6 DEF Attempt
  <2> QED
    BY <1>2, <2>1, <2>2
<1>7. CASE CaseFails
  BY <1>1, <1>2, <1>7 DEF CaseFails
<1>8. CASE FinishRun
  <2>1. /\ stage \in Stages /\ CaseNumber > suite.cases /\ UNCHANGED <<suite, runs, verdict>>
        /\ stage' = IF stage = "candidate" /\ Baseline # NoRoute /\ PassesBaselineEntry
                    THEN "baseline" ELSE "report"
    BY <1>8 DEF FinishRun
  <2>2. verdict'.status # "pass"
    BY <1>1, <2>1 DEF Course
  <2>3. ASSUME stage' = "report", Baseline # NoRoute, PassesBaselineEntry
        PROVE  Len(runs["baseline"]) = suite.cases
    <3>1. stage = "baseline"
      BY <2>1, <2>3 DEF Stages
    <3>2. Len(runs["baseline"]) <= suite.cases /\ runs["baseline"] \in Seq(Case)
      BY DEF GoldenInv, Frame, Stages
    <3>3. suite.cases \in Nat
      BY SuiteFacts DEF GoldenInv, Frame
    <3> QED
      BY <2>1, <3>1, <3>2, <3>3 DEF CaseNumber
  <2> QED
    BY <2>1, <2>2, <2>3, SameReport DEF Course
<1>9. CASE Decide
  <2>1. stage = "report" /\ UNCHANGED <<suite, stage, runs>>
    BY <1>9 DEF Decide
  <2>2. verdict'.status = "pass" => HardGates /\ BaselineGates /\ ReviewGates(verdict'.review)
    BY <1>9 DEF Decide
  <2> QED
    BY <2>1, <2>2, SameReport DEF Course
<1>10. CASE OtherRow
  BY <1>3, <1>10 DEF OtherRow
<1>11. CASE UNCHANGED vars
  BY <1>3, <1>11 DEF vars
<1> QED
  BY <1>4, <1>5, <1>6, <1>7, <1>8, <1>9, <1>10, <1>11 DEF Next

LEMMA EarnedStep == GoldenInv /\ EarnedInv /\ [Next]_vars => EarnedInv'
<1> SUFFICES ASSUME GoldenInv, EarnedInv, [Next]_vars PROVE EarnedInv'
  OBVIOUS
<1>1. Course'
  BY CourseStep DEF EarnedInv
<1> SUFFICES Answers' /\ Lone'
  BY <1>1 DEF EarnedInv
<1>2. ASSUME UNCHANGED <<ledger, runs>>, pc' # "attempt" \/ UNCHANGED <<stage, pc, prior>>
      PROVE  Answers' /\ Lone'
  BY <1>2, QuietEarned
<1>3. ASSUME pc = "idle", UNCHANGED <<ledger, runs, pc>> PROVE Answers' /\ Lone'
  BY <1>2, <1>3
<1>4. stage \notin Stages => pc = "idle"
  BY DEF GoldenInv, Frame
<1>5. CASE Resolve
  BY <1>3, <1>4, <1>5 DEF Resolve, Stages
<1>6. CASE BeginCase
  BY <1>6, QuietEarned DEF BeginCase
<1>7. CASE Attempt
  <2>1. PICK r \in left : Refuse(r) \/ Fail(r) \/ Invalid(r) \/ Overrun(r) \/ Answer(r)
    BY <1>7 DEF Attempt
  <2>2. CASE Answer(r)
    BY <1>7, <2>2, AnswerEarned DEF Attempt
  <2>3. CASE Refuse(r) \/ Fail(r) \/ Invalid(r) \/ Overrun(r)
    <3>1. PICK events \in Seq(Event), cost \in Cost : Failing(r, events, cost)
      BY <1>7, <2>3, Failures DEF Attempt
    <3> QED
      BY <1>7, <3>1, FailingEarned DEF Attempt
  <2> QED
    BY <2>1, <2>2, <2>3
<1>8. CASE CaseFails
  BY <1>8, FailureEarned
<1>9. CASE FinishRun
  BY <1>3, <1>9 DEF FinishRun
<1>10. CASE Decide
  BY <1>3, <1>4, <1>10 DEF Decide, Stages
<1>11. CASE OtherRow
  BY <1>11, OtherEarned
<1>12. CASE UNCHANGED vars
  BY <1>2, <1>12 DEF vars
<1> QED
  BY <1>5, <1>6, <1>7, <1>8, <1>9, <1>10, <1>11, <1>12 DEF Next

LEMMA EarnedInvariant == GoldenSpec => [](GoldenInv /\ EarnedInv)
<1>1. Init => EarnedInv
  BY EarnedInit
<1>2. GoldenInv /\ EarnedInv /\ [Next]_vars => EarnedInv'
  BY EarnedStep
<1> QED
  BY <1>1, <1>2, GoldenInvariant, PTL DEF GoldenSpec

\* At least three cases are asked for.
LEMMA ThreeCases ==
    ASSUME suite \in {Normalised(s) : s \in Suites}
    PROVE  suite.minCases \in Nat /\ suite.minCases >= 3 /\ suite.maxCost \in Nat
<1>1. PICK s \in SuiteInfo : suite = Normalised(s)
  BY GoldenConstants
<1>2. suite.minCases = AtLeast(3, OrElse(s.minCases, 5)) /\ suite.maxCost = Given(s.maxCost, 0)
  BY <1>1 DEF Normalised, SuiteInfo
<1>3. s.minCases \in Nat \cup {Absent} /\ s.maxCost \in Nat \cup {Absent}
  BY DEF SuiteInfo, Threshold
<1>4. OrElse(s.minCases, 5) \in Nat /\ Given(s.maxCost, 0) \in Nat
  BY <1>3 DEF OrElse, Given
<1> QED
  BY <1>2, <1>4 DEF AtLeast

\* Of a run as many of whose cases succeeded as the suite has, all did.
LEMMA AllSucceeded ==
    ASSUME GoldenInv, NEW s \in Stages, Cardinality(Succeeded(s)) = suite.cases
    PROVE  /\ DOMAIN runs[s] = 1..suite.cases /\ Len(runs[s]) = suite.cases
           /\ \A n \in 1..suite.cases : runs[s][n].ok
<1>1. runs[s] \in Seq(Case) /\ Len(runs[s]) <= suite.cases
  BY DEF GoldenInv, Frame
<1>2. suite.cases \in Nat /\ Len(runs[s]) \in Nat /\ DOMAIN runs[s] = 1..Len(runs[s])
  BY <1>1, SuiteFacts DEF GoldenInv, Frame
<1>3. IsFiniteSet(1..Len(runs[s])) /\ Cardinality(1..Len(runs[s])) = Len(runs[s])
  <2>1. 1 \in Int /\ Len(runs[s]) \in Int
    BY <1>2
  <2>2. IsFiniteSet(1..Len(runs[s]))
        /\ Cardinality(1..Len(runs[s])) = IF 1 > Len(runs[s]) THEN 0 ELSE Len(runs[s]) - 1 + 1
    BY <2>1, FS_Interval
  <2> QED
    BY <1>2, <2>2
<1>4. Succeeded(s) \subseteq 1..Len(runs[s])
  BY <1>2 DEF Succeeded
<1>5. /\ Cardinality(Succeeded(s)) <= Len(runs[s])
      /\ Cardinality(Succeeded(s)) = Len(runs[s]) => Succeeded(s) = 1..Len(runs[s])
  BY <1>3, <1>4, FS_Subset
<1>6. Len(runs[s]) = suite.cases
  BY <1>1, <1>2, <1>5
<1>7. Succeeded(s) = 1..suite.cases
  BY <1>5, <1>6
<1> QED
  BY <1>2, <1>6, <1>7 DEF Succeeded

LEMMA InvGivesPromotion == GoldenInv /\ EarnedInv => PromotionIsEarned
<1> SUFFICES ASSUME GoldenInv, EarnedInv, verdict.status = "pass" PROVE PromotionIsEarned
  BY DEF PromotionIsEarned
<1> DEFINE C == "candidate"
           row(n) == runs["candidate"][n].row
<1>1. stage = "report" /\ pc = "idle" /\ HardGates /\ BaselineGates /\ ReviewGates(verdict.review)
  BY DEF EarnedInv, Course, GoldenInv, Frame, Stages
<1>2. C \in Stages /\ "baseline" \in Stages
  BY DEF Stages
<1>3. suite.cases \in Nat /\ suite.minCases \in Nat /\ suite.minCases >= 3 /\ suite.maxCost \in Nat
  BY SuiteFacts, ThreeCases DEF GoldenInv, Frame
<1>4. /\ DOMAIN runs[C] = 1..suite.cases /\ Len(runs[C]) = suite.cases
      /\ \A n \in 1..suite.cases : runs[C][n].ok
  BY <1>1, <1>2, AllSucceeded DEF HardGates
<1>5. suite.cases >= 3
  BY <1>1, <1>3, <1>4 DEF HardGates
<1>6. \A n \in 1..suite.cases :
         /\ row(n) \in DOMAIN ledger /\ runs[C][n].ran
         /\ ledger[row(n)].of = [stage |-> C, case |-> n]
         /\ ledger[row(n)].event = "model_call" /\ ledger[row(n)].cost = runs[C][n].cost
  <2> SUFFICES ASSUME NEW n \in 1..suite.cases
               PROVE  /\ row(n) \in DOMAIN ledger /\ runs[C][n].ran
                      /\ ledger[row(n)].of = [stage |-> C, case |-> n]
                      /\ ledger[row(n)].event = "model_call"
                      /\ ledger[row(n)].cost = runs[C][n].cost
    OBVIOUS
  <2>1. Recorded(C, n) /\ row(n) # 0 /\ runs[C][n].ran /\ runs[C][n].ok
    BY <1>2, <1>4 DEF GoldenInv, Records, EarnedInv, Answers
  <2>2. row(n) \in DOMAIN ledger
    BY <2>1 DEF Recorded, GoldenInv, Frame
  <2> QED
    BY <2>1, <2>2 DEF Recorded
<1>7. ASSUME Matches[Candidate] = {Candidate}
      PROVE  /\ {i \in DOMAIN ledger : Own(i, "candidate")} = {row(n) : n \in 1..suite.cases}
             /\ \A n \in 1..suite.cases : ledger[row(n)].cost # Unpriced
             /\ suite.maxCost > 0 =>
                   SumFunction([n \in 1..suite.cases |-> ledger[row(n)].cost]) <= suite.maxCost
  <2>1. OneRow(C)
    BY <1>2, <1>7 DEF EarnedInv, Lone, Sole, RouteOf
  <2>2. ASSUME NEW i \in DOMAIN ledger, Own(i, "candidate")
        PROVE  \E n \in 1..suite.cases : i = row(n)
    <3>1. Written(i) /\ ledger[i].of.stage = C
      BY <2>2 DEF Own, Written
    <3>2. ledger[i].of.case \in DOMAIN runs[C]
      BY <1>1, <3>1 DEF GoldenInv, Placed
    <3> QED
      BY <1>4, <2>1, <3>1, <3>2 DEF OneRow
  <2>3. ASSUME NEW n \in 1..suite.cases PROVE Own(row(n), "candidate")
    <3>1. [stage |-> C, case |-> n].stage = C /\ NoCase.stage # C
      BY DEF NoCase
    <3> QED
      BY <1>6, <3>1 DEF Own
  <2>4. Ran(C) = 1..suite.cases /\ UnknownCosts(C) = {}
    BY <1>1, <1>4, <1>6 DEF Ran, HardGates
  <2>5. ASSUME NEW n \in 1..suite.cases PROVE ledger[row(n)].cost # Unpriced
    <3>1. n \in Ran(C) /\ runs[C][n].cost # Unpriced
      BY <2>4 DEF UnknownCosts
    <3>2. ledger[row(n)].cost = runs[C][n].cost
      BY <1>6
    <3> QED
      BY <3>1, <3>2
  <2>6. TotalCost(C) = SumFunction([n \in 1..suite.cases |-> ledger[row(n)].cost])
    <3>1. [n \in Ran(C) \ UnknownCosts(C) |-> runs[C][n].cost]
             = [n \in 1..suite.cases |-> ledger[row(n)].cost]
      BY <1>6, <2>4
    <3> QED
      BY <3>1 DEF TotalCost
  <2>7. suite.maxCost > 0 => TotalCost(C) <= suite.maxCost
    BY <1>1, <1>3 DEF HardGates
  <2>8. {i \in DOMAIN ledger : Own(i, "candidate")} = {row(n) : n \in 1..suite.cases}
    BY <1>6, <2>2, <2>3
  <2> QED
    BY <2>5, <2>6, <2>7, <2>8
<1>8. ASSUME Baseline # NoRoute
      PROVE  /\ Len(runs["baseline"]) = suite.cases
             /\ \A n \in 1..suite.cases : runs["baseline"][n].ok
             /\ Regression * 100 <= suite.maxRegression * suite.cases
  <2>1. PassesBaselineEntry
    BY <1>1 DEF HardGates, PassesBaselineEntry
  <2>2. Len(runs["baseline"]) = suite.cases
    BY <1>1, <1>8, <2>1 DEF EarnedInv, Course
  <2>3. HasBaseline
    BY <1>3, <1>5, <2>2 DEF HasBaseline
  <2> QED
    BY <1>1, <1>2, <2>2, <2>3, AllSucceeded DEF BaselineGates
<1>9. suite.reviewRequired => HasBaseline /\ verdict.review.independent
  BY <1>1 DEF ReviewGates
<1> HIDE DEF row
<1>10. \A n \in 1..suite.cases : \E i \in DOMAIN ledger :
          ledger[i].of = [stage |-> "candidate", case |-> n] /\ ledger[i].event = "model_call"
  BY <1>6
<1> QED
  BY <1>5, <1>7, <1>8, <1>9, <1>10 DEF PromotionIsEarned, row

-----------------------------------------------------------------------------
(* The properties *)

LEMMA InvGivesTypes == GoldenInv => GoldenTypeOK
<1> SUFFICES ASSUME GoldenInv PROVE GoldenTypeOK
  OBVIOUS
<1>1. \A i \in DOMAIN ledger : ledger[i] \in Row
  BY DEF GoldenInv, Frame
<1>2. ASSUME NEW s \in Stages, NEW n \in DOMAIN runs[s]
      PROVE  runs[s][n] \in Case /\ runs[s][n].row \in 0..Len(ledger)
  <2>1. runs[s] \in Seq(Case)
    BY DEF GoldenInv, Frame
  <2>2. runs[s][n] \in Case
    BY <1>2, <2>1
  <2>3. Recorded(s, n)
    BY <1>2 DEF GoldenInv, Records
  <2> QED
    BY <2>2, <2>3 DEF Recorded
<1> QED
  BY <1>1, <1>2 DEF GoldenInv, Frame, GoldenTypeOK

LEMMA InvGivesEvidence == GoldenInv => EvidenceIsOwn
<1> SUFFICES ASSUME GoldenInv, NEW s \in Stages
             PROVE  /\ \A n \in DOMAIN runs[s] :
                         runs[s][n].row # 0 =>
                           LET c == runs[s][n]
                               row == ledger[c.row]
                           IN  /\ row.cost = c.cost
                               /\ c.ok => row.event = "model_call"
                                          /\ row.route \in Matches[RouteOf(s)]
                               /\ ~c.ok => row.route = RouteOf(s)
                               /\ \/ row.of = [stage |-> s, case |-> n]
                                  \/ ~c.ok /\ row.of = NoCase
                    /\ \A i \in DOMAIN ledger : Own(i, s) =>
                         LET row == ledger[i]
                             info == Inventory[row.route]
                         IN  /\ Free(info) \/ allow.paid
                             /\ ExecutionEnabled(info) \/ allow.trial
                             /\ suite.local => TrustedLocal(info)
                             /\ Exact(s) /\ row.of.case \in DOMAIN runs[s] =>
                                  LET last == runs[s][row.of.case].row
                                  IN  /\ ledger[last].of = row.of /\ ledger[last].cost = row.cost
                                      /\ i # last => ledger[last].event = "budget_incident"
  BY DEF EvidenceIsOwn, Exact
<1>1. \A n \in DOMAIN runs[s] : Recorded(s, n)
  BY DEF GoldenInv, Records
<1>2. ASSUME NEW i \in DOMAIN ledger, Own(i, s)
      PROVE  Written(i) /\ ledger[i].of.stage = s /\ AllowedRow(ledger[i])
  BY <1>2 DEF Own, Written, GoldenInv, Allowed
<1>3. ASSUME Exact(s) PROVE CountedRows(s)
  BY <1>3 DEF GoldenInv, Counted
<1> QED
  BY <1>1, <1>2, <1>3 DEF Recorded, AllowedRow, CountedRows, StandsFor

\* The run, its records and the ledger keep their shape, and every row a case is
\* recorded by exists (evaluation.py 314-451).
THEOREM GoldenTypes == GoldenSpec => []GoldenTypeOK
BY GoldenInvariant, InvGivesTypes, PTL

\* No case is recorded by a row of another case, the rows of a lone exact call are
\* counted once, and nothing is called without its flag, whatever other processes append
\* to the ledger meanwhile (evaluation.py 292-311, 346-413).
THEOREM Evidence == GoldenSpec => []EvidenceIsOwn
BY GoldenInvariant, InvGivesEvidence, PTL

\* A candidate that passes was run on the whole suite, and nothing else was spent on its
\* run if its filters match it alone; it was compared with the configured baseline and
\* reviewed as the suite asks, whatever rows other processes added before and after the
\* report (evaluation.py 495-506, 645-757).
THEOREM PromotionsEarned == GoldenSpec => []PromotionIsEarned
BY EarnedInvariant, InvGivesPromotion, PTL
=============================================================================
