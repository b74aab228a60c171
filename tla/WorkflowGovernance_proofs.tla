--------------------- MODULE WorkflowGovernance_proofs ---------------------
(***************************************************************************)
(* The properties of WorkflowGovernance, for any contracts, any candidates *)
(* for the roles and any number of redesigns.                              *)
(***************************************************************************)
EXTENDS WorkflowGovernance, FiniteSetTheorems, WellFoundedInduction, TLAPS

-----------------------------------------------------------------------------
(* Sums *)

\* The units of a sum: <<x, 1>> to <<x, f[x]>> for each x.
Units(f, S) == UNION {{x} \X (1..f[x]) : x \in S}

LEMMA UnitsOfNone == ASSUME NEW f PROVE Units(f, {}) = {}
BY DEF Units

LEMMA UnitsOfMore ==
    ASSUME NEW f, NEW S, NEW x, x \notin S
    PROVE  /\ Units(f, S \cup {x}) = Units(f, S) \cup ({x} \X (1..f[x]))
           /\ Units(f, S) \cap ({x} \X (1..f[x])) = {}
BY DEF Units

LEMMA UnitsGrow ==
    ASSUME NEW f, NEW S, NEW x, x \notin S, f[x] \in Nat, IsFiniteSet(Units(f, S))
    PROVE  /\ IsFiniteSet(Units(f, S \cup {x}))
           /\ Cardinality(Units(f, S \cup {x})) = f[x] + Cardinality(Units(f, S))
<1> DEFINE new == {x} \X (1..f[x])
<1>1. IsFiniteSet(1..f[x]) /\ Cardinality(1..f[x]) = f[x]
  BY FS_Interval
<1>2. IsFiniteSet({x}) /\ Cardinality({x}) = 1
  BY FS_Singleton
<1>3. IsFiniteSet(new) /\ Cardinality(new) = f[x]
  <2>1. IsFiniteSet({x} \X (1..f[x]))
        /\ Cardinality({x} \X (1..f[x])) = Cardinality({x}) * Cardinality(1..f[x])
    BY <1>1, <1>2, FS_Product
  <2> QED
    BY <1>1, <1>2, <2>1
<1>4. Units(f, S \cup {x}) = Units(f, S) \cup new /\ Units(f, S) \cap new = {}
  BY UnitsOfMore
<1> HIDE DEF new
<1>5. /\ IsFiniteSet(Units(f, S) \cup new)
      /\ Cardinality(Units(f, S) \cup new)
           = Cardinality(Units(f, S)) + Cardinality(new) - Cardinality(Units(f, S) \cap new)
  BY <1>3, FS_Union
<1>6. Cardinality(Units(f, S) \cap new) = 0 /\ Cardinality(Units(f, S)) \in Nat
  BY <1>4, FS_EmptySet, FS_CardinalityType
<1>7. Cardinality(Units(f, S \cup {x})) = Cardinality(Units(f, S)) + f[x] - 0
  BY <1>3, <1>4, <1>5, <1>6
<1>8. IsFiniteSet(Units(f, S \cup {x}))
  BY <1>4, <1>5
<1>9. \A a, b : a \in Nat /\ b \in Nat => a + b - 0 = b + a
  OBVIOUS
<1>10. f[x] \in Nat
  OBVIOUS
<1> QED
  BY <1>6, <1>7, <1>8, <1>9, <1>10

\* A natural number of a set that is not empty is the least of them.
LEMMA Least ==
    ASSUME NEW T \in SUBSET Nat, T # {}
    PROVE  \E n \in T : \A m \in T : n <= m
<1>1. PICK n \in T : \A m \in T : ~(<<m, n>> \in OpToRel(<, Nat))
  BY WFMin, NatLessThanWellFounded
<1>2. \A m \in T : ~(m < n)
  BY <1>1 DEF OpToRel
<1> QED
  BY <1>2

\* Of the subsets of a finite set that have a property, one is smallest.
LEMMA Smallest ==
    ASSUME NEW S, IsFiniteSet(S), NEW Bad \in SUBSET (SUBSET S), Bad # {}
    PROVE  \E T \in Bad : \A U \in Bad : Cardinality(T) <= Cardinality(U)
<1> DEFINE Sizes == {Cardinality(T) : T \in Bad}
<1>1. \A T \in Bad : Cardinality(T) \in Nat
  BY FS_Subset, FS_CardinalityType
<1>2. Sizes \in SUBSET Nat /\ Sizes # {}
  BY <1>1
<1>3. PICK n \in Sizes : \A m \in Sizes : n <= m
  BY <1>2, Least
<1>4. PICK T \in Bad : n = Cardinality(T)
  BY <1>3
<1>5. \A U \in Bad : Cardinality(U) \in Sizes
  OBVIOUS
<1> QED
  BY <1>3, <1>4, <1>5

\* The units of a finite set are finite.
LEMMA UnitsFinite ==
    ASSUME NEW f, NEW S, IsFiniteSet(S), \A x \in S : f[x] \in Nat
    PROVE  IsFiniteSet(Units(f, S))
<1> DEFINE Bad == {T \in SUBSET S : ~IsFiniteSet(Units(f, T))}
<1> SUFFICES ASSUME Bad # {} PROVE FALSE
  OBVIOUS
<1>2. PICK T \in Bad : \A U \in Bad : Cardinality(T) <= Cardinality(U)
  BY Smallest
<1>3. T # {}
  BY <1>2, UnitsOfNone, FS_EmptySet
<1>4. PICK x \in T : TRUE
  BY <1>3
<1>5. IsFiniteSet(T) /\ Cardinality(T) \in Nat
  BY FS_Subset, FS_CardinalityType
<1>6. T \ {x} \in SUBSET S /\ Cardinality(T \ {x}) = Cardinality(T) - 1
  BY <1>5, FS_RemoveElement
<1>7. IsFiniteSet(Units(f, T \ {x}))
  BY <1>2, <1>5, <1>6
<1>8. (T \ {x}) \cup {x} = T /\ x \notin T \ {x} /\ f[x] \in Nat
  BY <1>4
<1>9. IsFiniteSet(Units(f, T))
  BY <1>7, <1>8, UnitsGrow
<1> QED
  BY <1>9

\* What the fold computes.
LEMMA SumIsUnits ==
    ASSUME NEW f, NEW S, IsFiniteSet(S), \A x \in S : f[x] \in Nat
    PROVE  SumFunctionOnSet(f, S) = Cardinality(Units(f, S))
<1> DEFINE Pick(s) == CHOOSE x \in s : TRUE
           IsIter(i) == i = [s \in SUBSET S |->
                               IF s = {} THEN 0 ELSE f[Pick(s)] + i[s \ {Pick(s)}]]
           size == [s \in SUBSET S |-> Cardinality(Units(f, s))]
<1>1. ASSUME NEW s \in SUBSET S, s # {}
      PROVE  /\ Pick(s) \in s /\ s \ {Pick(s)} \in SUBSET S
             /\ size[s] = f[Pick(s)] + size[s \ {Pick(s)}]
  <2> DEFINE x == Pick(s)
  <2>1. x \in s
    BY <1>1
  <2> HIDE DEF x
  <2>2. s \ {x} \in SUBSET S /\ (s \ {x}) \cup {x} = s /\ x \notin s \ {x} /\ f[x] \in Nat
    BY <2>1
  <2>3. IsFiniteSet(Units(f, s \ {x}))
    BY <2>2, FS_Subset, UnitsFinite
  <2>4. Cardinality(Units(f, s)) = f[x] + Cardinality(Units(f, s \ {x}))
    BY <2>2, <2>3, UnitsGrow
  <2> QED
    BY <2>1, <2>2, <2>4 DEF x
<1>2. size[{}] = 0
  BY UnitsOfNone, FS_EmptySet
<1>3. IsIter(size)
  BY <1>1, <1>2
<1>4. SumFunctionOnSet(f, S) = (CHOOSE i : IsIter(i))[S]
  BY DEF SumFunctionOnSet, FoldFunctionOnSet, MapThenFoldSet
<1>5. PICK iter : IsIter(iter) /\ SumFunctionOnSet(f, S) = iter[S]
  BY <1>3, <1>4
<1> HIDE DEF size
<1>6. \A s \in SUBSET S : iter[s] = IF s = {} THEN 0 ELSE f[Pick(s)] + iter[s \ {Pick(s)}]
  BY <1>5
<1> HIDE DEF Pick, IsIter
<1> DEFINE Bad == {T \in SUBSET S : iter[T] # size[T]}
<1>7. ASSUME Bad # {} PROVE FALSE
  <2>2. PICK T \in Bad : \A U \in Bad : Cardinality(T) <= Cardinality(U)
    BY <1>7, Smallest
  <2>3. T # {} /\ T \in SUBSET S
    BY <1>2, <1>6, <2>2
  <2>4. IsFiniteSet(T) /\ Cardinality(T) \in Nat
    BY <2>3, FS_Subset, FS_CardinalityType
  <2> DEFINE U == T \ {Pick(T)}
  <2>5. U \in SUBSET S /\ Cardinality(U) = Cardinality(T) - 1
    BY <1>1, <2>3, <2>4, FS_RemoveElement
  <2>6. iter[U] = size[U]
    BY <2>2, <2>4, <2>5
  <2>7. iter[T] = size[T]
    BY <1>1, <1>6, <2>3, <2>6
  <2> QED
    BY <2>2, <2>7
<1> QED
  BY <1>5, <1>7 DEF size

LEMMA SumOfNone == ASSUME NEW f PROVE SumFunctionOnSet(f, {}) = 0
BY UnitsOfNone, SumIsUnits, FS_EmptySet

\* A sum is a natural number.
LEMMA SumType ==
    ASSUME NEW f, NEW S, IsFiniteSet(S), \A x \in S : f[x] \in Nat
    PROVE  SumFunctionOnSet(f, S) \in Nat
BY UnitsFinite, SumIsUnits, FS_CardinalityType

\* One more summand.
LEMMA SumOfMore ==
    ASSUME NEW f, NEW S, IsFiniteSet(S), \A x \in S : f[x] \in Nat,
           NEW x, x \notin S, f[x] \in Nat
    PROVE  SumFunctionOnSet(f, S \cup {x}) = f[x] + SumFunctionOnSet(f, S)
<1>1. IsFiniteSet(S \cup {x}) /\ \A y \in S \cup {x} : f[y] \in Nat
  BY FS_AddElement
<1>2. IsFiniteSet(Units(f, S))
  BY UnitsFinite
<1>3. Cardinality(Units(f, S \cup {x})) = f[x] + Cardinality(Units(f, S))
  BY <1>2, UnitsGrow
<1> QED
  BY <1>1, <1>3, SumIsUnits

\* A sum of more and of larger summands is no smaller.
LEMMA SumMonotone ==
    ASSUME NEW f, NEW g, NEW T, IsFiniteSet(T), NEW S \in SUBSET T,
           \A x \in T : g[x] \in Nat, \A x \in S : f[x] \in Nat /\ f[x] <= g[x]
    PROVE  SumFunctionOnSet(f, S) <= SumFunctionOnSet(g, T)
<1>1. IsFiniteSet(S)
  BY FS_Subset
<1>2. IsFiniteSet(Units(g, T)) /\ Units(f, S) \subseteq Units(g, T)
  <2>1. \A x \in S : 1..f[x] \subseteq 1..g[x]
    OBVIOUS
  <2> QED
    BY <2>1, UnitsFinite DEF Units
<1>3. Cardinality(Units(f, S)) <= Cardinality(Units(g, T))
  BY <1>2, FS_Subset
<1> QED
  BY <1>1, <1>3, SumIsUnits

\* A sum depends on its summands only.
LEMMA SumSame ==
    ASSUME NEW f, NEW g, NEW S, IsFiniteSet(S), \A x \in S : f[x] \in Nat /\ f[x] = g[x]
    PROVE  SumFunctionOnSet(f, S) = SumFunctionOnSet(g, S)
<1>1. Units(f, S) = Units(g, S)
  BY DEF Units
<1> QED
  BY <1>1, SumIsUnits

\* The sum over two sets without a common element.
LEMMA SumOfBoth ==
    ASSUME NEW f, NEW S, NEW T, IsFiniteSet(S), IsFiniteSet(T), S \cap T = {},
           \A x \in S \cup T : f[x] \in Nat
    PROVE  SumFunctionOnSet(f, S \cup T) = SumFunctionOnSet(f, S) + SumFunctionOnSet(f, T)
<1>1. IsFiniteSet(S \cup T)
  BY FS_Union
<1>2. /\ Units(f, S \cup T) = Units(f, S) \cup Units(f, T)
      /\ Units(f, S) \cap Units(f, T) = {}
  BY DEF Units
<1>3. IsFiniteSet(Units(f, S)) /\ IsFiniteSet(Units(f, T))
  BY UnitsFinite
<1>4. Cardinality(Units(f, S \cup T))
        = Cardinality(Units(f, S)) + Cardinality(Units(f, T))
            - Cardinality(Units(f, S) \cap Units(f, T))
  BY <1>2, <1>3, FS_Union
<1>5. Cardinality(Units(f, S) \cap Units(f, T)) = 0
  BY <1>2, FS_EmptySet
<1>6. Cardinality(Units(f, S)) \in Nat /\ Cardinality(Units(f, T)) \in Nat
  BY <1>3, FS_CardinalityType
<1>7. Cardinality(Units(f, S \cup T)) = Cardinality(Units(f, S)) + Cardinality(Units(f, T))
  BY <1>4, <1>5, <1>6
<1> QED
  BY <1>1, <1>7, SumIsUnits

-----------------------------------------------------------------------------
(* Role selection *)

\* A candidate that may be chosen within a limit.
Within(limit) == [family: Families, cost: {n \in Nat : n <= limit}]

LEMMA ConstantFacts ==
    /\ Contracts \subseteq ContractInfo
    /\ OpenAI \in Families /\ NoFamily \notin Families /\ Unpriced \notin Nat
    /\ OfferSets \subseteq [Roles -> Seq(Offer)] /\ MaxRedesigns \in Nat
BY GovernanceConstants DEF GovernanceConstants

LEMMA ChosenFacts ==
    ASSUME NEW candidates \in Seq(Offer), NEW limit \in Int, NEW other
    PROVE  LET choice == Chosen(candidates, limit, other)
           IN  choice = NoChoice \/ (choice \in Within(limit) /\ choice.family # other.family)
<1> DEFINE Fits(o) == o.cost # Unpriced /\ o.cost <= limit /\ o.family # other.family
           I == {j \in 1..Len(candidates) : Fits(candidates[j])}
           i == SelectInSeq(candidates, Fits)
<1>1. i = IF I # {} THEN Min(I) ELSE 0
  BY DEF SelectInSeq
<1>2. ASSUME I # {} PROVE i \in I
  <2>1. I \in SUBSET Nat
    OBVIOUS
  <2>2. \E n \in I : \A m \in I : n <= m
    BY <1>2, <2>1, Least
  <2> HIDE DEF I, i
  <2>3. Min(I) \in I
    BY <2>2 DEF Min
  <2> QED
    BY <1>1, <1>2, <2>3
<1>3. Chosen(candidates, limit, other) = IF i = 0 THEN NoChoice ELSE candidates[i]
  BY DEF Chosen
<1>4. CASE I = {}
  BY <1>1, <1>3, <1>4
<1>5. CASE I # {}
  <2>1. i \in 1..Len(candidates) /\ Fits(candidates[i])
    BY <1>2, <1>5
  <2> HIDE DEF i
  <2>2. candidates[i] \in Offer /\ i # 0
    BY <2>1
  <2>3. PICK o \in Offer : o = candidates[i]
    BY <2>2
  <2>4. o.cost \in Nat /\ o.cost <= limit /\ o.family \in Families
    BY <2>1, <2>3 DEF Offer
  <2>5. o = [family |-> o.family, cost |-> o.cost]
    BY <2>3 DEF Offer
  <2>6. o \in Within(limit)
    BY <2>4, <2>5 DEF Within
  <2> QED
    BY <1>3, <2>1, <2>2, <2>3, <2>6
<1> QED
  BY <1>4, <1>5

\* A choice of the pipeline fits in the limit of a stage.
LEMMA PipelineFacts ==
    ASSUME NEW candidates \in [Roles -> Seq(Offer)], NEW limit \in Int
    PROVE  /\ DOMAIN Pipeline(candidates, limit) = Roles
           /\ \A role \in Roles :
                Pipeline(candidates, limit)[role] \in {NoChoice} \cup Within(limit)
<1> DEFINE Fits(x) == x \in {NoChoice} \cup Within(limit)
           first == [role \in Roles |-> Chosen(candidates[role], limit, NoChoice)]
<1>1. ASSUME NEW role \in Roles, NEW other PROVE Fits(Chosen(candidates[role], limit, other))
  <2>1. candidates[role] \in Seq(Offer)
    OBVIOUS
  <2> QED
    BY <2>1, ChosenFacts
<1>2. first \in [Roles -> {NoChoice} \cup Within(limit)]
  BY <1>1
<1>3. "plan_audit" \in Roles /\ "audit" \in Roles /\ "verify" \in Roles
  BY DEF Roles
<1> DEFINE one == Chosen(candidates.plan_audit, limit, first.research_enhance)
           two == Chosen(candidates.audit, limit, first.plan)
           three == Chosen(candidates.verify, limit, first.execute)
<1>4. Fits(one) /\ Fits(two) /\ Fits(three)
  BY <1>1, <1>3
<1>5. Pipeline(candidates, limit) =
        [first EXCEPT !.plan_audit = one, !.audit = two, !.verify = three]
  BY DEF Pipeline
<1> HIDE DEF first, one, two, three, Fits
<1>6. [first EXCEPT !.plan_audit = one, !.audit = two, !.verify = three]
        \in [Roles -> {NoChoice} \cup Within(limit)]
  BY <1>2, <1>4 DEF Fits
<1> QED
  BY <1>5, <1>6

-----------------------------------------------------------------------------
(* Plans *)

RowType(limit) ==
    [stage: Stage, by: {NoChoice, Codex, Closeout} \cup Within(limit),
     policy: {"required", "conditional", "controller_required", "local_required"}]

LEMMA RowFacts ==
    ASSUME NEW c \in ContractInfo, NEW candidates \in [Roles -> Seq(Offer)],
           NEW row \in Rows(c, Pipeline(candidates, c.maxStage))
    PROVE  /\ row \in RowType(c.maxStage)
           /\ row.stage = "process_checkpoint" => row.policy = "conditional"
<1> DEFINE sel == Pipeline(candidates, c.maxStage)
           By == {NoChoice} \cup Within(c.maxStage)
<1>1. c.maxStage \in Int
  BY DEF ContractInfo
<1>2. /\ sel.plan \in By /\ sel.research_enhance \in By /\ sel.plan_audit \in By
      /\ sel.execute \in By /\ sel.audit \in By /\ sel.verify \in By
      /\ sel.quality_enhance \in By
  BY <1>1, PipelineFacts DEF Roles
<1> HIDE DEF sel
<1>3. Executor(c, sel) \in {Codex} \cup By /\ Verifier(c, sel) \in By
  BY <1>2 DEF Executor, Verifier
<1>4. row \in LegacyRows(c, sel) \/ row \in SimpleRows(c, sel) \/ row \in ReviewRows(c, sel)
  BY DEF Rows, sel
<1>5. CASE row \in LegacyRows(c, sel)
  <2>1. \E x \in By : \/ row = Row("plan_design", x, "required")
                      \/ row = Row("plan_audit", x, "required")
                      \/ row = Row("execute", x, "required")
                      \/ row = Row("process_checkpoint", x, "conditional")
                      \/ row = Row("final_verify", x, "required")
                      \/ row = Row("quality_enhance", x, "conditional")
    BY <1>2, <1>5 DEF LegacyRows
  <2> QED
    BY <2>1 DEF Row, RowType, Stage
<1>6. CASE row \in SimpleRows(c, sel)
  <2>1. \E x \in {Codex, Closeout} \cup By :
            \/ row = Row("plan_design", x, "controller_required")
            \/ row = Row("execute", x, "required")
            \/ row = Row("execute", x, "controller_required")
            \/ row = Row("process_checkpoint", x, "conditional")
            \/ row = Row("closeout", x, "local_required")
    BY <1>3, <1>6 DEF SimpleRows
  <2> QED
    BY <2>1 DEF Row, RowType, Stage
<1>7. CASE row \in ReviewRows(c, sel)
  <2>1. \E x \in {Codex} \cup By :
            \/ row = Row("research_enhance", x, "required")
            \/ row = Row("research_enhance", x, "conditional")
            \/ row = Row("plan_audit", x, "required")
            \/ row = Row("plan_repair", x, "conditional")
            \/ row = Row("plan_delta_verify", x, "conditional")
            \/ row = Row("final_verify", x, "required")
            \/ row = Row("result_repair", x, "conditional")
            \/ row = Row("final_delta_verify", x, "conditional")
    BY <1>2, <1>3, <1>7 DEF ReviewRows
  <2> QED
    BY <2>1 DEF Row, RowType, Stage
<1> QED
  BY <1>4, <1>5, <1>6, <1>7

\* The stages that a run of a plan can be at.  What v1 calls quality_enhance is not one.
StagesOf(c) ==
    IF c.version = "v1"
    THEN {"plan_design", "plan_audit", "execute", "process_checkpoint", "final_verify"}
    ELSE {"plan_design", "execute", "process_checkpoint", "closeout"}
         \cup IF Simple(c) THEN {}
              ELSE {"research_enhance", "plan_audit", "plan_repair", "plan_delta_verify",
                    "final_verify", "result_repair", "final_delta_verify"}

\* The order in which a run passes the stages, but for repairs and redesigns.
Position(stage) ==
    CASE stage = "plan_design" -> 1
      [] stage = "research_enhance" -> 2
      [] stage = "plan_audit" -> 3
      [] stage = "plan_repair" -> 4
      [] stage = "plan_delta_verify" -> 5
      [] stage = "execute" -> 6
      [] stage = "process_checkpoint" -> 7
      [] stage = "final_verify" -> 8
      [] stage = "result_repair" -> 9
      [] stage = "final_delta_verify" -> 10
      [] stage = "closeout" -> 11
      [] stage = "quality_enhance" -> 12

LEMMA Positions ==
    /\ Position("plan_design") = 1 /\ Position("research_enhance") = 2
    /\ Position("plan_audit") = 3 /\ Position("plan_repair") = 4
    /\ Position("plan_delta_verify") = 5 /\ Position("execute") = 6
    /\ Position("process_checkpoint") = 7 /\ Position("final_verify") = 8
    /\ Position("result_repair") = 9 /\ Position("final_delta_verify") = 10
    /\ Position("closeout") = 11 /\ Position("quality_enhance") = 12
BY DEF Position

LEMMA PositionsDiffer ==
    /\ \A s \in Stage : Position(s) \in 1..12
    /\ \A s, t \in Stage : Position(s) = Position(t) => s = t
BY Positions DEF Stage

\* A plan has one row for each of its stages.
LEMMA OneRowEach ==
    ASSUME NEW c, NEW sel, NEW a \in Rows(c, sel), NEW b \in Rows(c, sel), a.stage = b.stage
    PROVE  a = b
BY DEF Rows, LegacyRows, SimpleRows, ReviewRows, Row

LEMMA RowsFinite ==
    ASSUME NEW c \in ContractInfo, NEW candidates \in [Roles -> Seq(Offer)]
    PROVE  IsFiniteSet(Rows(c, Pipeline(candidates, c.maxStage)))
<1> DEFINE rows == Rows(c, Pipeline(candidates, c.maxStage))
           f == [row \in rows |-> Position(row.stage)]
<1>1. \A row \in rows : row.stage \in Stage
  BY RowFacts DEF RowType
<1>2. f \in [rows -> 1..12]
  BY <1>1, PositionsDiffer
<1>3. \A a, b \in rows : f[a] = f[b] => a = b
  BY <1>1, PositionsDiffer, OneRowEach
<1> HIDE DEF rows, f
<1>4. f \in Injection(rows, 1..12)
  BY <1>2, <1>3 DEF Injection, IsInjective
<1>5. 1 \in Int /\ 12 \in Int => IsFiniteSet(1..12)
  BY FS_Interval
<1> QED
  BY <1>4, <1>5, FS_Injection DEF rows

LEMMA StageFacts ==
    ASSUME NEW c, NEW sel
    PROVE  /\ \A s \in StagesOf(c) : \E row \in Rows(c, sel) : row.stage = s
           /\ \A row \in Rows(c, sel) : row.stage \in StagesOf(c) \cup {"quality_enhance"}
<1> DEFINE stages(rows) == {row.stage : row \in rows}
<1>1. \A s, b, p : Row(s, b, p).stage = s
  BY DEF Row
<1>2. CASE c.version = "v1"
  <2>1. StagesOf(c) \subseteq stages(Rows(c, sel))
    <3> DEFINE R == Rows(c, sel)
    <3>1. /\ Row("plan_design", sel.plan, "required") \in R
          /\ Row("plan_audit", sel.audit, "required") \in R
          /\ Row("execute", sel.execute, "required") \in R
          /\ Row("process_checkpoint", sel.verify, "conditional") \in R
          /\ Row("final_verify", sel.verify, "required") \in R
      BY <1>2 DEF Rows, LegacyRows
    <3> HIDE DEF R
    <3>2. /\ "plan_design" \in stages(R) /\ "plan_audit" \in stages(R)
          /\ "execute" \in stages(R) /\ "process_checkpoint" \in stages(R)
          /\ "final_verify" \in stages(R)
      BY <1>1, <3>1
    <3> QED
      BY <1>2, <3>2 DEF StagesOf, R
  <2>2. ASSUME NEW row \in Rows(c, sel) PROVE row.stage \in StagesOf(c) \cup {"quality_enhance"}
    <3>1. row \in LegacyRows(c, sel)
      BY <1>2 DEF Rows
    <3>2. row.stage \in {"plan_design", "plan_audit", "execute", "process_checkpoint",
                         "final_verify", "quality_enhance"}
      BY <1>1, <3>1 DEF LegacyRows
    <3> QED
      BY <1>2, <3>2 DEF StagesOf
  <2> QED
    BY <2>1, <2>2
<1>3. CASE c.version # "v1"
  <2> DEFINE S == SimpleRows(c, sel)
             R == ReviewRows(c, sel)
  <2>1. stages(S) = {"plan_design", "execute", "process_checkpoint", "closeout"}
    BY <1>1 DEF SimpleRows
  <2>2. stages(R) = {"research_enhance", "plan_audit", "plan_repair", "plan_delta_verify",
                     "final_verify", "result_repair", "final_delta_verify"}
    BY <1>1 DEF ReviewRows
  <2>3. Rows(c, sel) = S \cup IF Simple(c) THEN {} ELSE R
    BY <1>3 DEF Rows
  <2> HIDE DEF S, R
  <2>4. stages(Rows(c, sel)) = StagesOf(c)
    BY <1>3, <2>1, <2>2, <2>3 DEF StagesOf
  <2> QED
    BY <2>4
<1> QED
  BY <1>2, <1>3

\* What a row costs, if that is known, is within the limit of a stage.
LEMMA CostFacts ==
    ASSUME NEW c \in ContractInfo, 0 < c.maxStage, NEW row \in RowType(c.maxStage)
    PROVE  /\ CostOf(row) = Unpriced \/ (CostOf(row) \in Nat /\ CostOf(row) <= c.maxStage)
           /\ row.by # NoChoice => CostOf(row) \in Nat
<1>1. c.maxStage \in Int /\ row.by \in {NoChoice, Codex, Closeout} \cup Within(c.maxStage)
  BY DEF ContractInfo, RowType
<1>2. CASE row.by = NoChoice
  BY <1>1, <1>2 DEF CostOf, NoChoice
<1>3. CASE row.by # NoChoice
  <2>1. CostOf(row) = row.by.cost
    BY <1>3 DEF CostOf
  <2>2. CASE row.by \in {Codex, Closeout}
    BY <1>1, <2>1, <2>2 DEF Codex, Closeout
  <2>3. CASE row.by \in Within(c.maxStage)
    BY <1>1, <2>1, <2>3 DEF Within
  <2> QED
    BY <1>1, <1>3, <2>2, <2>3
<1> QED
  BY <1>2, <1>3

\* What a row takes of the ceiling.
Share(c, row) == CostOf(row) * IF row.policy = "conditional" THEN Times(c, row) ELSE 1

LEMMA ShareFacts ==
    ASSUME NEW c \in ContractInfo, Valid(c), NEW row \in RowType(c.maxStage),
           CostOf(row) # Unpriced
    PROVE  /\ CostOf(row) \in Nat /\ Share(c, row) \in Nat
           /\ row.stage # "process_checkpoint" => Share(c, row) = CostOf(row)
           /\ row.stage = "process_checkpoint" /\ row.policy = "conditional" =>
                 Share(c, row) = CostOf(row) * c.checks
<1>1. c.checks \in Nat /\ 0 < c.maxStage
  BY DEF Valid
<1>2. CostOf(row) \in Nat
  BY <1>1, CostFacts
<1> QED
  BY <1>1, <1>2 DEF Share, Times

\* The ceiling is the sum of the shares.
LEMMA CeilingIsSum ==
    ASSUME NEW c \in ContractInfo, Valid(c), NEW rows \in SUBSET RowType(c.maxStage),
           IsFiniteSet(rows)
    PROVE  Ceiling(c, rows) = SumFunctionOnSet([row \in Known(rows) |-> Share(c, row)], Known(rows))
<1> DEFINE A == Known(Required(rows))
           B == Known(rows \ Required(rows))
           f == [row \in A |-> CostOf(row)]
           g == [row \in B |-> CostOf(row) * Times(c, row)]
           h == [row \in Known(rows) |-> Share(c, row)]
<1>1. /\ Known(rows) = A \cup B /\ A \cap B = {}
      /\ IsFiniteSet(A) /\ IsFiniteSet(B)
  <2>1. Known(rows) = A \cup B /\ A \cap B = {} /\ A \subseteq rows /\ B \subseteq rows
    BY DEF Known, Required
  <2> QED
    BY <2>1, FS_Subset
<1>2. \A row \in A \cup B : h[row] \in Nat
  BY <1>1, ShareFacts DEF Known
<1>3. \A row \in A : f[row] = h[row]
  <2> SUFFICES ASSUME NEW row \in A PROVE f[row] = h[row]
    OBVIOUS
  <2>1. row.policy # "conditional" /\ row \in Known(rows) /\ CostOf(row) \in Nat
    BY <1>1, ShareFacts DEF Known, Required
  <2> QED
    BY <2>1 DEF Share
<1>4. \A row \in B : g[row] = h[row]
  BY <1>1 DEF Known, Required, Share
<1> HIDE DEF A, B
<1>5. Ceiling(c, rows) = SumFunctionOnSet(f, A) + SumFunctionOnSet(g, B)
  BY DEF Ceiling, SumFunction, A, B
<1> HIDE DEF f, g, h
<1>6. SumFunctionOnSet(f, A) = SumFunctionOnSet(h, A)
  BY <1>1, <1>2, <1>3, SumSame
<1>7. SumFunctionOnSet(g, B) = SumFunctionOnSet(h, B)
  BY <1>1, <1>2, <1>4, SumSame
<1>8. SumFunctionOnSet(h, A \cup B) = SumFunctionOnSet(h, A) + SumFunctionOnSet(h, B)
  BY <1>1, <1>2, SumOfBoth
<1> QED
  BY <1>1, <1>5, <1>6, <1>7, <1>8 DEF h

-----------------------------------------------------------------------------
(* The inductive invariant *)

Live == {"perform", "check", "verify", "authorize"}
Unstarted == {"contract", "rejected", "plan", "not ready"}

Typed ==
    /\ contract \in ContractInfo /\ offers \in OfferSets
    /\ at \in Stage /\ spent \in Nat /\ finding \in Finding
    /\ pc \in {"contract", "plan", "perform", "check", "verify", "authorize"} \cup Ended
    /\ count \in [Counted -> Nat]

\* Once a contract was accepted, the plan is the one it asks for, also after its
\* elastic limit was raised.
Planned ==
    /\ pc \in {"contract", "rejected"} => ~plan.ready
    /\ pc \notin {"contract", "rejected"} =>
          Valid(contract) /\ plan = PlanOf(contract, offers)
    /\ pc \notin Unstarted => plan.ready

\* Where a run is and what it has used up there.
Walked ==
    /\ pc \in Unstarted => spent = 0 /\ at = "plan_design" /\ \A k \in Counted : count[k] = 0
    /\ pc \in Live => at \in StagesOf(contract)
    /\ pc \in {"check", "verify", "authorize"} => at \in Checked
    /\ pc = "perform" /\ at = "plan_repair" => count["plan_repair"] < contract.planLoops
    /\ pc = "perform" /\ at = "result_repair" => count["result_repair"] < contract.resultLoops
    /\ pc \in Live /\ at = "plan_delta_verify" => count["plan_repair"] > 0
    /\ pc \in Live /\ at = "final_delta_verify" => count["result_repair"] > 0
    /\ pc \notin Unstarted =>
          /\ count["plan_repair"] <= contract.planLoops
          /\ count["result_repair"] <= contract.resultLoops
          /\ count["checks"] <= contract.checks
    /\ count["redesigns"] <= MaxRedesigns

\* The stages that a run which repairs at most once has paid for, as a position.
Reached ==
    IF pc # "perform" THEN Position(at)
    ELSE IF at = "plan_repair" /\ count["plan_repair"] = 1 THEN 5
    ELSE IF at = "result_repair" /\ count["result_repair"] = 1 THEN 10
    ELSE Position(at) - 1

Shares == [row \in Known(plan.rows) |-> Share(contract, row)]

UpTo(n) == {row \in Known(plan.rows) : row.stage # "process_checkpoint" /\ Position(row.stage) <= n}

Reserved == count["plan_repair"] <= 1 /\ count["result_repair"] <= 1 /\ count["redesigns"] = 0

Paid ==
    Reserved /\ pc \notin Unstarted =>
        /\ pc # "authorize"
        /\ IF pc \in Live
           THEN \A row \in RowsAt("process_checkpoint") :
                    spent <= SumFunctionOnSet(Shares, UpTo(Reached)) + count["checks"] * CostOf(row)
           ELSE spent <= plan.ceiling

\* A workflow that is complete was proved.
Proved ==
    pc = "complete" =>
        /\ spent <= contract.elastic
        /\ finding.criteria = "pass" /\ finding.evidence /\ ~finding.scope
        /\ at = IF contract.version = "v1" THEN "final_verify" ELSE "closeout"

GovernanceInv == Typed /\ Planned /\ Walked /\ Paid /\ Proved

-----------------------------------------------------------------------------
(* Plans that are ready *)

LEMMA PlanFields ==
    ASSUME NEW c, NEW candidates
    PROVE  LET p == PlanOf(c, candidates)
               sel == Pipeline(candidates, c.maxStage)
               rows == Rows(c, sel)
           IN  /\ p.rows = rows /\ p.ceiling = Ceiling(c, rows)
               /\ p.stopped = IF c.version = "v1" THEN LegacyHardStop(c, sel, rows)
                              ELSE HardStop(c, sel, rows)
               /\ p.ready = (~p.stopped /\ ~Approval(c, rows))
BY DEF PlanOf

\* The ceiling of a plan that is ready is within the elastic limit.
LEMMA ReadyCeiling ==
    ASSUME NEW c \in ContractInfo, Valid(c), NEW candidates, PlanOf(c, candidates).ready,
           PlanOf(c, candidates).ceiling \in Nat
    PROVE  PlanOf(c, candidates).ceiling <= c.elastic
<1> DEFINE sel == Pipeline(candidates, c.maxStage)
           rows == Rows(c, sel)
<1>1. c.elastic \in Int /\ c.version \in {"v1", "v2"} /\ Ceiling(c, rows) \in Nat
  BY PlanFields DEF ContractInfo
<1>2. CASE c.version = "v1"
  <2>1. ~LegacyHardStop(c, sel, rows)
    BY <1>2, PlanFields, Zenon
  <2>2. ~(Ceiling(c, rows) > c.elastic)
    BY <2>1, Zenon DEF LegacyHardStop
  <2> QED
    BY <1>1, <2>2, PlanFields
<1>3. CASE c.version = "v2"
  <2>1. ~Approval(c, rows)
    BY PlanFields, Zenon
  <2>2. ~(Ceiling(c, rows) > c.elastic)
    BY <1>3, <2>1, Zenon DEF Approval
  <2> QED
    BY <1>1, <2>2, PlanFields
<1> QED
  BY <1>1, <1>2, <1>3

Raised(c) == [c EXCEPT !.elastic = c.hard]

LEMMA RaisedFacts ==
    ASSUME NEW c \in ContractInfo
    PROVE  /\ Raised(c) \in ContractInfo /\ Raised(c).elastic = c.hard
           /\ Raised(c).version = c.version /\ Raised(c).tier = c.tier
           /\ Raised(c).soft = c.soft /\ Raised(c).hard = c.hard
           /\ Raised(c).maxStage = c.maxStage /\ Raised(c).checks = c.checks
           /\ Raised(c).planLoops = c.planLoops /\ Raised(c).resultLoops = c.resultLoops
           /\ Raised(c).research = c.research /\ Raised(c).sourced = c.sourced
           /\ Raised(c).workspace = c.workspace /\ Raised(c).unattended = c.unattended
           /\ Raised(c).approved = c.approved /\ Raised(c).local = c.local
           /\ Raised(c).frontier = c.frontier
BY DEF Raised, ContractInfo

LEMMA RaisedValid == ASSUME NEW c \in ContractInfo, Valid(c) PROVE Valid(Raised(c))
<1>1. c.elastic \in Int /\ c.hard \in Int /\ c.maxStage \in Int /\ c.soft \in Int
  BY DEF ContractInfo
<1> QED
  BY <1>1, RaisedFacts DEF Valid

\* A plan does not depend on the elastic limit, but for its approval.
LEMMA RaisedRows ==
    ASSUME NEW c \in ContractInfo, NEW sel
    PROVE  /\ Rows(Raised(c), sel) = Rows(c, sel)
           /\ Ceiling(Raised(c), Rows(c, sel)) = Ceiling(c, Rows(c, sel))
           /\ HardStop(Raised(c), sel, Rows(c, sel)) = HardStop(c, sel, Rows(c, sel))
<1>1. Executor(Raised(c), sel) = Executor(c, sel) /\ Simple(Raised(c)) = Simple(c)
  BY RaisedFacts DEF Executor, Simple
<1>2. Verifier(Raised(c), sel) = Verifier(c, sel)
  BY <1>1 DEF Verifier
<1>3. /\ LegacyRows(Raised(c), sel) = LegacyRows(c, sel)
      /\ SimpleRows(Raised(c), sel) = SimpleRows(c, sel)
      /\ ReviewRows(Raised(c), sel) = ReviewRows(c, sel)
  BY <1>1, <1>2, RaisedFacts DEF LegacyRows, SimpleRows, ReviewRows
<1>4. Rows(Raised(c), sel) = Rows(c, sel)
  BY <1>1, <1>3, RaisedFacts DEF Rows
<1>5. \A row : Times(Raised(c), row) = Times(c, row)
  BY RaisedFacts DEF Times
<1>6. \A rows : Ceiling(Raised(c), rows) = Ceiling(c, rows)
  BY <1>5 DEF Ceiling
<1>7. HardStop(Raised(c), sel, Rows(c, sel)) = HardStop(c, sel, Rows(c, sel))
  BY <1>1, <1>2, <1>6, RaisedFacts DEF HardStop
<1> QED
  BY <1>4, <1>6, <1>7

\* A plan that is ready stays as it is when the operator raises the elastic limit.
LEMMA RaiseKeepsPlan ==
    ASSUME NEW c \in ContractInfo, Valid(c), NEW candidates,
           PlanOf(c, candidates).ready, PlanOf(c, candidates).ceiling \in Nat
    PROVE  PlanOf(Raised(c), candidates) = PlanOf(c, candidates)
<1>1. CASE c.version = "v1"
  <2>1. c.elastic \in Int /\ c.hard \in Int /\ c.soft \in Int /\ c.elastic = c.hard
    BY <1>1 DEF ContractInfo, Valid
  <2>2. Raised(c) = c
    BY <2>1 DEF Raised, ContractInfo
  <2> QED
    BY <2>2
<1>2. CASE c.version = "v2"
  <2> DEFINE sel == Pipeline(candidates, c.maxStage)
             rows == Rows(c, sel)
  <2>1. c.elastic \in Int /\ c.hard \in Int /\ c.elastic <= c.hard
    BY DEF ContractInfo, Valid
  <2>2. Ceiling(c, rows) \in Nat /\ Ceiling(c, rows) <= c.elastic
    BY PlanFields, ReadyCeiling
  <2>3. ~Approval(c, rows) /\ ~Approval(Raised(c), rows)
    BY <2>1, <2>2, RaisedRows, RaisedFacts DEF Approval
  <2>4. /\ Pipeline(candidates, Raised(c).maxStage) = sel /\ Raised(c).version = "v2"
        /\ Rows(Raised(c), sel) = rows /\ Ceiling(Raised(c), rows) = Ceiling(c, rows)
        /\ HardStop(Raised(c), sel, rows) = HardStop(c, sel, rows)
    BY <1>2, RaisedFacts, RaisedRows
  <2> HIDE DEF sel, rows
  <2>5. PlanOf(Raised(c), candidates) =
          [rows |-> rows, ceiling |-> Ceiling(c, rows), stopped |-> HardStop(c, sel, rows),
           ready |-> ~HardStop(c, sel, rows) /\ ~Approval(Raised(c), rows)]
    BY <2>4, Zenon DEF PlanOf
  <2>6. PlanOf(c, candidates) =
          [rows |-> rows, ceiling |-> Ceiling(c, rows), stopped |-> HardStop(c, sel, rows),
           ready |-> ~HardStop(c, sel, rows) /\ ~Approval(c, rows)]
    BY <1>2, Zenon DEF PlanOf, sel, rows
  <2> QED
    BY <2>3, <2>5, <2>6
<1> QED
  BY <1>1, <1>2 DEF ContractInfo

\* The plan of an accepted contract.
LEMMA PlanFacts ==
    ASSUME Typed, Planned, pc \notin {"contract", "rejected"}
    PROVE  /\ contract \in ContractInfo /\ Valid(contract)
           /\ plan.rows = Rows(contract, Pipeline(offers, contract.maxStage))
           /\ plan.rows \in SUBSET RowType(contract.maxStage) /\ IsFiniteSet(plan.rows)
           /\ \A row \in plan.rows : row.stage = "process_checkpoint" => row.policy = "conditional"
           /\ \A a, b \in plan.rows : a.stage = b.stage => a = b
           /\ Shares \in [Known(plan.rows) -> Nat] /\ IsFiniteSet(Known(plan.rows))
           /\ plan.ceiling = SumFunctionOnSet(Shares, Known(plan.rows)) /\ plan.ceiling \in Nat
           /\ plan.ready => plan.ceiling <= contract.elastic
<1> DEFINE sel == Pipeline(offers, contract.maxStage)
<1>1. contract \in ContractInfo /\ Valid(contract) /\ plan = PlanOf(contract, offers)
  BY DEF Typed, Planned
<1>2. offers \in [Roles -> Seq(Offer)]
  BY ConstantFacts DEF Typed
<1>3. plan.rows = Rows(contract, sel) /\ plan.ceiling = Ceiling(contract, plan.rows)
  BY <1>1, PlanFields
<1>4. \A row \in plan.rows : /\ row \in RowType(contract.maxStage)
                             /\ row.stage = "process_checkpoint" => row.policy = "conditional"
  BY <1>1, <1>2, <1>3, RowFacts
<1>5. IsFiniteSet(plan.rows)
  BY <1>1, <1>2, <1>3, RowsFinite
<1>6. \A a, b \in plan.rows : a.stage = b.stage => a = b
  BY <1>3, OneRowEach
<1>7. IsFiniteSet(Known(plan.rows)) /\ Known(plan.rows) \subseteq plan.rows
  BY <1>5, FS_Subset DEF Known
<1>8. Shares \in [Known(plan.rows) -> Nat]
  <2>1. \A row \in Known(plan.rows) : Share(contract, row) \in Nat
    BY <1>1, <1>4, ShareFacts DEF Known
  <2> QED
    BY <2>1 DEF Shares
<1>9. plan.ceiling = SumFunctionOnSet(Shares, Known(plan.rows))
  BY <1>1, <1>3, <1>4, <1>5, CeilingIsSum DEF Shares
<1>10. plan.ceiling \in Nat
  BY <1>7, <1>8, <1>9, SumType
<1>11. plan.ready => plan.ceiling <= contract.elastic
  BY <1>1, <1>10, ReadyCeiling
<1> QED
  BY <1>1, <1>3, <1>4, <1>5, <1>6, <1>7, <1>8, <1>9, <1>10, <1>11

\* The rows of a stage of the plan: one.
LEMMA OneRow ==
    ASSUME Typed, Planned, pc \notin {"contract", "rejected"}, NEW s \in StagesOf(contract)
    PROVE  \E row \in plan.rows : row.stage = s /\ RowsAt(s) = {row}
<1>1. PICK row \in plan.rows : row.stage = s
  BY PlanFacts, StageFacts
<1>2. \A other \in plan.rows : other.stage = s => other = row
  BY <1>1, PlanFacts
<1> QED
  BY <1>1, <1>2 DEF RowsAt

-----------------------------------------------------------------------------
(* A plan that may be run *)

\* Who executes, verifies, plans and audits in a plan that is ready.
LEMMA ReadyMakers ==
    ASSUME NEW c \in ContractInfo, NEW candidates, PlanOf(c, candidates).ready,
           ~Simple(c) \/ c.version = "v1"
    PROVE  LET rows == PlanOf(c, candidates).rows
               by(stages) == {row.by.family : row \in {x \in rows : x.stage \in stages}}
           IN  /\ by({"final_verify", "final_delta_verify"})
                    \cap by({"execute", "plan_repair", "result_repair"}) = {}
               /\ by({"plan_audit", "plan_delta_verify"})
                    \cap by({"plan_design", "research_enhance"}) = {}
<1> DEFINE sel == Pipeline(candidates, c.maxStage)
           rows == Rows(c, sel)
           By(stages) == {row.by.family : row \in {x \in rows : x.stage \in stages}}
<1>1. c.version \in {"v1", "v2"}
  BY DEF ContractInfo
<1>2. \A s, b, p : Row(s, b, p).stage = s /\ Row(s, b, p).by = b /\ Row(s, b, p).policy = p
  BY DEF Row
<1>3. CASE c.version = "v1"
  <2>1. rows = LegacyRows(c, sel)
    BY <1>3 DEF Rows
  <2>2. ~LegacyHardStop(c, sel, rows)
    BY <1>3, PlanFields, Zenon
  <2> HIDE DEF sel, rows
  <2>3. /\ sel.plan.family # sel.audit.family /\ sel.execute.family # sel.verify.family
    <3>1. \A role \in {"plan", "audit", "execute", "verify"} : sel[role] # NoChoice
      BY <2>2, Zenon DEF LegacyHardStop
    <3>2. ~Same(sel.plan, sel.audit) /\ ~Same(sel.execute, sel.verify)
      BY <2>2, Zenon DEF LegacyHardStop
    <3> QED
      BY <3>1, <3>2 DEF Same
  <2>4. /\ By({"final_verify", "final_delta_verify"}) \subseteq {sel.verify.family}
        /\ By({"execute", "plan_repair", "result_repair"}) \subseteq {sel.execute.family}
        /\ By({"plan_audit", "plan_delta_verify"}) \subseteq {sel.audit.family}
        /\ By({"plan_design", "research_enhance"}) \subseteq {sel.plan.family}
    BY <1>2, <2>1 DEF LegacyRows
  <2>5. /\ By({"final_verify", "final_delta_verify"})
             \cap By({"execute", "plan_repair", "result_repair"}) = {}
        /\ By({"plan_audit", "plan_delta_verify"})
             \cap By({"plan_design", "research_enhance"}) = {}
    BY <2>3, <2>4
  <2> QED
    BY <2>5, PlanFields DEF sel, rows
<1>4. CASE c.version = "v2"
  <2> DEFINE executor == Executor(c, sel)
             verifier == Verifier(c, sel)
  <2>1. rows = SimpleRows(c, sel) \cup ReviewRows(c, sel) /\ ~Simple(c)
    BY <1>4 DEF Rows
  <2>2. ~HardStop(c, sel, rows)
    BY <1>4, PlanFields, Zenon
  <2> HIDE DEF sel, rows
  <2>3. sel.plan_audit.family # OpenAI /\ sel.plan_audit.family # sel.research_enhance.family
    <3>1. sel.plan_audit.family \notin {OpenAI, sel.research_enhance.family}
      BY <2>1, <2>2, Zenon DEF HardStop
    <3> QED
      BY <3>1
  <2>4. executor.family # verifier.family
    <3>1. ~Same(executor, verifier) /\ \A row \in Required(rows) : row.by # NoChoice
      BY <2>1, <2>2, Zenon DEF HardStop
    <3>2. Row("execute", executor, "required") \in rows
             \/ Row("execute", executor, "controller_required") \in rows
      BY <2>1 DEF SimpleRows
    <3>3. executor # NoChoice
      BY <1>2, <3>1, <3>2 DEF Required
    <3> QED
      BY <3>1, <3>3 DEF Same
  <2> HIDE DEF executor, verifier
  <2>5. rows = {Row("plan_design", Codex, "controller_required"),
                Row("execute", executor, IF executor # NoChoice /\ ~c.workspace
                                         THEN "required" ELSE "controller_required"),
                Row("process_checkpoint", verifier, "conditional"),
                Row("closeout", Closeout, "local_required"),
                Row("research_enhance", sel.research_enhance,
                    IF c.research THEN "required" ELSE "conditional"),
                Row("plan_audit", sel.plan_audit, "required"),
                Row("plan_repair", executor, "conditional"),
                Row("plan_delta_verify", sel.plan_audit, "conditional"),
                Row("final_verify", verifier, "required"),
                Row("result_repair", executor, "conditional"),
                Row("final_delta_verify", verifier, "conditional")}
    BY <2>1 DEF SimpleRows, ReviewRows, executor, verifier
  <2>6. /\ By({"final_verify", "final_delta_verify"}) \subseteq {verifier.family}
        /\ By({"execute", "plan_repair", "result_repair"}) \subseteq {executor.family}
        /\ By({"plan_audit", "plan_delta_verify"}) \subseteq {sel.plan_audit.family}
        /\ By({"plan_design", "research_enhance"}) \subseteq {OpenAI, sel.research_enhance.family}
    BY <1>2, <2>5 DEF Codex
  <2>7. /\ By({"final_verify", "final_delta_verify"})
             \cap By({"execute", "plan_repair", "result_repair"}) = {}
        /\ By({"plan_audit", "plan_delta_verify"})
             \cap By({"plan_design", "research_enhance"}) = {}
    BY <2>3, <2>4, <2>6
  <2> QED
    BY <2>7, PlanFields DEF sel, rows
<1> QED
  BY <1>1, <1>3, <1>4

LEMMA ReadyIsSound == Typed /\ Planned => ReadyPlanIsSound
<1> SUFFICES ASSUME Typed, Planned, plan.ready PROVE ReadyPlanIsSound
  BY DEF ReadyPlanIsSound
<1> DEFINE sel == Pipeline(offers, contract.maxStage)
           By(stages) == {row.by.family : row \in {x \in plan.rows : x.stage \in stages}}
<1>1. pc \notin {"contract", "rejected"} /\ plan = PlanOf(contract, offers)
      /\ contract \in ContractInfo /\ Valid(contract)
  BY DEF Typed, Planned
<1>2. contract.version \in {"v1", "v2"} /\ contract.checks \in Nat /\ 0 < contract.maxStage
  BY <1>1 DEF ContractInfo, Valid
<1>3. ~Simple(contract) \/ contract.version = "v1" =>
         /\ By({"final_verify", "final_delta_verify"})
                \cap By({"execute", "plan_repair", "result_repair"}) = {}
         /\ By({"plan_audit", "plan_delta_verify"})
                \cap By({"plan_design", "research_enhance"}) = {}
  BY <1>1, ReadyMakers
<1>4. ASSUME contract.local PROVE \A row \in plan.rows : row.policy # "required"
  <2>1. CASE contract.version = "v1"
    <3>1. LegacyHardStop(contract, sel, plan.rows)
      BY <1>4, Zenon DEF LegacyHardStop
    <3> QED
      BY <1>1, <2>1, <3>1, PlanFields, Zenon
  <2>2. CASE contract.version = "v2"
    <3>1. ~HardStop(contract, sel, plan.rows)
      BY <1>1, <2>2, PlanFields, Zenon
    <3>2. External(plan.rows) = {}
      BY <1>4, <3>1, Zenon DEF HardStop
    <3> QED
      BY <3>2 DEF External
  <2> QED
    BY <1>2, <2>1, <2>2
<1>5. ASSUME NEW row \in External(plan.rows) PROVE CostOf(row) <= contract.maxStage
  <2>1. CostOf(row) # Unpriced
    <3>1. CASE contract.version = "v1"
      BY <1>1, <1>5, <3>1, PlanFields, Zenon DEF LegacyHardStop
    <3>2. CASE contract.version = "v2"
      BY <1>1, <1>5, <3>2, PlanFields, Zenon DEF HardStop
    <3> QED
      BY <1>2, <3>1, <3>2
  <2>2. row \in RowType(contract.maxStage)
    BY <1>1, <1>5, PlanFacts DEF External
  <2> QED
    BY <1>1, <1>2, <2>1, <2>2, CostFacts
<1>6. plan.ceiling <= contract.elastic
  BY <1>1, PlanFacts
<1>7. ASSUME NEW row \in plan.rows, CostOf(row) # Unpriced,
             row.stage # "process_checkpoint" \/ contract.checks > 0
      PROVE  CostOf(row) <= plan.ceiling
  <2>1. row \in Known(plan.rows) /\ row \in RowType(contract.maxStage)
        /\ (row.stage = "process_checkpoint" => row.policy = "conditional")
    BY <1>1, <1>7, PlanFacts DEF Known
  <2>2. CostOf(row) \in Nat /\ CostOf(row) <= Share(contract, row)
    <3>1. CostOf(row) \in Nat
      BY <1>1, <1>7, <2>1, ShareFacts
    <3>2. CASE row.stage # "process_checkpoint"
      BY <1>1, <1>7, <2>1, <3>1, <3>2, ShareFacts
    <3>3. CASE row.stage = "process_checkpoint"
      <4>1. Share(contract, row) = CostOf(row) * contract.checks /\ contract.checks > 0
        BY <1>1, <1>7, <2>1, <3>3, ShareFacts
      <4>2. \A m \in Nat, n \in Nat : n > 0 => m <= m * n
        OBVIOUS
      <4> QED
        BY <1>2, <3>1, <4>1, <4>2
    <3> QED
      BY <3>1, <3>2, <3>3
  <2>3. Shares \in [Known(plan.rows) -> Nat] /\ IsFiniteSet(Known(plan.rows))
        /\ plan.ceiling = SumFunctionOnSet(Shares, Known(plan.rows)) /\ plan.ceiling \in Nat
    BY <1>1, PlanFacts
  <2>4. Shares[row] = Share(contract, row)
    BY <2>1 DEF Shares
  <2>5. SumFunctionOnSet(Shares, {row}) = Shares[row]
    <3>1. SumFunctionOnSet(Shares, {} \cup {row}) = Shares[row] + SumFunctionOnSet(Shares, {})
      BY <2>1, <2>3, SumOfMore, FS_EmptySet
    <3> QED
      BY <2>1, <2>3, <3>1, SumOfNone
  <2>6. SumFunctionOnSet(Shares, {row}) <= SumFunctionOnSet(Shares, Known(plan.rows))
    BY <2>1, <2>3, SumMonotone
  <2> QED
    BY <2>1, <2>2, <2>3, <2>4, <2>5, <2>6
<1> QED
  BY <1>3, <1>4, <1>5, <1>6, <1>7 DEF ReadyPlanIsSound

-----------------------------------------------------------------------------
(* The walk through the stages *)

StageNames ==
    {"plan_design", "research_enhance", "plan_audit", "plan_repair", "plan_delta_verify",
     "execute", "process_checkpoint", "final_verify", "result_repair", "final_delta_verify",
     "closeout"}

LEMMA StagesOfFacts ==
    ASSUME NEW c
    PROVE  /\ StagesOf(c) \subseteq StageNames /\ StagesOf(c) \subseteq Stage
           /\ {"plan_design", "execute", "process_checkpoint"} \subseteq StagesOf(c)
           /\ c.version = "v1" => "closeout" \notin StagesOf(c)
           /\ c.version # "v1" => "closeout" \in StagesOf(c)
           /\ "research_enhance" \in StagesOf(c) => "plan_audit" \in StagesOf(c)
           /\ "plan_repair" \in StagesOf(c) =>
                 {"plan_audit", "plan_delta_verify"} \subseteq StagesOf(c)
           /\ "result_repair" \in StagesOf(c) =>
                 {"final_verify", "final_delta_verify"} \subseteq StagesOf(c)
           /\ c.version # "v1" /\ {"plan_audit", "plan_delta_verify"} \cap StagesOf(c) # {} =>
                 "plan_repair" \in StagesOf(c)
           /\ c.version # "v1" /\ {"final_verify", "final_delta_verify"} \cap StagesOf(c) # {} =>
                 "result_repair" \in StagesOf(c)
           /\ c.version = "v1" => "final_verify" \in StagesOf(c)
BY DEF StagesOf, StageNames, Stage

\* After a stage that may be left comes a later one of the plan, never a repair, and a
\* delta check only after one.
LEMMA FollowingFacts ==
    ASSUME Typed, Planned, pc \notin {"contract", "rejected"}, at \in StagesOf(contract),
           at # "closeout", contract.version = "v1" => at # "final_verify"
    PROVE  /\ Following(at) \in StagesOf(contract) /\ Following(at) \in Stage
           /\ Position(at) \in Nat /\ Position(Following(at)) \in Nat
           /\ Position(Following(at)) > Position(at)
           /\ Following(at) \notin {"plan_repair", "result_repair"}
           /\ Following(at) = "plan_delta_verify" => at = "plan_repair"
           /\ Following(at) = "final_delta_verify" => at = "result_repair"
<1>1. ASSUME NEW s \in StageNames PROVE RowsAt(s) = {} <=> s \notin StagesOf(contract)
  <2>1. ASSUME s \in StagesOf(contract) PROVE RowsAt(s) # {}
    BY <2>1, OneRow
  <2>2. ASSUME s \notin StagesOf(contract) PROVE RowsAt(s) = {}
    BY <1>1, <2>2, PlanFacts, StageFacts DEF RowsAt, StageNames
  <2> QED
    BY <2>1, <2>2
<1>2. /\ RowsAt("plan_audit") = {} <=> "plan_audit" \notin StagesOf(contract)
      /\ RowsAt("research_enhance") = {} <=> "research_enhance" \notin StagesOf(contract)
      /\ RowsAt("final_verify") = {} <=> "final_verify" \notin StagesOf(contract)
  BY <1>1 DEF StageNames
<1>3. /\ at = "plan_design" => Following(at) \in
            IF "plan_audit" \notin StagesOf(contract) THEN {"execute"}
            ELSE IF "research_enhance" \notin StagesOf(contract) THEN {"plan_audit"}
            ELSE {"research_enhance"}
      /\ at = "research_enhance" => Following(at) = "plan_audit"
      /\ at = "plan_audit" => Following(at) = "execute"
      /\ at = "plan_repair" => Following(at) = "plan_delta_verify"
      /\ at = "plan_delta_verify" => Following(at) = "execute"
      /\ at = "execute" => Following(at) = "process_checkpoint"
      /\ at = "process_checkpoint" => Following(at) \in
            IF "final_verify" \notin StagesOf(contract) THEN {"closeout"} ELSE {"final_verify"}
      /\ at = "final_verify" => Following(at) = "closeout"
      /\ at = "result_repair" => Following(at) = "final_delta_verify"
      /\ at = "final_delta_verify" => Following(at) = "closeout"
  BY <1>2 DEF Following
<1>4. at \in StageNames
  BY StagesOfFacts
<1>5. contract.version = "v1" => at # "final_delta_verify"
  BY DEF StagesOf
<1>6. /\ Following(at) \in StagesOf(contract)
      /\ Following(at) \notin {"plan_repair", "result_repair"}
      /\ Following(at) = "plan_delta_verify" => at = "plan_repair"
      /\ Following(at) = "final_delta_verify" => at = "result_repair"
  BY <1>3, <1>4, <1>5, StagesOfFacts DEF StageNames
<1>7. Position(Following(at)) > Position(at)
  BY <1>3, <1>4, Positions DEF StageNames
<1>8. Following(at) \in Stage
  BY <1>6, StagesOfFacts
<1>9. Position(at) \in Nat /\ Position(Following(at)) \in Nat
  BY <1>8, PositionsDiffer DEF Typed
<1> QED
  BY <1>6, <1>7, <1>8, <1>9

\* What a checkpoint may decide, and when.
LEMMA DecisionFacts ==
    ASSUME NEW c \in ContractInfo, NEW stage \in Stage, NEW f \in Finding, NEW s \in Nat,
           NEW loops \in Nat
    PROVE  LET d == Decided(c, stage, f, s, loops)
           IN  /\ d \in Decision
               /\ d = "continue" =>
                     stage # "closeout" \/ c.version = "v1"
               /\ d = "continue" /\ c.version = "v1" => stage # "final_verify"
               /\ d = "repair_required" =>
                     /\ c.version # "v1"
                     /\ \/ stage \in {"plan_audit", "plan_delta_verify"} /\ loops < c.planLoops
                        \/ stage \in {"final_verify", "final_delta_verify"} /\ loops < c.resultLoops
               /\ d = "redesign_required" => stage = "plan_audit"
               /\ d = "authorization_required" => s > c.elastic
               /\ d = "complete" =>
                     /\ s <= c.elastic /\ ~Doubts(stage, f)
                     /\ stage = IF c.version = "v1" THEN "final_verify" ELSE "closeout"
<1>1. c.elastic \in Int /\ c.hard \in Int /\ c.planLoops \in Int /\ c.resultLoops \in Int
  BY DEF ContractInfo
<1>2. CASE c.version = "v1"
  <2>1. Overspent(c, s) = (s > c.elastic)
    BY <1>2 DEF Overspent
  <2>2. CASE stage = "final_verify"
    <3>1. Decided(c, stage, f, s, loops) = IF (Overspent(c, s) \/ f.alignment = "deviated")
                                              \/ Doubts(stage, f) THEN "stop" ELSE "complete"
      BY <1>2, <2>2 DEF Decided, LegacyDecision
    <3>2. CASE (Overspent(c, s) \/ f.alignment = "deviated") \/ Doubts(stage, f)
      <4>1. Decided(c, stage, f, s, loops) = "stop"
        BY <3>1, <3>2, Zenon
      <4> QED
        BY <4>1 DEF Decision
    <3>3. CASE ~((Overspent(c, s) \/ f.alignment = "deviated") \/ Doubts(stage, f))
      <4>1. Decided(c, stage, f, s, loops) = "complete" /\ ~(s > c.elastic) /\ ~Doubts(stage, f)
        BY <2>1, <3>1, <3>3, Zenon
      <4> QED
        BY <1>1, <1>2, <2>2, <4>1 DEF Decision
    <3> QED
      BY <3>2, <3>3
  <2>3. CASE stage # "final_verify"
    <3>1. Decided(c, stage, f, s, loops) \in {"stop", "verify_required", "continue"}
      BY <1>2, <2>3 DEF Decided, LegacyDecision
    <3> QED
      BY <1>2, <2>3, <3>1 DEF Decision
  <2> QED
    BY <2>2, <2>3
<1>3. CASE c.version # "v1"
  <2>1. Decided(c, stage, f, s, loops) = NewDecision(c, stage, f, s, loops)
    BY <1>3 DEF Decided
  <2>2. CASE Overspent(c, s) \/ f.alignment = "deviated"
    BY <1>3, <2>1, <2>2 DEF NewDecision, Decision
  <2>3. CASE ~(Overspent(c, s) \/ f.alignment = "deviated") /\ s > c.elastic
    BY <1>3, <2>1, <2>3 DEF NewDecision, Decision
  <2>4. CASE ~(Overspent(c, s) \/ f.alignment = "deviated") /\ ~(s > c.elastic)
    BY <1>1, <1>3, <2>1, <2>4 DEF NewDecision, Decision, Repair
  <2> QED
    BY <2>2, <2>3, <2>4
<1> QED
  BY <1>2, <1>3

-----------------------------------------------------------------------------
(* What a run has paid for *)

LEMMA Arithmetic ==
    /\ \A m, n \in Nat : m * n \in Nat
    /\ \A k, m, n \in Nat : k <= m => k * n <= m * n
    /\ \A k, n \in Nat : (k + 1) * n = k * n + n
    /\ \A n \in Nat : 0 * n = 0
OBVIOUS

\* The row of the process checkpoint.
LEMMA CheckpointRow ==
    ASSUME Typed, Planned, pc \notin {"contract", "rejected"},
           NEW row \in RowsAt("process_checkpoint")
    PROVE  /\ row \in Known(plan.rows) /\ row.stage = "process_checkpoint"
           /\ CostOf(row) \in Nat /\ contract.checks \in Nat
           /\ Shares[row] = CostOf(row) * contract.checks
<1>1. /\ row \in plan.rows /\ row.stage = "process_checkpoint" /\ row.policy = "conditional"
      /\ row \in RowType(contract.maxStage)
  BY PlanFacts DEF RowsAt
<1>2. contract.checks \in Nat /\ 0 < contract.maxStage /\ contract \in ContractInfo
      /\ Valid(contract)
  BY PlanFacts DEF Valid
<1>3. CostOf(row) \in Nat
  <2>1. CASE row.by = NoChoice
    BY <1>1, <2>1 DEF CostOf
  <2>2. CASE row.by # NoChoice
    BY <1>1, <1>2, <2>2, CostFacts
  <2> QED
    BY <2>1, <2>2
<1>4. row \in Known(plan.rows)
  BY <1>1, <1>3, ConstantFacts DEF Known
<1>5. Shares[row] = Share(contract, row)
  BY <1>4 DEF Shares
<1>6. Share(contract, row) = CostOf(row) * contract.checks
  BY <1>1, <1>2, <1>3, ConstantFacts, ShareFacts
<1> QED
  BY <1>1, <1>2, <1>3, <1>4, <1>5, <1>6

LEMMA UpToFacts ==
    ASSUME Typed, Planned, pc \notin {"contract", "rejected"}, NEW n
    PROVE  /\ UpTo(n) \subseteq Known(plan.rows) /\ IsFiniteSet(UpTo(n))
           /\ \A row \in UpTo(n) : Shares[row] \in Nat
           /\ SumFunctionOnSet(Shares, UpTo(n)) \in Nat
<1>1. UpTo(n) \subseteq Known(plan.rows)
  BY DEF UpTo
<1>2. IsFiniteSet(UpTo(n)) /\ \A row \in UpTo(n) : Shares[row] \in Nat
  BY <1>1, PlanFacts, FS_Subset
<1> QED
  BY <1>1, <1>2, SumType

\* Stages up to a later one cost more.
LEMMA UpToGrows ==
    ASSUME Typed, Planned, pc \notin {"contract", "rejected"}, NEW m \in Int, NEW n \in Int, m <= n
    PROVE  SumFunctionOnSet(Shares, UpTo(m)) <= SumFunctionOnSet(Shares, UpTo(n))
<1>1. \A row \in Known(plan.rows) : Position(row.stage) \in Int
  BY PlanFacts, PositionsDiffer DEF Known, RowType
<1>2. UpTo(m) \subseteq UpTo(n)
  BY <1>1 DEF UpTo
<1> QED
  BY <1>2, UpToFacts, SumMonotone

\* One more stage.
LEMMA UpToNext ==
    ASSUME Typed, Planned, pc \notin {"contract", "rejected"}, NEW m \in Int, NEW n \in Int, m < n,
           NEW row \in Known(plan.rows), row.stage # "process_checkpoint", Position(row.stage) = n
    PROVE  SumFunctionOnSet(Shares, UpTo(m)) + CostOf(row) <= SumFunctionOnSet(Shares, UpTo(n))
<1>1. \A r \in Known(plan.rows) : Position(r.stage) \in Int
  BY PlanFacts, PositionsDiffer DEF Known, RowType
<1>2. UpTo(m) \cup {row} \subseteq UpTo(n) /\ row \notin UpTo(m)
  BY <1>1 DEF UpTo
<1>3. Shares[row] = CostOf(row) /\ Shares[row] \in Nat
  <2>1. row \in RowType(contract.maxStage) /\ CostOf(row) # Unpriced
        /\ contract \in ContractInfo /\ Valid(contract)
    BY PlanFacts DEF Known
  <2> QED
    BY <2>1, ShareFacts DEF Shares
<1>4. SumFunctionOnSet(Shares, UpTo(m) \cup {row}) = Shares[row] + SumFunctionOnSet(Shares, UpTo(m))
  BY <1>2, <1>3, UpToFacts, SumOfMore
<1>5. SumFunctionOnSet(Shares, UpTo(m) \cup {row}) <= SumFunctionOnSet(Shares, UpTo(n))
  BY <1>2, <1>3, UpToFacts, SumMonotone
<1>6. SumFunctionOnSet(Shares, UpTo(m)) \in Nat
  BY UpToFacts
<1> QED
  BY <1>3, <1>4, <1>5, <1>6

\* What a run has paid for is in the ceiling.
LEMMA PaidWithinCeiling ==
    ASSUME Typed, Planned, pc \notin {"contract", "rejected"}, NEW n, NEW k \in Nat,
           k <= contract.checks, NEW row \in RowsAt("process_checkpoint")
    PROVE  SumFunctionOnSet(Shares, UpTo(n)) + k * CostOf(row) <= plan.ceiling
<1>1. row \in Known(plan.rows) /\ CostOf(row) \in Nat /\ contract.checks \in Nat
      /\ Shares[row] = CostOf(row) * contract.checks /\ row \notin UpTo(n)
  BY CheckpointRow DEF UpTo
<1>2. Shares[row] \in Nat /\ k * CostOf(row) \in Nat /\ k * CostOf(row) <= Shares[row]
  <2>1. CostOf(row) * contract.checks = contract.checks * CostOf(row)
    BY <1>1
  <2> QED
    BY <1>1, <2>1, Arithmetic
<1>3. SumFunctionOnSet(Shares, UpTo(n) \cup {row}) = Shares[row] + SumFunctionOnSet(Shares, UpTo(n))
  BY <1>1, <1>2, UpToFacts, SumOfMore
<1>4. SumFunctionOnSet(Shares, UpTo(n) \cup {row}) <= SumFunctionOnSet(Shares, Known(plan.rows))
  <2>1. UpTo(n) \cup {row} \in SUBSET Known(plan.rows)
    BY <1>1, UpToFacts
  <2>2. IsFiniteSet(Known(plan.rows)) /\ \A r \in Known(plan.rows) : Shares[r] \in Nat
    BY PlanFacts
  <2> QED
    BY <2>1, <2>2, SumMonotone
<1>5. SumFunctionOnSet(Shares, UpTo(n)) \in Nat /\ plan.ceiling \in Nat
      /\ plan.ceiling = SumFunctionOnSet(Shares, Known(plan.rows))
  BY UpToFacts, PlanFacts
<1> HIDE DEF Shares
<1> QED
  BY <1>2, <1>3, <1>4, <1>5

\* So such a run has spent no more than the ceiling, wherever it is.
LEMMA SpentWithinCeiling ==
    ASSUME Typed, Planned, Walked, Paid, Reserved, pc \notin Unstarted
    PROVE  spent <= plan.ceiling
<1>1. CASE pc \in Live
  <2>1. pc \notin {"contract", "rejected"} /\ count["checks"] \in Nat
        /\ count["checks"] <= contract.checks
    BY <1>1 DEF Live, Typed, Walked, Counted
  <2>2. "process_checkpoint" \in StagesOf(contract)
    BY StagesOfFacts
  <2>3. PICK row \in RowsAt("process_checkpoint") : TRUE
    BY <2>1, <2>2, OneRow
  <2>4. spent <= SumFunctionOnSet(Shares, UpTo(Reached)) + count["checks"] * CostOf(row)
    BY <1>1, <2>3 DEF Paid
  <2>5. SumFunctionOnSet(Shares, UpTo(Reached)) + count["checks"] * CostOf(row) <= plan.ceiling
    BY <2>1, <2>3, PaidWithinCeiling
  <2>6. /\ spent \in Nat /\ plan.ceiling \in Nat
        /\ SumFunctionOnSet(Shares, UpTo(Reached)) \in Nat
        /\ count["checks"] * CostOf(row) \in Nat
    BY <2>1, <2>3, PlanFacts, UpToFacts, CheckpointRow, Arithmetic DEF Typed
  <2> QED
    BY <2>4, <2>5, <2>6
<1>2. CASE pc \notin Live
  BY <1>2 DEF Paid
<1> QED
  BY <1>1, <1>2

-----------------------------------------------------------------------------
(* The steps *)

LEMMA InitInv == Init => GovernanceInv
<1> SUFFICES ASSUME Init PROVE GovernanceInv
  OBVIOUS
<1>1. Typed
  BY ConstantFacts DEF Init, Typed, Stage, Finding, NoFinding, Counted
<1>2. Planned
  BY DEF Init, Planned, NoPlan, Unstarted
<1>3. Walked
  BY ConstantFacts DEF Init, Walked, Live, Unstarted, Counted
<1>4. Paid /\ Proved
  BY DEF Init, Paid, Proved, Unstarted
<1> QED
  BY <1>1, <1>2, <1>3, <1>4 DEF GovernanceInv

LEMMA MakePlanStep == GovernanceInv /\ MakePlan => GovernanceInv'
<1> SUFFICES ASSUME GovernanceInv, MakePlan PROVE GovernanceInv'
  OBVIOUS
<1> USE DEF GovernanceInv
<1>1. Typed'
  BY DEF MakePlan, Typed, Ended
<1>2. Planned'
  BY DEF MakePlan, Planned, Unstarted
<1>3. Walked'
  BY DEF MakePlan, Walked, Live, Unstarted
<1>4. Paid' /\ Proved'
  BY DEF MakePlan, Paid, Proved, Unstarted
<1> QED
  BY <1>1, <1>2, <1>3, <1>4

LEMMA StartStep == GovernanceInv /\ Start => GovernanceInv'
<1> SUFFICES ASSUME GovernanceInv, Start PROVE GovernanceInv'
  OBVIOUS
<1> USE DEF GovernanceInv
<1>1. pc = "plan" /\ spent = 0 /\ at = "plan_design" /\ (\A k \in Counted : count[k] = 0)
      /\ Valid(contract) /\ UNCHANGED <<offers, plan, at, spent, count, finding>>
  BY DEF Start, Walked, Planned, Unstarted
<1>2. CASE /\ plan.ready /\ pc' = "perform" /\ UNCHANGED contract
  <2>1. Typed'
    BY <1>1, <1>2 DEF Typed
  <2>2. Planned'
    BY <1>1, <1>2 DEF Planned, Unstarted
  <2>3. Walked'
    <3>1. "plan_design" \in StagesOf(contract)
      BY StagesOfFacts
    <3>2. contract.planLoops >= 0 /\ contract.resultLoops >= 0 /\ contract.checks >= 0
      BY <1>1 DEF Valid
    <3> QED
      BY <1>1, <1>2, <3>1, <3>2, ConstantFacts DEF Walked, Live, Unstarted, Counted
  <2>4. Paid'
    <3> SUFFICES ASSUME NEW row \in RowsAt("process_checkpoint")'
                 PROVE  (spent <= SumFunctionOnSet(Shares, UpTo(Reached))
                                  + count["checks"] * CostOf(row))'
      BY <1>2 DEF Paid, Live
    <3>1. row \in RowsAt("process_checkpoint") /\ pc \notin {"contract", "rejected"}
      BY <1>1 DEF RowsAt
    <3>2. CostOf(row) \in Nat
      BY <3>1, CheckpointRow
    <3>3. SumFunctionOnSet(Shares, UpTo(Reached')) \in Nat
      BY <3>1, UpToFacts
    <3>4. UpTo(Reached)' = UpTo(Reached') /\ Shares' = Shares
      BY <1>1, <1>2 DEF UpTo, Shares
    <3>5. spent' = 0 /\ count'["checks"] = 0
      BY <1>1 DEF Counted
    <3>6. 0 * CostOf(row) = 0
      BY <3>2, Arithmetic
    <3> QED
      BY <3>3, <3>4, <3>5, <3>6
  <2>5. Proved'
    BY <1>2 DEF Proved
  <2> QED
    BY <2>1, <2>2, <2>3, <2>4, <2>5
<1>3. CASE /\ ~plan.ready /\ pc' = "not ready" /\ UNCHANGED contract
  <2>1. Typed'
    BY <1>1, <1>3 DEF Typed, Ended
  <2>2. Planned'
    BY <1>1, <1>3 DEF Planned, Unstarted
  <2>3. Walked'
    BY <1>1, <1>3 DEF Walked, Unstarted, Live
  <2>4. Paid' /\ Proved'
    BY <1>3 DEF Paid, Proved, Unstarted
  <2> QED
    BY <2>1, <2>2, <2>3, <2>4
<1>4. CASE ~plan.ready /\ contract' = [contract EXCEPT !.elastic = contract.hard] /\ pc' = "contract"
  <2>1. contract' = Raised(contract) /\ contract' \in ContractInfo
    BY <1>4, RaisedFacts DEF Raised, Typed
  <2>2. Typed'
    BY <1>1, <1>4, <2>1 DEF Typed
  <2>3. Planned'
    BY <1>1, <1>4 DEF Planned, Unstarted
  <2>4. Walked'
    BY <1>1, <1>4 DEF Walked, Unstarted, Live
  <2>5. Paid' /\ Proved'
    BY <1>4 DEF Paid, Proved, Unstarted
  <2> QED
    BY <2>2, <2>3, <2>4, <2>5
<1> QED
  BY <1>2, <1>3, <1>4 DEF Start

\* What a step of the agent spends.
LEMMA PayFacts ==
    ASSUME Typed, Planned, pc \notin {"contract", "rejected"}, NEW row \in plan.rows,
           row.by # NoChoice, Pay(row)
    PROVE  spent' \in Nat /\ spent' <= spent + CostOf(row) /\ row \in Known(plan.rows)
           /\ CostOf(row) \in Nat
<1>1. row \in RowType(contract.maxStage) /\ contract \in ContractInfo /\ 0 < contract.maxStage
  BY PlanFacts DEF Valid
<1>2. CostOf(row) \in Nat
  BY <1>1, CostFacts
<1>3. row \in Known(plan.rows)
  BY <1>2, ConstantFacts DEF Known
<1>4. PICK cost \in 0..CostOf(row) : spent' = spent + cost
  BY DEF Pay
<1> QED
  BY <1>2, <1>3, <1>4 DEF Typed

\* The stages that are paid for when one was performed.
LEMMA PerformPays ==
    ASSUME Typed, Planned, Walked, Paid, Perform, Reserved, Reserved',
           NEW row \in RowsAt("process_checkpoint")
    PROVE  spent' <= SumFunctionOnSet(Shares, UpTo(Position(at))) + count["checks"] * CostOf(row)
<1> DEFINE sum(n) == SumFunctionOnSet(Shares, UpTo(n))
           extra == count["checks"] * CostOf(row)
           here == Position(at)
<1>1. pc = "perform" /\ pc \notin {"contract", "rejected"} /\ pc \in Live /\ pc \notin Unstarted
  BY DEF Perform, Live, Unstarted
<1>2. here \in Nat /\ here - 1 \in Int /\ here - 1 < here /\ here - 1 <= here
  BY PositionsDiffer DEF Typed
<1>3. Reached = here - 1
  <2>1. ASSUME at = "plan_repair" PROVE count["plan_repair"] # 1
    <3>1. count' = [count EXCEPT !["plan_repair"] = @ + 1]
      BY <2>1 DEF Perform, Take
    <3>2. count'["plan_repair"] = count["plan_repair"] + 1 /\ count["plan_repair"] \in Nat
      BY <3>1 DEF Typed, Counted
    <3> QED
      BY <3>2 DEF Reserved
  <2>2. ASSUME at = "result_repair" PROVE count["result_repair"] # 1
    <3>1. count' = [count EXCEPT !["result_repair"] = @ + 1]
      BY <2>2 DEF Perform, Take
    <3>2. count'["result_repair"] = count["result_repair"] + 1 /\ count["result_repair"] \in Nat
      BY <3>1 DEF Typed, Counted
    <3> QED
      BY <3>2 DEF Reserved
  <2> QED
    BY <1>1, <2>1, <2>2 DEF Reached
<1>4. spent <= sum(here - 1) + extra
  BY <1>1, <1>3 DEF Paid
<1>5. sum(here - 1) \in Nat /\ sum(here) \in Nat /\ extra \in Nat /\ spent \in Nat
      /\ sum(here - 1) <= sum(here)
  BY <1>1, <1>2, UpToFacts, UpToGrows, CheckpointRow, Arithmetic DEF Typed, Counted
<1> SUFFICES spent' <= sum(here) + extra
  OBVIOUS
<1> HIDE DEF sum, extra
<1>6. CASE spent' = spent
  BY <1>4, <1>5, <1>6
<1>7. CASE /\ at # "process_checkpoint"
           /\ \E r \in RowsAt(at) : r.by # NoChoice /\ Pay(r)
  <2>1. PICK r \in plan.rows : r.stage = at /\ r.by # NoChoice /\ Pay(r)
    BY <1>7 DEF RowsAt
  <2>2. spent' \in Nat /\ spent' <= spent + CostOf(r) /\ r \in Known(plan.rows) /\ CostOf(r) \in Nat
    BY <1>1, <2>1, PayFacts
  <2>3. sum(here - 1) + CostOf(r) <= sum(here)
    BY <1>1, <1>2, <1>7, <2>1, <2>2, UpToNext DEF sum
  <2> QED
    BY <1>4, <1>5, <2>2, <2>3
<1> QED
  BY <1>6, <1>7 DEF Perform

LEMMA PerformStep == GovernanceInv /\ Perform => GovernanceInv'
<1> SUFFICES ASSUME GovernanceInv, Perform PROVE GovernanceInv'
  OBVIOUS
<1> USE DEF GovernanceInv
<1>1. /\ pc = "perform" /\ pc \in Live /\ pc \notin Unstarted /\ pc \notin {"contract", "rejected"}
      /\ UNCHANGED <<contract, offers, plan, finding>>
      /\ at \in StagesOf(contract) /\ at \in Stage /\ plan.ready
  BY DEF Perform, Live, Unstarted, Walked, Typed, Planned
<1>2. spent' \in Nat
  <2>1. CASE spent' = spent
    BY <2>1 DEF Typed
  <2>2. CASE \E row \in RowsAt(at) : row.by # NoChoice /\ Pay(row)
    BY <1>1, <2>2, PayFacts DEF RowsAt
  <2> QED
    BY <2>1, <2>2 DEF Perform
<1>3. count' = IF at \in {"plan_repair", "result_repair"} THEN [count EXCEPT ![at] = @ + 1] ELSE count
  BY DEF Perform, Take
<1>4. /\ count' \in [Counted -> Nat] /\ count'["checks"] = count["checks"]
      /\ count'["redesigns"] = count["redesigns"]
      /\ count'["plan_repair"] =
            IF at = "plan_repair" THEN count["plan_repair"] + 1 ELSE count["plan_repair"]
      /\ count'["result_repair"] =
            IF at = "result_repair" THEN count["result_repair"] + 1 ELSE count["result_repair"]
  BY <1>3 DEF Typed, Counted
<1>5. /\ count["plan_repair"] \in Nat /\ count["result_repair"] \in Nat /\ count["checks"] \in Nat
      /\ count["redesigns"] \in Nat
      /\ contract.planLoops \in Int /\ contract.resultLoops \in Int /\ contract.checks \in Int
  BY DEF Typed, Counted, ContractInfo
<1>6. /\ count'["plan_repair"] <= contract.planLoops /\ count'["result_repair"] <= contract.resultLoops
      /\ count'["checks"] <= contract.checks /\ count'["redesigns"] <= MaxRedesigns
  BY <1>1, <1>4, <1>5 DEF Walked
<1>7. Reserved' => Reserved
  BY <1>4, <1>5 DEF Reserved
<1>8. Planned' /\ Proved' /\ (pc' = "check" \/ pc' = "perform")
  BY <1>1 DEF Perform, Planned, Proved, Unstarted
<1>9. ASSUME Reserved', NEW row \in RowsAt("process_checkpoint")'
      PROVE  /\ row \in RowsAt("process_checkpoint") /\ UpTo(Reached)' = UpTo(Reached')
             /\ Shares' = Shares
             /\ spent' <= SumFunctionOnSet(Shares, UpTo(Position(at))) + count'["checks"] * CostOf(row)
  <2>1. row \in RowsAt("process_checkpoint") /\ UpTo(Reached)' = UpTo(Reached') /\ Shares' = Shares
    BY <1>1, <1>9 DEF RowsAt, UpTo, Shares
  <2> QED
    BY <1>4, <1>7, <1>9, <2>1, PerformPays
<1>10. CASE at \in Checked
  <2>1. pc' = "check" /\ at' = at
    BY <1>10 DEF Perform
  <2>2. Typed'
    BY <1>1, <1>2, <1>4, <2>1 DEF Typed
  <2>3. Walked'
    <3>1. /\ at = "plan_delta_verify" => count'["plan_repair"] > 0
          /\ at = "final_delta_verify" => count'["result_repair"] > 0
      BY <1>1, <1>4, <1>5 DEF Walked
    <3> QED
      BY <1>1, <1>6, <1>10, <2>1, <3>1 DEF Walked, Live, Unstarted
  <2>4. Paid'
    <3>1. Reached' = Position(at)
      BY <2>1 DEF Reached
    <3> QED
      BY <1>9, <2>1, <3>1 DEF Paid, Live
  <2> QED
    BY <1>8, <2>2, <2>3, <2>4
<1>11. CASE at \notin Checked
  <2>1. pc' = "perform" /\ at' = Following(at)
    BY <1>11 DEF Perform
  <2>2. at # "closeout" /\ at # "final_verify"
    BY <1>11 DEF Checked
  <2>3. /\ at' \in StagesOf(contract) /\ at' \in Stage
        /\ Position(at) \in Nat /\ Position(at') \in Nat /\ Position(at') > Position(at)
        /\ at' \notin {"plan_repair", "result_repair"}
        /\ at' = "plan_delta_verify" => at = "plan_repair"
        /\ at' = "final_delta_verify" => at = "result_repair"
    BY <1>1, <2>1, <2>2, FollowingFacts
  <2>4. Typed'
    BY <1>1, <1>2, <1>4, <2>1, <2>3 DEF Typed
  <2>5. Walked'
    <3>1. /\ at' = "plan_delta_verify" => count'["plan_repair"] > 0
          /\ at' = "final_delta_verify" => count'["result_repair"] > 0
      BY <1>4, <1>5, <2>3
    <3> QED
      BY <1>1, <1>6, <2>1, <2>3, <3>1 DEF Walked, Live, Unstarted
  <2>6. Paid'
    <3> SUFFICES ASSUME Reserved', NEW row \in RowsAt("process_checkpoint")'
                 PROVE  (spent <= SumFunctionOnSet(Shares, UpTo(Reached))
                                  + count["checks"] * CostOf(row))'
      BY <2>1 DEF Paid, Live
    <3>1. Reached' = Position(at') - 1
      BY <2>1, <2>3 DEF Reached
    <3>2. Position(at) \in Int /\ Reached' \in Int /\ Position(at) <= Reached'
      BY <2>3, <3>1
    <3>3. SumFunctionOnSet(Shares, UpTo(Position(at))) <= SumFunctionOnSet(Shares, UpTo(Reached'))
      BY <1>1, <3>2, UpToGrows
    <3>4. /\ SumFunctionOnSet(Shares, UpTo(Position(at))) \in Nat
          /\ SumFunctionOnSet(Shares, UpTo(Reached')) \in Nat
      BY <1>1, UpToFacts
    <3>5. count'["checks"] * CostOf(row) \in Nat
      BY <1>1, <1>4, <1>5, <1>9, CheckpointRow, Arithmetic
    <3>6. spent' <= SumFunctionOnSet(Shares, UpTo(Position(at))) + count'["checks"] * CostOf(row)
      BY <1>9
    <3>7. spent' <= SumFunctionOnSet(Shares, UpTo(Reached')) + count'["checks"] * CostOf(row)
      BY <1>2, <3>3, <3>4, <3>5, <3>6
    <3>8. UpTo(Reached)' = UpTo(Reached') /\ Shares' = Shares
      BY <1>9
    <3> QED
      BY <3>7, <3>8
  <2> QED
    BY <1>8, <2>4, <2>5, <2>6
<1> QED
  BY <1>10, <1>11

LEMMA CheckStep == GovernanceInv /\ Check => GovernanceInv'
<1> SUFFICES ASSUME GovernanceInv, Check PROVE GovernanceInv'
  OBVIOUS
<1> USE DEF GovernanceInv
<1> DEFINE decision == Decided(contract, at, finding', spent, Loops(at))
           redesign == decision = "redesign_required" /\ count["redesigns"] < MaxRedesigns
           repair == IF at \in {"plan_audit", "plan_delta_verify"} THEN "plan_repair"
                     ELSE "result_repair"
<1>1. /\ pc = "check" /\ pc \in Live /\ pc \notin Unstarted /\ pc \notin {"contract", "rejected"}
      /\ UNCHANGED <<contract, offers, plan, spent>> /\ finding' \in Finding
      /\ at \in StagesOf(contract) /\ at \in Stage /\ plan.ready
      /\ contract \in ContractInfo /\ spent \in Nat /\ at \in Checked
  BY DEF Check, Live, Unstarted, Walked, Typed, Planned
<1>2. /\ count["plan_repair"] \in Nat /\ count["result_repair"] \in Nat /\ count["checks"] \in Nat
      /\ count["redesigns"] \in Nat /\ count \in [Counted -> Nat]
  BY DEF Typed, Counted
<1>3. Loops(at) = count[repair] /\ Loops(at) \in Nat
  BY <1>2 DEF Loops
<1>4. /\ decision \in Decision
      /\ decision = "continue" => at # "closeout" \/ contract.version = "v1"
      /\ decision = "continue" /\ contract.version = "v1" => at # "final_verify"
      /\ decision = "repair_required" =>
            /\ contract.version # "v1"
            /\ \/ at \in {"plan_audit", "plan_delta_verify"} /\ Loops(at) < contract.planLoops
               \/ at \in {"final_verify", "final_delta_verify"} /\ Loops(at) < contract.resultLoops
      /\ decision = "redesign_required" => at = "plan_audit"
      /\ decision = "authorization_required" => spent > contract.elastic
      /\ decision = "complete" =>
            /\ spent <= contract.elastic /\ ~Doubts(at, finding')
            /\ at = IF contract.version = "v1" THEN "final_verify" ELSE "closeout"
  BY <1>1, <1>3, DecisionFacts
<1>5. /\ decision = "continue" => pc' = "perform" /\ at' = Following(at)
      /\ decision = "repair_required" => pc' = "perform" /\ at' = repair
      /\ decision = "redesign_required" =>
            pc' = (IF redesign THEN "perform" ELSE "handed over") /\ at' = "plan_design"
      /\ decision = "verify_required" => pc' = "verify" /\ at' = at
      /\ decision = "authorization_required" => pc' = "authorize" /\ at' = at
      /\ decision \in {"complete", "stop"} => pc' = decision /\ at' = at
      /\ count' = IF redesign THEN [count EXCEPT !["redesigns"] = @ + 1] ELSE count
  BY DEF Check, Take
<1> HIDE DEF decision, redesign
<1>6. /\ count' \in [Counted -> Nat]
      /\ count'["plan_repair"] = count["plan_repair"] /\ count'["checks"] = count["checks"]
      /\ count'["result_repair"] = count["result_repair"]
      /\ count'["redesigns"] =
            IF redesign THEN count["redesigns"] + 1 ELSE count["redesigns"]
  <2>1. CASE redesign
    <3>1. count' = [count EXCEPT !["redesigns"] = @ + 1]
      BY <1>5, <2>1, Zenon
    <3> QED
      BY <1>2, <2>1, <3>1 DEF Counted
  <2>2. CASE ~redesign
    <3>1. count' = count
      BY <1>5, <2>2, Zenon
    <3> QED
      BY <1>2, <2>2, <3>1
  <2> QED
    BY <2>1, <2>2
<1>7. redesign => decision = "redesign_required" /\ count["redesigns"] < MaxRedesigns
  BY DEF redesign
<1>8. /\ count'["plan_repair"] <= contract.planLoops /\ count'["result_repair"] <= contract.resultLoops
      /\ count'["checks"] <= contract.checks /\ count'["redesigns"] <= MaxRedesigns
  BY <1>1, <1>2, <1>6, <1>7, ConstantFacts DEF Walked
<1>9. Reserved' => Reserved /\ ~redesign
  BY <1>2, <1>6 DEF Reserved
<1>10. Reserved' => spent' <= plan'.ceiling /\ spent <= contract.elastic
  <2> SUFFICES ASSUME Reserved' PROVE spent' <= plan'.ceiling /\ spent <= contract.elastic
    OBVIOUS
  <2>1. spent <= plan.ceiling
    BY <1>1, <1>9, SpentWithinCeiling
  <2>2. plan.ceiling <= contract.elastic /\ plan.ceiling \in Nat /\ contract.elastic \in Int
    BY <1>1, PlanFacts DEF ContractInfo
  <2> QED
    BY <1>1, <2>1, <2>2
<1>11. Planned'
  <2>1. pc' \notin Unstarted
    BY <1>4, <1>5 DEF Decision, Unstarted
  <2> QED
    BY <1>1, <2>1 DEF Planned, Unstarted
<1>12. ASSUME Reserved', NEW row \in RowsAt("process_checkpoint")'
       PROVE  /\ row \in RowsAt("process_checkpoint") /\ UpTo(Reached)' = UpTo(Reached')
              /\ Shares' = Shares
              /\ spent' <= SumFunctionOnSet(Shares, UpTo(Position(at))) + count'["checks"] * CostOf(row)
  <2>1. row \in RowsAt("process_checkpoint") /\ UpTo(Reached)' = UpTo(Reached') /\ Shares' = Shares
    BY <1>1, <1>12 DEF RowsAt, UpTo, Shares
  <2>2. Reached = Position(at)
    BY <1>1 DEF Reached
  <2> QED
    BY <1>1, <1>6, <1>9, <1>12, <2>1, <2>2 DEF Paid
\* Where the run goes on, what it has paid for is still behind it.
<1>13. ASSUME pc' = "perform", at' \in Stage, Reached' \in Int, Position(at) <= Reached'
       PROVE  Paid'
  <2> SUFFICES ASSUME Reserved', NEW row \in RowsAt("process_checkpoint")'
               PROVE  (spent <= SumFunctionOnSet(Shares, UpTo(Reached))
                                + count["checks"] * CostOf(row))'
    BY <1>13 DEF Paid, Live
  <2>1. Position(at) \in Int
    BY <1>1, PositionsDiffer
  <2>2. SumFunctionOnSet(Shares, UpTo(Position(at))) <= SumFunctionOnSet(Shares, UpTo(Reached'))
    BY <1>1, <1>13, <2>1, UpToGrows
  <2>3. /\ SumFunctionOnSet(Shares, UpTo(Position(at))) \in Nat
        /\ SumFunctionOnSet(Shares, UpTo(Reached')) \in Nat
    BY <1>1, UpToFacts
  <2>4. count'["checks"] * CostOf(row) \in Nat
    BY <1>1, <1>2, <1>6, <1>12, CheckpointRow, Arithmetic
  <2>5. spent' <= SumFunctionOnSet(Shares, UpTo(Position(at))) + count'["checks"] * CostOf(row)
    BY <1>12
  <2>6. spent' <= SumFunctionOnSet(Shares, UpTo(Reached')) + count'["checks"] * CostOf(row)
    BY <1>1, <2>2, <2>3, <2>4, <2>5
  <2>7. UpTo(Reached)' = UpTo(Reached') /\ Shares' = Shares
    BY <1>12
  <2> QED
    BY <2>6, <2>7
<1>14. CASE decision = "continue"
  <2>1. pc' = "perform" /\ at' = Following(at)
    BY <1>5, <1>14
  <2>2. at # "closeout" /\ (contract.version = "v1" => at # "final_verify")
    BY <1>1, <1>4, <1>14, StagesOfFacts
  <2>3. /\ at' \in StagesOf(contract) /\ at' \in Stage
        /\ Position(at) \in Nat /\ Position(at') \in Nat /\ Position(at') > Position(at)
        /\ at' \notin {"plan_repair", "result_repair"}
        /\ at' = "plan_delta_verify" => at = "plan_repair"
        /\ at' = "final_delta_verify" => at = "result_repair"
    BY <1>1, <2>1, <2>2, FollowingFacts
  <2>4. at' # "plan_delta_verify" /\ at' # "final_delta_verify"
    BY <1>1, <2>3 DEF Checked
  <2>5. Typed'
    BY <1>1, <1>6, <2>1, <2>3 DEF Typed
  <2>6. Walked'
    BY <1>1, <1>8, <2>1, <2>3, <2>4 DEF Walked, Live, Unstarted
  <2>7. Paid'
    <3>1. Reached' = Position(at') - 1
      BY <2>1, <2>3 DEF Reached
    <3>2. Reached' \in Int /\ Position(at) <= Reached'
      BY <2>3, <3>1
    <3> QED
      BY <1>13, <2>1, <2>3, <3>2
  <2> QED
    BY <1>11, <2>1, <2>5, <2>6, <2>7 DEF Proved
<1>15. CASE decision = "repair_required"
  <2>1. pc' = "perform" /\ at' = repair /\ ~redesign /\ count' = count
    BY <1>5, <1>7, <1>15
  <2>2. CASE at \in {"plan_audit", "plan_delta_verify"}
    <3>1. at' = "plan_repair" /\ count["plan_repair"] < contract.planLoops
      BY <1>3, <1>4, <1>15, <2>1, <2>2
    <3>2. "plan_repair" \in StagesOf(contract) /\ "plan_repair" \in Stage
      BY <1>1, <1>4, <1>15, <2>2, StagesOfFacts
    <3>3. Typed'
      BY <1>1, <1>6, <2>1, <3>1, <3>2 DEF Typed
    <3>4. Walked'
      BY <1>1, <1>8, <2>1, <3>1, <3>2 DEF Walked, Live, Unstarted
    <3>5. Paid'
      <4>1. at = "plan_delta_verify" => count["plan_repair"] > 0
        BY <1>1 DEF Walked
      <4>2. Reserved' => count["plan_repair"] <= 1
        BY <1>6 DEF Reserved
      <4>3. Reached' = IF count["plan_repair"] = 1 THEN 5 ELSE 3
        BY <2>1, <3>1, Positions DEF Reached
      <4>4. Reserved' => Position(at) <= Reached'
        BY <1>2, <2>2, <4>1, <4>2, <4>3, Positions
      <4>5. CASE ~Reserved'
        BY <4>5 DEF Paid
      <4>6. CASE Reserved'
        BY <1>13, <2>1, <3>1, <3>2, <4>3, <4>4, <4>6
      <4> QED
        BY <4>5, <4>6
    <3> QED
      BY <1>11, <2>1, <3>3, <3>4, <3>5 DEF Proved
  <2>3. CASE at \in {"final_verify", "final_delta_verify"}
    <3>1. at' = "result_repair" /\ count["result_repair"] < contract.resultLoops
      BY <1>3, <1>4, <1>15, <2>1, <2>3
    <3>2. "result_repair" \in StagesOf(contract) /\ "result_repair" \in Stage
      BY <1>1, <1>4, <1>15, <2>3, StagesOfFacts
    <3>3. Typed'
      BY <1>1, <1>6, <2>1, <3>1, <3>2 DEF Typed
    <3>4. Walked'
      BY <1>1, <1>8, <2>1, <3>1, <3>2 DEF Walked, Live, Unstarted
    <3>5. Paid'
      <4>1. at = "final_delta_verify" => count["result_repair"] > 0
        BY <1>1 DEF Walked
      <4>2. Reserved' => count["result_repair"] <= 1
        BY <1>6 DEF Reserved
      <4>3. Reached' = IF count["result_repair"] = 1 THEN 10 ELSE 8
        BY <2>1, <3>1, Positions DEF Reached
      <4>4. Reserved' => Position(at) <= Reached'
        BY <1>2, <2>3, <4>1, <4>2, <4>3, Positions
      <4>5. CASE ~Reserved'
        BY <4>5 DEF Paid
      <4>6. CASE Reserved'
        BY <1>13, <2>1, <3>1, <3>2, <4>3, <4>4, <4>6
      <4> QED
        BY <4>5, <4>6
    <3> QED
      BY <1>11, <2>1, <3>3, <3>4, <3>5 DEF Proved
  <2> QED
    BY <1>4, <1>15, <2>2, <2>3
<1>16. CASE decision = "redesign_required"
  <2>1. at' = "plan_design" /\ pc' = (IF redesign THEN "perform" ELSE "handed over")
    BY <1>5, <1>16
  <2>2. "plan_design" \in StagesOf(contract) /\ "plan_design" \in Stage
    BY StagesOfFacts
  <2>3. Typed'
    BY <1>1, <1>6, <2>1, <2>2 DEF Typed, Ended
  <2>4. Walked'
    BY <1>1, <1>8, <2>1, <2>2 DEF Walked, Live, Unstarted
  <2>5. Paid'
    BY <1>9, <1>10, <2>1 DEF Paid, Live
  <2>6. Proved'
    BY <2>1 DEF Proved
  <2> QED
    BY <1>11, <2>3, <2>4, <2>5, <2>6
<1>17. CASE decision \in {"verify_required", "authorization_required"}
  <2>1. /\ at' = at /\ count' = count
        /\ decision = "verify_required" => pc' = "verify"
        /\ decision = "authorization_required" => pc' = "authorize"
    BY <1>5, <1>7, <1>17
  <2>2. Typed'
    BY <1>1, <1>6, <1>17, <2>1 DEF Typed
  <2>3. Walked'
    BY <1>1, <1>8, <1>17, <2>1 DEF Walked, Live, Unstarted
  <2>4. Paid'
    <3> SUFFICES ASSUME Reserved' PROVE Paid'
      BY DEF Paid
    <3>1. decision = "verify_required"
      <4>1. contract.elastic \in Int
        BY <1>1 DEF ContractInfo
      <4> QED
        BY <1>1, <1>4, <1>10, <1>17, <4>1
    <3>2. Reached' = Position(at) /\ pc' = "verify"
      BY <2>1, <3>1 DEF Reached
    <3> QED
      BY <1>12, <3>2 DEF Paid, Live
  <2>5. Proved'
    BY <1>17, <2>1 DEF Proved
  <2> QED
    BY <1>11, <2>2, <2>3, <2>4, <2>5
<1>18. CASE decision \in {"complete", "stop"}
  <2>1. pc' = decision /\ at' = at
    BY <1>5, <1>18
  <2>2. Typed'
    BY <1>1, <1>6, <1>18, <2>1 DEF Typed, Ended
  <2>3. Walked'
    BY <1>1, <1>8, <1>18, <2>1 DEF Walked, Live, Unstarted
  <2>4. Paid'
    BY <1>10, <1>18, <2>1 DEF Paid, Live
  <2>5. Proved'
    <3> SUFFICES ASSUME decision = "complete"
                 PROVE  /\ spent <= contract.elastic
                        /\ finding'.criteria = "pass" /\ finding'.evidence /\ ~finding'.scope
                        /\ at = IF contract.version = "v1" THEN "final_verify" ELSE "closeout"
      BY <1>1, <2>1 DEF Proved
    <3>1. at \in {"final_verify", "closeout"} /\ ~Doubts(at, finding') /\ spent <= contract.elastic
          /\ at = IF contract.version = "v1" THEN "final_verify" ELSE "closeout"
      BY <1>4
    <3>2. finding'.criteria \in {"pass", "fail", "unknown", "not_checked"}
      BY <1>1 DEF Finding
    <3>3. ~Open(at, finding') /\ finding'.evidence /\ ~finding'.scope
      BY <3>1, Zenon DEF Doubts
    <3>4. finding'.criteria = "pass"
      BY <3>1, <3>2, <3>3 DEF Open
    <3> QED
      BY <3>1, <3>3, <3>4
  <2> QED
    BY <1>11, <2>2, <2>3, <2>4, <2>5
<1> QED
  BY <1>4, <1>14, <1>15, <1>16, <1>17, <1>18 DEF Decision

LEMMA VerifyDoubtStep == GovernanceInv /\ VerifyDoubt => GovernanceInv'
<1> SUFFICES ASSUME GovernanceInv, VerifyDoubt PROVE GovernanceInv'
  OBVIOUS
<1> USE DEF GovernanceInv
<1>1. /\ pc = "verify" /\ pc \in Live /\ pc \notin Unstarted /\ pc \notin {"contract", "rejected"}
      /\ UNCHANGED <<contract, offers, plan, at, finding>>
      /\ at \in StagesOf(contract) /\ at \in Stage /\ plan.ready
      /\ contract \in ContractInfo /\ spent \in Nat /\ at \in Checked
  BY DEF VerifyDoubt, Live, Unstarted, Walked, Typed, Planned
<1>2. /\ count["plan_repair"] \in Nat /\ count["result_repair"] \in Nat /\ count["checks"] \in Nat
      /\ count["redesigns"] \in Nat /\ count \in [Counted -> Nat] /\ contract.checks \in Int
  BY <1>1 DEF Typed, Counted, ContractInfo
<1>3. PICK row \in RowsAt("process_checkpoint") :
          IF count["checks"] < contract.checks /\ row.by # NoChoice
          THEN Pay(row) /\ Take("checks") /\ pc' = "check"
          ELSE pc' = "handed over" /\ UNCHANGED <<spent, count>>
  BY DEF VerifyDoubt
<1>4. CASE /\ count["checks"] < contract.checks /\ row.by # NoChoice
           /\ Pay(row) /\ Take("checks") /\ pc' = "check"
  <2>1. row \in plan.rows
    BY <1>3 DEF RowsAt
  <2>2. spent' \in Nat /\ spent' <= spent + CostOf(row) /\ CostOf(row) \in Nat
    BY <1>1, <1>4, <2>1, PayFacts
  <2>3. count' = [count EXCEPT !["checks"] = @ + 1]
    BY <1>4 DEF Take
  <2>4. /\ count' \in [Counted -> Nat] /\ count'["checks"] = count["checks"] + 1
        /\ count'["plan_repair"] = count["plan_repair"]
        /\ count'["result_repair"] = count["result_repair"]
        /\ count'["redesigns"] = count["redesigns"]
    BY <1>2, <2>3 DEF Counted
  <2>5. count'["checks"] <= contract.checks
    BY <1>2, <1>4, <2>4
  <2>6. Typed'
    BY <1>1, <1>4, <2>2, <2>4 DEF Typed
  <2>7. Planned'
    BY <1>1, <1>4 DEF Planned, Unstarted
  <2>8. Walked'
    BY <1>1, <1>4, <2>4, <2>5 DEF Walked, Live, Unstarted
  <2>9. Paid'
    <3> SUFFICES ASSUME Reserved', NEW r \in RowsAt("process_checkpoint")'
                 PROVE  (spent <= SumFunctionOnSet(Shares, UpTo(Reached))
                                  + count["checks"] * CostOf(r))'
      BY <1>4 DEF Paid, Live
    <3>1. r = row
      BY <1>1, <1>3, PlanFacts DEF RowsAt
    <3>2. Reserved
      BY <2>4 DEF Reserved
    <3>3. spent <= SumFunctionOnSet(Shares, UpTo(Reached)) + count["checks"] * CostOf(row)
      BY <1>1, <1>3, <3>2 DEF Paid
    <3>4. (count["checks"] + 1) * CostOf(row) = count["checks"] * CostOf(row) + CostOf(row)
          /\ count["checks"] * CostOf(row) \in Nat
      BY <1>2, <2>2, Arithmetic
    <3>5. SumFunctionOnSet(Shares, UpTo(Reached)) \in Nat
      BY <1>1, UpToFacts
    <3>6. spent' <= SumFunctionOnSet(Shares, UpTo(Reached)) + (count["checks"] + 1) * CostOf(row)
      BY <1>1, <2>2, <3>3, <3>4, <3>5
    <3>7. Reached' = Reached
      BY <1>1, <1>4 DEF Reached
    <3>8. UpTo(Reached)' = UpTo(Reached) /\ Shares' = Shares
      BY <1>1, <3>7 DEF UpTo, Shares
    <3> QED
      BY <2>4, <3>1, <3>6, <3>8
  <2>10. Proved'
    BY <1>4 DEF Proved
  <2> QED
    BY <2>6, <2>7, <2>8, <2>9, <2>10
<1>5. CASE pc' = "handed over" /\ UNCHANGED <<spent, count>>
  <2>1. Typed'
    BY <1>1, <1>5 DEF Typed, Ended
  <2>2. Planned'
    BY <1>1, <1>5 DEF Planned, Unstarted
  <2>3. Walked'
    BY <1>1, <1>5 DEF Walked, Live, Unstarted
  <2>4. Paid'
    <3> SUFFICES ASSUME Reserved' PROVE Paid'
      BY DEF Paid
    <3>1. spent <= plan.ceiling
      BY <1>1, <1>5, SpentWithinCeiling DEF Reserved
    <3> QED
      BY <1>1, <1>5, <3>1 DEF Paid, Live
  <2>5. Proved'
    BY <1>5 DEF Proved
  <2> QED
    BY <2>1, <2>2, <2>3, <2>4, <2>5
<1> QED
  BY <1>3, <1>4, <1>5

LEMMA AuthorizeStep == GovernanceInv /\ Authorize => GovernanceInv'
<1> SUFFICES ASSUME GovernanceInv, Authorize PROVE GovernanceInv'
  OBVIOUS
<1> USE DEF GovernanceInv
<1>1. /\ pc = "authorize" /\ pc \in Live /\ pc \notin Unstarted /\ pc \notin {"contract", "rejected"}
      /\ UNCHANGED <<offers, plan, at, spent, finding>>
      /\ contract \in ContractInfo /\ Valid(contract) /\ plan.ready /\ plan = PlanOf(contract, offers)
  BY DEF Authorize, Live, Unstarted, Typed, Planned
<1>2. ~Reserved
  BY <1>1 DEF Paid
<1>3. CASE /\ pc' = "check" /\ contract' = [contract EXCEPT !.elastic = contract.hard]
           /\ Take("grants")
  <2>1. contract' = Raised(contract)
    BY <1>3 DEF Raised
  <2>2. /\ contract' \in ContractInfo /\ Valid(contract')
        /\ contract'.version = contract.version /\ contract'.tier = contract.tier
        /\ contract'.planLoops = contract.planLoops /\ contract'.resultLoops = contract.resultLoops
        /\ contract'.checks = contract.checks
    BY <1>1, <2>1, RaisedFacts, RaisedValid
  <2>3. /\ count' \in [Counted -> Nat]
        /\ \A k \in {"plan_repair", "result_repair", "checks", "redesigns"} : count'[k] = count[k]
    BY <1>3 DEF Take, Typed, Counted
  <2>4. Typed'
    BY <1>1, <1>3, <2>2, <2>3 DEF Typed
  <2>5. Planned'
    <3>1. PlanOf(contract', offers) = PlanOf(contract, offers)
      <4>1. plan.ceiling \in Nat
        BY <1>1, PlanFacts
      <4> QED
        BY <1>1, <2>1, <4>1, RaiseKeepsPlan
    <3> QED
      BY <1>1, <1>3, <2>2, <3>1 DEF Planned, Unstarted
  <2>6. Walked'
    <3>1. StagesOf(contract') = StagesOf(contract)
      BY <2>2 DEF StagesOf, Simple
    <3> QED
      BY <1>1, <1>3, <2>2, <2>3, <3>1 DEF Walked, Live, Unstarted
  <2>7. Paid'
    BY <1>2, <2>3 DEF Paid, Reserved
  <2>8. Proved'
    BY <1>3 DEF Proved
  <2> QED
    BY <2>4, <2>5, <2>6, <2>7, <2>8
<1>4. CASE pc' = "handed over" /\ UNCHANGED <<contract, count>>
  <2>1. Typed'
    BY <1>1, <1>4 DEF Typed, Ended
  <2>2. Planned'
    BY <1>1, <1>4 DEF Planned, Unstarted
  <2>3. Walked'
    BY <1>1, <1>4 DEF Walked, Live, Unstarted
  <2>4. Paid' /\ Proved'
    BY <1>2, <1>4 DEF Paid, Proved, Reserved
  <2> QED
    BY <2>1, <2>2, <2>3, <2>4
<1> QED
  BY <1>3, <1>4 DEF Authorize

LEMMA StutterStep == GovernanceInv /\ UNCHANGED vars => GovernanceInv'
<1> SUFFICES ASSUME GovernanceInv, UNCHANGED vars PROVE GovernanceInv'
  OBVIOUS
<1> USE DEF GovernanceInv, vars
<1>1. Typed' /\ Planned' /\ Walked' /\ Proved'
  BY DEF Typed, Planned, Walked, Proved
<1>2. /\ UpTo(Reached)' = UpTo(Reached) /\ Shares' = Shares /\ Reserved' = Reserved
      /\ RowsAt("process_checkpoint")' = RowsAt("process_checkpoint")
  BY DEF UpTo, Shares, Reserved, RowsAt, Reached
<1>3. Paid'
  BY <1>2 DEF Paid
<1> QED
  BY <1>1, <1>3

\* The inductive invariant holds: the plan of an accepted contract, the walk through its
\* stages and what was paid for them fit together in every reachable state.
THEOREM GovernanceInvariant == GovernanceSpec => []GovernanceInv
<1>1. GovernanceInv /\ [Next]_vars => GovernanceInv'
  BY MakePlanStep, StartStep, PerformStep, CheckStep, VerifyDoubtStep, AuthorizeStep, StutterStep
     DEF Next
<1> QED
  BY <1>1, InitInv, PTL DEF GovernanceSpec

-----------------------------------------------------------------------------
(* The properties *)

\* A stage that is performed or checked is one of the plan's, and an honest agent keeps
\* to the limits of the contract, whatever was found at the checkpoints.
THEOREM GovernanceTypes == GovernanceSpec => []GovernanceTypeOK
<1>1. GovernanceInv => GovernanceTypeOK
  <2> SUFFICES ASSUME GovernanceInv PROVE GovernanceTypeOK
    OBVIOUS
  <2> USE DEF GovernanceInv
  <2>1. contract.elastic <= contract.hard \/ pc \in {"contract", "rejected"}
    BY DEF Planned, Valid
  <2>2. ASSUME pc \in {"perform", "check"} PROVE Cardinality(RowsAt(at)) = 1
    <3>1. at \in StagesOf(contract) /\ pc \notin {"contract", "rejected"}
      BY <2>2 DEF Walked, Live
    <3>2. PICK row \in plan.rows : RowsAt(at) = {row}
      BY <3>1, OneRow
    <3> QED
      BY <3>2, FS_Singleton
  <2>3. /\ count["plan_repair"] = 0 \/ pc \notin Unstarted
        /\ count["result_repair"] = 0 \/ pc \notin Unstarted
        /\ count["checks"] = 0 \/ pc \notin Unstarted
    BY DEF Walked, Counted
  <2>4. pc \notin {"contract", "rejected"} =>
            /\ contract.planLoops \in 0..2 /\ contract.resultLoops \in 0..2
            /\ contract.checks \in 0..3
    BY DEF Planned, Valid
  <2>5. pc \notin {"contract", "rejected"} =>
            /\ count["plan_repair"] <= contract.planLoops
            /\ count["result_repair"] <= contract.resultLoops
    BY <2>3, <2>4 DEF Walked
  <2>6. count["checks"] \in 0..3 /\ count["redesigns"] \in 0..MaxRedesigns
    <3>1. count["checks"] \in Nat /\ count["redesigns"] \in Nat /\ count["redesigns"] <= MaxRedesigns
      BY DEF Typed, Walked, Counted
    <3>2. pc \notin Unstarted => count["checks"] <= contract.checks /\ contract.checks <= 3
      <4>1. pc \notin Unstarted => contract.checks \in 0..3
        BY <2>4 DEF Unstarted
      <4>2. pc \notin Unstarted => count["checks"] <= contract.checks
        BY DEF Walked
      <4> QED
        BY <4>1, <4>2
    <3>3. contract.checks \in Int
      BY DEF Typed, ContractInfo
    <3> QED
      BY <2>3, <3>1, <3>2, <3>3, ConstantFacts
  <2> QED
    BY <2>1, <2>2, <2>5, <2>6 DEF GovernanceTypeOK, Typed
<1> QED
  BY <1>1, GovernanceInvariant, PTL

\* For any contract and any candidates: in a plan that may be run verifiers and auditors
\* are independent, local_only calls nobody it must, and every stage is priced into a
\* ceiling that the elastic limit covers.
THEOREM ReadyPlansSound == GovernanceSpec => []ReadyPlanIsSound
<1>1. GovernanceInv => ReadyPlanIsSound
  BY ReadyIsSound DEF GovernanceInv
<1> QED
  BY <1>1, GovernanceInvariant, PTL

\* For any contract, candidates, costs and findings: the ceiling covers a run with at most
\* one repair of each kind and no redesign, and a workflow that completes was proved
\* within its elastic limit.
THEOREM RunsWithinPlan == GovernanceSpec => []RunStaysWithinPlan
<1>1. GovernanceInv => RunStaysWithinPlan
  <2> SUFFICES ASSUME GovernanceInv PROVE RunStaysWithinPlan
    OBVIOUS
  <2> USE DEF GovernanceInv
  <2>1. ASSUME count["plan_repair"] <= 1, count["result_repair"] <= 1, count["redesigns"] = 0,
               pc \notin {"contract", "rejected", "not ready"}
        PROVE  spent <= plan.ceiling /\ pc # "authorize"
    <3>1. Reserved
      BY <2>1 DEF Reserved
    <3>2. CASE pc = "plan"
      <4>1. spent = 0 /\ plan.ceiling \in Nat
        BY <3>2, PlanFacts DEF Walked, Unstarted
      <4> QED
        BY <3>2, <4>1
    <3>3. CASE pc # "plan"
      <4>1. pc \notin Unstarted
        BY <2>1, <3>3 DEF Unstarted
      <4> QED
        BY <3>1, <4>1, SpentWithinCeiling DEF Paid
    <3> QED
      BY <3>2, <3>3
  <2> QED
    BY <2>1 DEF RunStaysWithinPlan, Proved
<1> QED
  BY <1>1, GovernanceInvariant, PTL
=============================================================================
