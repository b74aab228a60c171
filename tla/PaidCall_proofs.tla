--------------------------- MODULE PaidCall_proofs ---------------------------
(***************************************************************************)
(* The attempt loop implements the authority, and what it owes, leaves     *)
(* behind, answers and tries next is as the properties of PaidCall say,    *)
(* for any number of tasks and choices.                                    *)
(***************************************************************************)
EXTENDS PaidCall, BudgetAuthority_proofs

Tries(t) == DOMAIN Plan[t].choices

\* Attempt i of t takes a workflow reservation.
Books(t, i) == Plan[t].budget = "workflow" /\ Plan[t].choices[i].kind = "paid"

Settled(c) == c \in DOMAIN charged /\ charged[c] = reply[c].cost

Owed(t, i) ==
    LET c == <<t, i>>
    IN  Books(t, i) /\ reply[c].kind \in Billable =>
            phase[c] \in {"held", "refused"} \/ Settled(c) \/ c \in troubled

Freed(c) == phase[c] \in {"held", "refused"} => c \in troubled

PaidShape ==
    /\ pc \in [Tasks -> Label]
    /\ at \in [Tasks -> Nat]
    /\ \A t \in Tasks : at[t] \in Tries(t)
    /\ reply \in [Calls -> [kind: Kind, cost: Usage]]
    /\ troubled \subseteq Calls
    /\ DOMAIN phase = Calls
    /\ DOMAIN request = Calls

\* What holds of the attempt a task is at, by where the task is.
AtLabel(t) ==
    LET c == Call(t)
        kind == reply[c].kind
    IN  /\ pc[t] = "gate" => phase[c] = "idle" /\ kind = "none"
        /\ pc[t] = "scan" => Reserves(t) /\ kind = "none"
        /\ pc[t] = "reserve" =>
              Reserves(t) /\ kind = "none" /\ request[c] = ReqOf(t, at[t])
        /\ pc[t] \in {"send", "flight", "settle", "inconclusive"} /\ Reserves(t) =>
              phase[c] = "held" /\ request[c] = ReqOf(t, at[t])
        /\ pc[t] \in {"send", "flight"} => kind = "none"
        /\ pc[t] = "settle" => kind \in {"answer", "invalid"}
        /\ pc[t] = "inconclusive" => kind = "inconclusive"
        /\ pc[t] = "conclude" =>
              /\ kind \in {"answer", "invalid"}
              /\ Paid(t) => reply[c].cost <= Plan[t].callMax
              /\ Reserves(t) => phase[c] = "settled" /\ Settled(c)
        /\ pc[t] = "stop" =>
              kind = "overrun" /\ (Reserves(t) => phase[c] = "settled" /\ Settled(c))
        /\ pc[t] = "unwind" => c \in troubled
        /\ pc[t] = "failure" =>
              kind \in {"error", "answer", "invalid", "overrun"}
                  /\ (kind # "error" => c \in troubled)
        /\ pc[t] \in {"returned", "raised"} => Freed(c)
        /\ pc[t] = "returned" /\ Paid(t) =>
              /\ kind = "answer" /\ reply[c].cost <= Plan[t].callMax
              /\ Reserves(t) => Settled(c)

Current(t) ==
    /\ pc[t] \notin {"gate"} \cup Ended /\ Paid(t) => Try(t).projected # Unpriced
    /\ ~Reserves(t) => phase[Call(t)] = "idle"
    /\ Owed(t, at[t])
    /\ AtLabel(t)

\* What holds of an attempt the task has left behind, and of one it may still make.
Past(t, i) ==
    LET c == <<t, i>>
    IN  /\ Owed(t, i)
        /\ Freed(c)
        /\ reply[c].kind \in {"blocked", "overrun", "invalid"} => c \in troubled
        /\ ~(reply[c].kind = "inconclusive" /\ Plan[t].output = "json")

Future(t, i) == phase[<<t, i>>] = "idle" /\ reply[<<t, i>>].kind = "none"

PaidInv ==
    /\ PaidShape
    /\ \A t \in Tasks : Current(t)
    /\ \A t \in Tasks : \A i \in Tries(t) : i < at[t] => Past(t, i)
    /\ \A t \in Tasks : \A i \in Tries(t) : i > at[t] => Future(t, i)

-----------------------------------------------------------------------------
(* Constants *)

\* Every attempt has a caller of its own, and the argument triple of a priced
\* one is among the requests.
LEMMA PlanFacts ==
    ASSUME NEW t \in Tasks, NEW i \in Tries(t)
    PROVE  /\ <<t, i>> \in Calls
           /\ i \in Nat /\ i >= 1 /\ i <= Len(Plan[t].choices)
           /\ Plan[t].choices[i] \in Choice
           /\ Plan[t].callMax \in Int
           /\ Plan[t].choices[i].projected # Unpriced =>
                 /\ ReqOf(t, i) \in Requests
                 /\ Plan[t].choices[i].projected \in Usage
<1>1. IsPlan(Plan[t])
  BY PaidCallConstants
<1>2. Plan[t].choices \in Seq(Choice)
  BY <1>1 DEF IsPlan
<1>3. /\ Tries(t) = 1..Len(Plan[t].choices) /\ Len(Plan[t].choices) \in Nat
      /\ Plan[t].choices[i] \in Choice
  BY <1>2 DEF Tries
<1>4. <<t, i>> \in {t} \X DOMAIN Plan[t].choices
  BY DEF Tries
<1>5. <<t, i>> \in Calls
  BY <1>4, PaidCallConstants
<1>6. Plan[t].callMax \in Int
  BY <1>1, BudgetConstants DEF IsPlan, Amount
<1>7. ASSUME Plan[t].choices[i].projected # Unpriced
      PROVE  ReqOf(t, i) \in Requests /\ Plan[t].choices[i].projected \in Usage
  <2>1. ReqOf(t, i) \in Requests /\ Plan[t].choices[i].projected \in Costs
    BY <1>7, PaidCallConstants DEF Tries
  <2>2. Plan[t].choices[i].projected \in Amount
    BY <1>3, <1>7 DEF Choice
  <2>3. QED
    BY <2>1, <2>2 DEF Usage
<1>8. QED
  BY <1>3, <1>5, <1>6, <1>7

\* Every index after the last one is no choice.
LEMMA NextTry ==
    ASSUME NEW t \in Tasks, NEW i \in Tries(t), i < Len(Plan[t].choices)
    PROVE  i + 1 \in Tries(t)
<1>1. Plan[t].choices \in Seq(Choice)
  BY PaidCallConstants DEF IsPlan
<1>2. Tries(t) = 1..Len(Plan[t].choices) /\ Len(Plan[t].choices) \in Nat
  BY <1>1 DEF Tries
<1>3. QED
  BY <1>2

-----------------------------------------------------------------------------
(* A step of the authority by one caller leaves the other callers alone *)

Kept(c) ==
    /\ DOMAIN phase' = Calls
    /\ DOMAIN request' = Calls
    /\ \A d \in Calls \ {c} :
          /\ phase'[d] = phase[d]
          /\ request'[d] = request[d]
          /\ d \in DOMAIN charged => d \in DOMAIN charged' /\ charged'[d] = charged[d]

\* A step that writes the entry of one caller keeps those of the others.
LEMMA KeptByChange ==
    ASSUME DOMAIN phase = Calls, DOMAIN request = Calls, NEW c \in Calls,
           \E p : phase' = [phase EXCEPT ![c] = p],
           request' = request \/ \E q : request' = [request EXCEPT ![c] = q],
           charged' = charged \/ \E x : charged' = With(charged, c, x)
    PROVE  Kept(c)
BY DEF Kept, With

\* What each entry point does to the caller's own state.
LEMMA CallEffects ==
    ASSUME DOMAIN phase = Calls, DOMAIN request = Calls, NEW c \in Calls
    PROVE  /\ \A req : ScanLegacy(c, req) =>
                 Kept(c) /\ phase'[c] = "scanned" /\ request'[c] = req
           /\ Reserve(c) => Kept(c) /\ phase'[c] = "held" /\ request' = request
           /\ ReserveBlocked(c) \/ ReserveFails(c) => Kept(c) /\ phase'[c] = "blocked"
           /\ \A cost : Settle(c, cost) =>
                 /\ Kept(c) /\ phase'[c] = "settled"
                 /\ c \in DOMAIN charged' /\ charged'[c] = cost
           /\ \A cost : SettleUnreported(c, cost) => Kept(c) /\ phase'[c] = "unreported"
           /\ \A cost : SettleRefused(c, cost) => Kept(c) /\ phase'[c] = "refused"
           /\ SettleFails(c) => Kept(c) /\ phase'[c] = "refused"
           /\ Release(c) => Kept(c) /\ phase'[c] = "released"
<1>1. ASSUME NEW req, ScanLegacy(c, req)
      PROVE  Kept(c) /\ phase'[c] = "scanned" /\ request'[c] = req
  BY <1>1, KeptByChange DEF ScanLegacy
<1>2. Reserve(c) => Kept(c) /\ phase'[c] = "held" /\ request' = request
  BY KeptByChange DEF Reserve
<1>3. ReserveBlocked(c) \/ ReserveFails(c) => Kept(c) /\ phase'[c] = "blocked"
  BY KeptByChange DEF ReserveBlocked, ReserveFails
<1>4. ASSUME NEW cost, Settle(c, cost)
      PROVE  /\ Kept(c) /\ phase'[c] = "settled"
             /\ c \in DOMAIN charged' /\ charged'[c] = cost
  <2>1. Kept(c) /\ phase'[c] = "settled"
    BY <1>4, KeptByChange DEF Settle
  <2>2. QED
    BY <1>4, <2>1 DEF Settle, With
<1>5. ASSUME NEW cost, SettleUnreported(c, cost)
      PROVE  Kept(c) /\ phase'[c] = "unreported"
  BY <1>5, KeptByChange DEF SettleUnreported
<1>6. ASSUME NEW cost, SettleRefused(c, cost)
      PROVE  Kept(c) /\ phase'[c] = "refused"
  BY <1>6, KeptByChange DEF SettleRefused
<1>7. SettleFails(c) => Kept(c) /\ phase'[c] = "refused"
  BY KeptByChange DEF SettleFails
<1>8. Release(c) => Kept(c) /\ phase'[c] = "released"
  BY KeptByChange DEF Release
<1>9. QED
  BY <1>1, <1>2, <1>3, <1>4, <1>5, <1>6, <1>7, <1>8

-----------------------------------------------------------------------------
(* A step of one task leaves the other tasks and its own other attempts alone *)

Frame(t) ==
    /\ Kept(Call(t))
    /\ \A u \in Tasks \ {t} : pc'[u] = pc[u] /\ at'[u] = at[u]
    /\ \A d \in Calls \ {Call(t)} : reply'[d] = reply[d] /\ (d \in troubled => d \in troubled')

\* An attempt that the step is not about.
LEMMA OtherAttempt ==
    ASSUME NEW t \in Tasks, Frame(t),
           NEW u \in Tasks, NEW i \in Tries(u), <<u, i>> # Call(t)
    PROVE  /\ Past(u, i) => Past(u, i)'
           /\ Future(u, i) => Future(u, i)'
           /\ Owed(u, i) => Owed(u, i)'
<1> DEFINE d == <<u, i>>
<1>1. d \in Calls \ {Call(t)}
  BY PlanFacts
<1>2. /\ phase'[d] = phase[d] /\ reply'[d] = reply[d]
      /\ d \in troubled => d \in troubled'
      /\ d \in DOMAIN charged => d \in DOMAIN charged' /\ charged'[d] = charged[d]
  BY <1>1 DEF Frame, Kept
<1>3. Owed(u, i) => Owed(u, i)'
  BY <1>2 DEF Owed, Books, Settled
<1>4. QED
  BY <1>2, <1>3 DEF Past, Future, Freed

\* Another task.
LEMMA OtherTask ==
    ASSUME PaidInv, NEW t \in Tasks, Frame(t), NEW u \in Tasks, u # t
    PROVE  /\ Current(u)'
           /\ \A i \in Tries(u) : (i < at[u] => Past(u, i))'
           /\ \A i \in Tries(u) : (i > at[u] => Future(u, i))'
<1>1. at'[u] = at[u] /\ pc'[u] = pc[u] /\ at[u] \in Tries(u)
  BY DEF Frame, PaidInv, PaidShape
<1>2. \A i : <<u, i>> # Call(t)
  BY DEF Call
<1>3. Current(u)'
  <2> DEFINE d == Call(u)
  <2>1. d \in Calls \ {Call(t)}
    BY <1>1, <1>2, PlanFacts DEF Call
  <2>2. /\ phase'[d] = phase[d] /\ reply'[d] = reply[d] /\ request'[d] = request[d]
        /\ d \in troubled => d \in troubled'
        /\ d \in DOMAIN charged => d \in DOMAIN charged' /\ charged'[d] = charged[d]
    BY <2>1 DEF Frame, Kept
  <2>3. Call(u)' = d /\ Try(u)' = Try(u) /\ (Paid(u)' <=> Paid(u)) /\ (Reserves(u)' <=> Reserves(u))
    BY <1>1 DEF Call, Try, Paid, Reserves
  <2>4. Current(u)
    BY DEF PaidInv
  <2>5. Settled(d) => Settled(d)'
    BY <2>2, <2>3 DEF Settled
  <2>6. Freed(d) => Freed(d)'
    BY <2>2, <2>3 DEF Freed
  <2>7. AtLabel(u)'
    <3> HIDE DEF d
    <3>1. AtLabel(u)
      BY <2>4 DEF Current
    <3>2. QED
      BY <1>1, <2>2, <2>3, <2>5, <2>6, <3>1 DEF AtLabel, d
  <2>8. Owed(u, at[u])'
    BY <1>1, <1>2, <2>4, OtherAttempt DEF Current
  <2>9. QED
    BY <1>1, <2>2, <2>3, <2>4, <2>7, <2>8 DEF Current
<1>4. \A i \in Tries(u) : (i < at[u] => Past(u, i))'
  BY <1>1, <1>2, OtherAttempt DEF PaidInv
<1>5. \A i \in Tries(u) : (i > at[u] => Future(u, i))'
  BY <1>1, <1>2, OtherAttempt DEF PaidInv
<1>6. QED
  BY <1>3, <1>4, <1>5

\* A step that stays at the same attempt.
LEMMA StayKeeps ==
    ASSUME PaidInv, PaidShape', NEW t \in Tasks, Frame(t),
           at'[t] = at[t], Current(t)'
    PROVE  PaidInv'
<1>1. at[t] \in Tries(t)
  BY DEF PaidInv, PaidShape
<1>2. \A i \in Tries(t) : i # at[t] => <<t, i>> # Call(t)
  BY DEF Call
<1>3. \A i \in Tries(t) : (i < at[t] => Past(t, i))'
  BY <1>1, <1>2, OtherAttempt, PlanFacts DEF PaidInv
<1>4. \A i \in Tries(t) : (i > at[t] => Future(t, i))'
  BY <1>1, <1>2, OtherAttempt, PlanFacts DEF PaidInv
<1>5. QED
  BY <1>3, <1>4, OtherTask DEF PaidInv

\* A step that leaves the attempt for the next one.
LEMMA MoveKeeps ==
    ASSUME PaidInv, PaidShape', NEW t \in Tasks, Frame(t), NEW i \in Tries(t), at[t] = i,
           pc'[t] = "gate", at'[t] = i + 1, i + 1 \in Tries(t), Past(t, i)'
    PROVE  PaidInv'
<1>1. \A j \in Tries(t) : j # i => <<t, j>> # Call(t)
  BY DEF Call
<1>2. \A j \in Tries(t) : j \in Nat
  BY PlanFacts
<1>3. \A j \in Tries(t) : (j < at[t] => Past(t, j))'
  BY <1>1, <1>2, OtherAttempt DEF PaidInv
<1>4. \A j \in Tries(t) : j > i => Future(t, j)'
  BY <1>1, <1>2, OtherAttempt DEF PaidInv
<1>5. \A j \in Tries(t) : (j > at[t] => Future(t, j))'
  BY <1>2, <1>4
<1>6. Future(t, i + 1)'
  BY <1>2, <1>4
<1>7. Call(t)' = <<t, i + 1>>
  BY DEF Call
<1>8. Current(t)'
  BY <1>6, <1>7 DEF Current, Future, AtLabel, Owed, Billable, Ended
<1>9. QED
  BY <1>3, <1>5, <1>8, OtherTask DEF PaidInv

\* The end of an attempt, by NextChoice or an exception.
LEMMA OnwardKeeps ==
    ASSUME PaidInv, PaidShape', NEW t \in Tasks, Frame(t), NEW i \in Tries(t), at[t] = i,
           Onward(t), Past(t, i)', ~Reserves(t) => phase'[Call(t)] = "idle"
    PROVE  PaidInv'
<1>1. t \in DOMAIN pc /\ t \in DOMAIN at
  BY DEF PaidInv, PaidShape
<1>2. \/ pc'[t] = "raised" /\ at'[t] = at[t]
      \/ pc'[t] = "gate" /\ at'[t] = i + 1 /\ i < Len(Plan[t].choices)
  BY <1>1 DEF Onward, NextChoice, Goto
<1>3. CASE pc'[t] = "raised" /\ at'[t] = at[t]
  <2>1. Call(t)' = <<t, i>> /\ Call(t) = <<t, i>> /\ (Reserves(t)' <=> Reserves(t))
    BY <1>3 DEF Call, Reserves, Paid, Try
  <2>2. Current(t)'
    BY <1>3, <2>1 DEF Current, Past, AtLabel, Ended
  <2>3. QED
    BY <1>3, <2>2, StayKeeps
<1>4. CASE pc'[t] = "gate" /\ at'[t] = i + 1 /\ i < Len(Plan[t].choices)
  BY <1>4, NextTry, MoveKeeps
<1>5. QED
  BY <1>2, <1>3, <1>4

\* What a step to a label does to the program counters.
LEMMA GotoFacts ==
    ASSUME PaidShape, NEW t \in Tasks, NEW label, Goto(t, label)
    PROVE  /\ pc'[t] = label
           /\ \A u \in Tasks \ {t} : pc'[u] = pc[u]
           /\ label \in Label => pc' \in [Tasks -> Label]
BY DEF PaidShape, Goto

\* What the end of an attempt does to them.
LEMMA OnwardFacts ==
    ASSUME PaidShape, NEW t \in Tasks, Onward(t)
    PROVE  /\ pc' \in [Tasks -> Label]
           /\ at' \in [Tasks -> Nat] /\ \A u \in Tasks : at'[u] \in Tries(u)
           /\ \A u \in Tasks \ {t} : pc'[u] = pc[u] /\ at'[u] = at[u]
<1>1. at[t] \in Tries(t) /\ pc \in [Tasks -> Label] /\ at \in [Tasks -> Nat]
  BY DEF PaidShape
<1>2. CASE at' = at /\ Goto(t, "raised")
  BY <1>1, <1>2 DEF PaidShape, Goto, Label, Ended
<1>3. CASE /\ at' = [at EXCEPT ![t] = @ + 1] /\ Goto(t, "gate")
           /\ at[t] < Len(Plan[t].choices)
  <2>1. at[t] + 1 \in Tries(t) /\ at[t] + 1 \in Nat
    BY <1>1, <1>3, NextTry
  <2>2. pc' \in [Tasks -> Label] /\ \A u \in Tasks \ {t} : pc'[u] = pc[u]
    BY <1>1, <1>3 DEF Goto, Label
  <2>3. QED
    BY <1>1, <1>3, <2>1, <2>2 DEF PaidShape
<1>4. QED
  BY <1>2, <1>3 DEF Onward, NextChoice

\* What a verdict on the current attempt does to the replies.
LEMMA BecomeFacts ==
    ASSUME PaidShape, NEW t \in Tasks, NEW kind \in Kind, NEW cost \in Usage,
           Become(t, kind, cost)
    PROVE  /\ reply' \in [Calls -> [kind: Kind, cost: Usage]]
           /\ \A d \in Calls \ {Call(t)} : reply'[d] = reply[d]
           /\ reply'[Call(t)].kind = kind /\ reply'[Call(t)].cost = cost
<1>1. Call(t) \in Calls
  BY PlanFacts DEF PaidShape, Call
<1>2. QED
  BY <1>1 DEF PaidShape, Become

-----------------------------------------------------------------------------
(* Each action *)

\* What the invariant says of a task that is about to take a step.
LEMMA Here ==
    ASSUME PaidInv, NEW t \in Tasks
    PROVE  /\ PaidShape /\ Current(t) /\ AtLabel(t)
           /\ at[t] \in Tries(t) /\ at[t] \in Nat
           /\ Call(t) = <<t, at[t]>> /\ Call(t) \in Calls
           /\ Reserves(t) <=> Books(t, at[t])
           /\ Plan[t].callMax \in Int
           /\ reply[Call(t)].cost \in Usage
           /\ pc[t] \notin {"gate"} \cup Ended /\ Paid(t) =>
                 ReqOf(t, at[t]) \in Requests /\ Try(t).projected \in Usage
<1>1. PaidShape /\ Current(t) /\ AtLabel(t)
  BY DEF PaidInv, Current
<1>2. at[t] \in Tries(t) /\ at[t] \in Nat /\ Call(t) = <<t, at[t]>> /\ Call(t) \in Calls
  BY <1>1, PlanFacts DEF PaidShape, Call
<1>3. Reserves(t) <=> Books(t, at[t])
  BY DEF Reserves, Books, Paid, Try
<1>4. reply[Call(t)].cost \in Usage
  BY <1>1, <1>2 DEF PaidShape
<1>5. QED
  BY <1>1, <1>2, <1>3, <1>4, PlanFacts DEF Current, Try

\* A usage is an amount the authority can be asked to settle.
LEMMA UsageFacts ==
    /\ \A cost \in Usage : cost \in Costs /\ cost \in Int /\ cost \in Amount
    /\ 0 \in Usage
BY PaidCallConstants, BudgetConstants DEF Usage, Amount

\* A step of one caller is a step of the authority.
LEMMA CallIsNext ==
    ASSUME NEW c \in Calls,
           \/ \E req \in Requests : ScanLegacy(c, req)
           \/ Reserve(c) \/ ReserveBlocked(c) \/ ReserveFails(c)
           \/ \E cost \in Costs :
                 Settle(c, cost) \/ SettleUnreported(c, cost) \/ SettleRefused(c, cost)
           \/ SettleFails(c) \/ Release(c) \/ UNCHANGED vars
    PROVE  [Next]_vars
BY DEF Next, CallerStep

\* A step that leaves the authority alone.
LEMMA QuietKept ==
    ASSUME PaidShape, NEW c \in Calls, UNCHANGED vars
    PROVE  Kept(c) /\ UNCHANGED <<file, phase, request, charged>>
BY DEF PaidShape, Kept, vars

\* A task that stays at its attempt.
LEMMA SamePlace ==
    ASSUME NEW t \in Tasks, UNCHANGED at
    PROVE  /\ Call(t)' = Call(t) /\ Try(t)' = Try(t) /\ at'[t] = at[t]
           /\ Paid(t)' <=> Paid(t)
           /\ Reserves(t)' <=> Reserves(t)
BY DEF Call, Try, Paid, Reserves

\* The gate keeps the invariant and is no step of the authority.
LEMMA GateStep ==
    ASSUME PaidInv, NEW t \in Tasks, Gate(t)
    PROVE  [Next]_vars /\ PaidInv'
<1> DEFINE c == Call(t)
           rejected == Paid(t) /\ (Try(t).projected = Unpriced
                                      \/ Try(t).projected > Plan[t].callMax)
<1>1. pc[t] = "gate" /\ UNCHANGED <<vars, reply, troubled>> /\ UNCHANGED vars
  BY DEF Gate
<1>2. phase[c] = "idle" /\ reply[c].kind = "none" /\ PaidShape
  BY <1>1, Here DEF AtLabel
<1>3. /\ Kept(c) /\ UNCHANGED <<file, phase, request, charged>>
      /\ UNCHANGED <<reply, troubled>>
  BY <1>1, <1>2, QuietKept, Here
<1>4. CASE rejected
  <2>1. Onward(t)
    BY <1>4 DEF Gate
  <2>2. PaidShape' /\ Frame(t)
    BY <1>2, <1>3, <2>1, OnwardFacts DEF PaidShape, Frame
  <2>3. PICK i \in Tries(t) : i = at[t] /\ c = <<t, i>>
    BY Here
  <2>4. Past(t, i)'
    BY <1>2, <1>3, <2>3 DEF Past, Owed, Freed, Billable
  <2>5. PaidInv'
    BY <1>2, <1>3, <2>1, <2>2, <2>3, <2>4, OnwardKeeps
  <2>6. QED
    BY <1>1, <2>5
<1>5. CASE ~rejected
  <2>1. /\ UNCHANGED at
        /\ Goto(t, IF Reserves(t) THEN "scan" ELSE "send")
    BY <1>5 DEF Gate
  <2>2. /\ pc'[t] = (IF Reserves(t) THEN "scan" ELSE "send")
        /\ \A u \in Tasks \ {t} : pc'[u] = pc[u]
        /\ pc' \in [Tasks -> Label]
    BY <1>2, <2>1, GotoFacts DEF Label
  <2>3. PaidShape' /\ Frame(t)
    BY <1>2, <1>3, <2>1, <2>2 DEF PaidShape, Frame
  <2>4. Current(t)'
    BY <1>2, <1>3, <1>5, <2>1, <2>2, Here, SamePlace
       DEF Current, AtLabel, Owed, Billable, Ended
  <2>5. QED
    BY <1>1, <2>1, <2>3, <2>4, SamePlace, StayKeeps
<1>6. QED
  BY <1>4, <1>5

\* The scan of the legacy files keeps the invariant and is the authority's.
LEMMA ScanTaskStep ==
    ASSUME PaidInv, NEW t \in Tasks, Scan(t)
    PROVE  [Next]_vars /\ PaidInv'
<1> DEFINE c == Call(t)
           req == ReqOf(t, at[t])
<1>1. /\ pc[t] = "scan" /\ UNCHANGED <<at, reply, troubled>> /\ Goto(t, "reserve")
      /\ ScanLegacy(c, req)
  BY DEF Scan
<1>2. Reserves(t) /\ Paid(t) /\ reply[c].kind = "none" /\ PaidShape
  BY <1>1, Here DEF AtLabel, Reserves
<1>3. c \in Calls /\ req \in Requests
  BY <1>1, <1>2, Here DEF Ended
<1>4. [Next]_vars
  BY <1>1, <1>3, CallIsNext
<1>5. Kept(c) /\ phase'[c] = "scanned" /\ request'[c] = req
  BY <1>1, <1>2, <1>3, CallEffects DEF PaidShape
<1>6. /\ pc'[t] = "reserve" /\ pc' \in [Tasks -> Label]
      /\ \A u \in Tasks \ {t} : pc'[u] = pc[u]
  BY <1>1, <1>2, GotoFacts DEF Label
<1>7. PaidShape' /\ Frame(t)
  BY <1>1, <1>2, <1>5, <1>6 DEF PaidShape, Frame, Kept
<1>8. Current(t)'
  BY <1>1, <1>2, <1>5, <1>6, Here, SamePlace DEF Current, AtLabel, Owed, Billable, Ended
<1>9. QED
  BY <1>1, <1>4, <1>7, <1>8, SamePlace, StayKeeps

\* A granted, refused or failed reservation keeps the invariant.
LEMMA AcquireStep ==
    ASSUME PaidInv, NEW t \in Tasks, Acquire(t)
    PROVE  [Next]_vars /\ PaidInv'
<1> DEFINE c == Call(t)
<1>1. pc[t] = "reserve" /\ PaidShape /\ c \in Calls
  BY Here DEF Acquire
<1>2. Reserves(t) /\ Paid(t) /\ reply[c].kind = "none" /\ request[c] = ReqOf(t, at[t])
  BY <1>1, Here DEF AtLabel, Reserves
<1>3. CASE Reserve(c) /\ Goto(t, "send") /\ UNCHANGED <<at, reply, troubled>>
  <2>1. [Next]_vars
    BY <1>1, <1>3, CallIsNext
  <2>2. Kept(c) /\ phase'[c] = "held" /\ request' = request
    BY <1>1, <1>3, CallEffects DEF PaidShape
  <2>3. /\ pc'[t] = "send" /\ pc' \in [Tasks -> Label]
        /\ \A u \in Tasks \ {t} : pc'[u] = pc[u]
    BY <1>1, <1>3, GotoFacts DEF Label
  <2>4. PaidShape' /\ Frame(t)
    BY <1>1, <1>3, <2>2, <2>3 DEF PaidShape, Frame, Kept
  <2>5. Current(t)'
    BY <1>1, <1>2, <1>3, <2>2, <2>3, Here, SamePlace
       DEF Current, AtLabel, Owed, Billable, Ended, ReqOf
  <2>6. QED
    BY <1>3, <2>1, <2>4, <2>5, SamePlace, StayKeeps
<1>4. CASE ReserveBlocked(c) /\ Become(t, "blocked", 0) /\ Goto(t, "raised")
              /\ UNCHANGED <<at, troubled>>
  <2>1. [Next]_vars
    BY <1>1, <1>4, CallIsNext
  <2>2. Kept(c) /\ phase'[c] = "blocked"
    BY <1>1, <1>4, CallEffects DEF PaidShape
  <2>3. /\ pc'[t] = "raised" /\ pc' \in [Tasks -> Label]
        /\ \A u \in Tasks \ {t} : pc'[u] = pc[u]
    BY <1>1, <1>4, GotoFacts DEF Label, Ended
  <2>4. /\ reply' \in [Calls -> [kind: Kind, cost: Usage]]
        /\ \A d \in Calls \ {c} : reply'[d] = reply[d]
        /\ reply'[c].kind = "blocked"
    BY <1>1, <1>4, UsageFacts, BecomeFacts DEF Kind
  <2>5. PaidShape' /\ Frame(t)
    BY <1>1, <1>4, <2>2, <2>3, <2>4 DEF PaidShape, Frame, Kept
  <2>6. Current(t)'
    BY <1>1, <1>2, <1>4, <2>2, <2>3, <2>4, Here, SamePlace
       DEF Current, AtLabel, Owed, Freed, Billable, Ended
  <2>7. QED
    BY <1>4, <2>1, <2>5, <2>6, SamePlace, StayKeeps
<1>5. CASE /\ ReserveBlocked(c) /\ Become(t, "blocked", 0)
           /\ Onward(t) /\ Trouble(t)
  <2>1. [Next]_vars
    BY <1>1, <1>5, CallIsNext
  <2>2. Kept(c) /\ phase'[c] = "blocked"
    BY <1>1, <1>5, CallEffects DEF PaidShape
  <2>3. troubled' = troubled \cup {c}
    BY <1>5 DEF Trouble
  <2>4. /\ reply' \in [Calls -> [kind: Kind, cost: Usage]]
        /\ \A d \in Calls \ {c} : reply'[d] = reply[d]
        /\ reply'[c].kind = "blocked"
    BY <1>1, <1>5, UsageFacts, BecomeFacts DEF Kind
  <2>5. PaidShape' /\ Frame(t)
    BY <1>1, <1>5, <2>2, <2>3, <2>4, OnwardFacts DEF PaidShape, Frame, Kept
  <2>6. PICK i \in Tries(t) : i = at[t] /\ c = <<t, i>>
    BY Here
  <2>7. Past(t, i)'
    BY <2>2, <2>3, <2>4, <2>6 DEF Past, Owed, Freed, Billable
  <2>8. PaidInv'
    BY <1>2, <1>5, <2>5, <2>6, <2>7, OnwardKeeps
  <2>9. QED
    BY <2>1, <2>8
<1>6. CASE ReserveFails(c) /\ Onward(t) /\ Trouble(t) /\ UNCHANGED reply
  <2>1. [Next]_vars
    BY <1>1, <1>6, CallIsNext
  <2>2. Kept(c) /\ phase'[c] = "blocked"
    BY <1>1, <1>6, CallEffects DEF PaidShape
  <2>3. troubled' = troubled \cup {c}
    BY <1>6 DEF Trouble
  <2>4. PaidShape' /\ Frame(t)
    BY <1>1, <1>6, <2>2, <2>3, OnwardFacts DEF PaidShape, Frame, Kept
  <2>5. PICK i \in Tries(t) : i = at[t] /\ c = <<t, i>>
    BY Here
  <2>6. Past(t, i)'
    BY <1>2, <1>6, <2>2, <2>3, <2>5 DEF Past, Owed, Freed, Billable
  <2>7. PaidInv'
    BY <1>2, <1>6, <2>4, <2>5, <2>6, OnwardKeeps
  <2>8. QED
    BY <2>1, <2>7
<1>7. QED
  BY <1>3, <1>4, <1>5, <1>6 DEF Acquire

\* Sending keeps the invariant.
LEMMA SendStep ==
    ASSUME PaidInv, NEW t \in Tasks, Send(t)
    PROVE  [Next]_vars /\ PaidInv'
<1> DEFINE c == Call(t)
<1>1. /\ pc[t] = "send" /\ Goto(t, "flight") /\ UNCHANGED vars
      /\ UNCHANGED <<at, reply, troubled>>
  BY DEF Send
<1>2. PaidShape /\ c \in Calls
  BY Here
<1>3. Kept(c) /\ UNCHANGED <<file, phase, request, charged>>
  BY <1>1, <1>2, QuietKept
<1>4. /\ pc'[t] = "flight" /\ pc' \in [Tasks -> Label]
      /\ \A u \in Tasks \ {t} : pc'[u] = pc[u]
  BY <1>1, <1>2, GotoFacts DEF Label
<1>5. PaidShape' /\ Frame(t)
  BY <1>1, <1>2, <1>3, <1>4 DEF PaidShape, Frame
<1>6. Current(t)'
  BY <1>1, <1>3, <1>4, Here, SamePlace DEF Current, AtLabel, Owed, Billable, Ended, ReqOf
<1>7. QED
  BY <1>1, <1>5, <1>6, SamePlace, StayKeeps

\* Every reply keeps the invariant: its cost is one the authority can settle.
LEMMA ReceiveStep ==
    ASSUME PaidInv, NEW t \in Tasks, Receive(t)
    PROVE  [Next]_vars /\ PaidInv'
<1> DEFINE c == Call(t)
<1>1. pc[t] = "flight" /\ UNCHANGED vars /\ UNCHANGED <<at, troubled>>
  BY DEF Receive
<1>2. PaidShape /\ c \in Calls /\ (Paid(t) => Try(t).projected \in Usage)
  BY <1>1, Here DEF Ended
<1>3. Kept(c) /\ UNCHANGED <<file, phase, request, charged>>
  BY <1>1, <1>2, QuietKept
<1>4. PICK kind \in Kind, cost \in Usage, label \in Label :
         /\ Become(t, kind, cost) /\ Goto(t, label)
         /\ \/ label = "settle" /\ kind \in {"answer", "invalid"}
            \/ label = "inconclusive" /\ kind = "inconclusive"
            \/ label = "failure" /\ kind = "error"
  BY <1>2, UsageFacts DEF Receive, Kind, Label
<1>5. /\ pc'[t] = label /\ pc' \in [Tasks -> Label]
      /\ \A u \in Tasks \ {t} : pc'[u] = pc[u]
  BY <1>2, <1>4, GotoFacts
<1>6. /\ reply' \in [Calls -> [kind: Kind, cost: Usage]]
      /\ \A d \in Calls \ {c} : reply'[d] = reply[d]
      /\ reply'[c].kind = kind
  BY <1>2, <1>4, BecomeFacts
<1>7. PaidShape' /\ Frame(t)
  BY <1>1, <1>2, <1>3, <1>5, <1>6 DEF PaidShape, Frame
<1>8. Current(t)'
  <2>1. AtLabel(t)'
    BY <1>1, <1>3, <1>4, <1>5, <1>6, Here, SamePlace DEF Current, AtLabel, ReqOf
  <2>2. Owed(t, at[t])'
    BY <1>1, <1>3, <1>4, <1>5, <1>6, Here, SamePlace DEF AtLabel, Owed, Billable
  <2>3. QED
    BY <1>1, <1>3, <1>4, <1>5, <2>1, <2>2, Here, SamePlace DEF Current, Ended
<1>9. QED
  BY <1>1, <1>7, <1>8, SamePlace, StayKeeps

\* The single-call check keeps the invariant: only an answer within the limit goes on.
LEMMA CheckAnswerStep ==
    ASSUME PaidInv, NEW t \in Tasks, CheckAnswer(t)
    PROVE  [Next]_vars /\ PaidInv'
<1> DEFINE c == Call(t)
           cost == reply[c].cost
<1>1. /\ pc[t] = "settle" /\ ~Reserves(t) /\ UNCHANGED vars
      /\ UNCHANGED <<at, troubled>>
  BY DEF CheckAnswer
<1>2. PaidShape /\ c \in Calls /\ reply[c].kind \in {"answer", "invalid"} /\ cost \in Usage
  BY <1>1, Here DEF AtLabel
<1>3. Kept(c) /\ UNCHANGED <<file, phase, request, charged>>
  BY <1>1, <1>2, QuietKept
<1>4. CASE cost > Plan[t].callMax
  <2>1. Become(t, "overrun", cost) /\ Goto(t, "stop")
    BY <1>4 DEF CheckAnswer
  <2>2. /\ pc'[t] = "stop" /\ pc' \in [Tasks -> Label]
        /\ \A u \in Tasks \ {t} : pc'[u] = pc[u]
    BY <1>2, <2>1, GotoFacts DEF Label
  <2>3. /\ reply' \in [Calls -> [kind: Kind, cost: Usage]]
        /\ \A d \in Calls \ {c} : reply'[d] = reply[d]
        /\ reply'[c].kind = "overrun"
    BY <1>2, <2>1, BecomeFacts DEF Kind
  <2>4. PaidShape' /\ Frame(t)
    BY <1>1, <1>2, <1>3, <2>2, <2>3 DEF PaidShape, Frame
  <2>5. Current(t)'
    BY <1>1, <1>3, <2>2, <2>3, Here, SamePlace DEF Current, AtLabel, Owed, Books, Ended
  <2>6. QED
    BY <1>1, <2>4, <2>5, SamePlace, StayKeeps
<1>5. CASE ~(cost > Plan[t].callMax)
  <2>1. UNCHANGED reply /\ Goto(t, "conclude")
    BY <1>5 DEF CheckAnswer
  <2>2. /\ pc'[t] = "conclude" /\ pc' \in [Tasks -> Label]
        /\ \A u \in Tasks \ {t} : pc'[u] = pc[u]
    BY <1>2, <2>1, GotoFacts DEF Label
  <2>3. PaidShape' /\ Frame(t)
    BY <1>1, <1>2, <1>3, <2>1, <2>2 DEF PaidShape, Frame
  <2>4. cost <= Plan[t].callMax
    BY <1>2, <1>5, Here, UsageFacts
  <2>5. Current(t)'
    BY <1>1, <1>2, <1>3, <2>1, <2>2, <2>4, Here, SamePlace
       DEF Current, AtLabel, Owed, Books, Ended
  <2>6. QED
    BY <1>1, <2>3, <2>5, SamePlace, StayKeeps
<1>6. QED
  BY <1>4, <1>5

\* Settling an answer keeps the invariant: charged, or kept with its trouble noted.
LEMMA SettleAnswerStep ==
    ASSUME PaidInv, NEW t \in Tasks, SettleAnswer(t)
    PROVE  [Next]_vars /\ PaidInv'
<1> DEFINE c == Call(t)
           cost == reply[c].cost
<1>1. pc[t] = "settle" /\ Reserves(t) /\ UNCHANGED at
  BY DEF SettleAnswer
<1>2. /\ PaidShape /\ c \in Calls /\ reply[c].kind \in {"answer", "invalid"}
      /\ cost \in Usage /\ request[c] = ReqOf(t, at[t])
  BY <1>1, Here DEF AtLabel
<1>3. CASE /\ Settle(c, cost) /\ Violation(file, request[c], cost)
           /\ Become(t, "overrun", cost) /\ Goto(t, "stop") /\ UNCHANGED troubled
  <2>1. [Next]_vars
    BY <1>2, <1>3, CallIsNext, UsageFacts
  <2>2. Kept(c) /\ phase'[c] = "settled" /\ c \in DOMAIN charged' /\ charged'[c] = cost
    BY <1>2, <1>3, CallEffects DEF PaidShape
  <2>3. /\ pc'[t] = "stop" /\ pc' \in [Tasks -> Label]
        /\ \A u \in Tasks \ {t} : pc'[u] = pc[u]
    BY <1>2, <1>3, GotoFacts DEF Label
  <2>4. /\ reply' \in [Calls -> [kind: Kind, cost: Usage]]
        /\ \A d \in Calls \ {c} : reply'[d] = reply[d]
        /\ reply'[c].kind = "overrun" /\ reply'[c].cost = cost
    BY <1>2, <1>3, BecomeFacts DEF Kind
  <2>5. PaidShape' /\ Frame(t)
    BY <1>1, <1>2, <1>3, <2>2, <2>3, <2>4 DEF PaidShape, Frame, Kept
  <2>6. Settled(c)'
    BY <1>1, <2>2, <2>4, SamePlace DEF Settled
  <2>7. Current(t)'
    BY <1>1, <2>2, <2>3, <2>4, <2>6, Here, SamePlace
       DEF Current, AtLabel, Owed, Ended
  <2>8. QED
    BY <1>1, <2>1, <2>5, <2>7, SamePlace, StayKeeps
<1>4. CASE /\ Settle(c, cost) /\ ~Violation(file, request[c], cost)
           /\ UNCHANGED reply /\ Goto(t, "conclude") /\ UNCHANGED troubled
  <2>1. [Next]_vars
    BY <1>2, <1>4, CallIsNext, UsageFacts
  <2>2. Kept(c) /\ phase'[c] = "settled" /\ c \in DOMAIN charged' /\ charged'[c] = cost
    BY <1>2, <1>4, CallEffects DEF PaidShape
  <2>3. /\ pc'[t] = "conclude" /\ pc' \in [Tasks -> Label]
        /\ \A u \in Tasks \ {t} : pc'[u] = pc[u]
    BY <1>2, <1>4, GotoFacts DEF Label
  <2>4. PaidShape' /\ Frame(t)
    BY <1>1, <1>2, <1>4, <2>2, <2>3 DEF PaidShape, Frame, Kept
  <2>5. Settled(c)'
    BY <1>1, <1>4, <2>2, SamePlace DEF Settled
  <2>6. cost <= Plan[t].callMax
    <3>1. request[c].callMax = Plan[t].callMax
      BY <1>2 DEF ReqOf
    <3>2. ~(cost > Plan[t].callMax)
      BY <1>4, <3>1 DEF Violation
    <3>3. QED
      BY <1>2, <3>2, Here, UsageFacts
  <2>7. Current(t)'
    BY <1>1, <1>2, <1>4, <2>2, <2>3, <2>5, <2>6, Here, SamePlace
       DEF Current, AtLabel, Owed, Ended
  <2>8. QED
    BY <1>1, <2>1, <2>4, <2>7, SamePlace, StayKeeps
<1>5. CASE SettleRefused(c, cost) /\ Goto(t, "unwind") /\ Trouble(t) /\ UNCHANGED reply
  <2>1. [Next]_vars
    BY <1>2, <1>5, CallIsNext, UsageFacts
  <2>2. Kept(c) /\ troubled' = troubled \cup {c}
    BY <1>2, <1>5, CallEffects DEF PaidShape, Trouble
  <2>3. /\ pc'[t] = "unwind" /\ pc' \in [Tasks -> Label]
        /\ \A u \in Tasks \ {t} : pc'[u] = pc[u]
    BY <1>2, <1>5, GotoFacts DEF Label
  <2>4. PaidShape' /\ Frame(t)
    BY <1>1, <1>2, <1>5, <2>2, <2>3 DEF PaidShape, Frame, Kept
  <2>5. Current(t)'
    BY <1>1, <1>5, <2>2, <2>3, Here, SamePlace DEF Current, AtLabel, Owed, Ended
  <2>6. QED
    BY <1>1, <2>1, <2>4, <2>5, SamePlace, StayKeeps
<1>6. CASE /\ SettleUnreported(c, cost) \/ SettleFails(c)
           /\ Goto(t, "failure") /\ Trouble(t) /\ UNCHANGED reply
  <2>1. [Next]_vars
    BY <1>2, <1>6, CallIsNext, UsageFacts
  <2>2. Kept(c) /\ troubled' = troubled \cup {c}
    BY <1>2, <1>6, CallEffects DEF PaidShape, Trouble
  <2>3. /\ pc'[t] = "failure" /\ pc' \in [Tasks -> Label]
        /\ \A u \in Tasks \ {t} : pc'[u] = pc[u]
    BY <1>2, <1>6, GotoFacts DEF Label
  <2>4. PaidShape' /\ Frame(t)
    BY <1>1, <1>2, <1>6, <2>2, <2>3 DEF PaidShape, Frame, Kept
  <2>5. Current(t)'
    BY <1>1, <1>2, <1>6, <2>2, <2>3, Here, SamePlace DEF Current, AtLabel, Owed, Ended
  <2>6. QED
    BY <1>1, <2>1, <2>4, <2>5, SamePlace, StayKeeps
<1>7. QED
  BY <1>3, <1>4, <1>5, <1>6 DEF SettleAnswer

\* A verdict keeps the invariant: nothing is reserved any more.
LEMMA ConcludeStep ==
    ASSUME PaidInv, NEW t \in Tasks, Conclude(t)
    PROVE  [Next]_vars /\ PaidInv'
<1> DEFINE c == Call(t)
           label == IF pc[t] = "conclude" /\ reply[c].kind = "answer"
                    THEN "returned" ELSE "raised"
<1>1. /\ pc[t] \in {"conclude", "stop"} /\ UNCHANGED vars /\ UNCHANGED <<at, reply, troubled>>
      /\ Goto(t, label)
  BY DEF Conclude
<1>2. PaidShape /\ c \in Calls
  BY Here
<1>3. Kept(c) /\ UNCHANGED <<file, phase, request, charged>>
  BY <1>1, <1>2, QuietKept
<1>4. /\ pc'[t] = label /\ pc' \in [Tasks -> Label]
      /\ \A u \in Tasks \ {t} : pc'[u] = pc[u]
  BY <1>1, <1>2, GotoFacts DEF Label, Ended
<1>5. PaidShape' /\ Frame(t)
  BY <1>1, <1>2, <1>3, <1>4 DEF PaidShape, Frame
<1>6. phase[c] \notin {"held", "refused"}
  BY <1>1, Here DEF AtLabel, Current
<1>7. Settled(c) => Settled(c)'
  BY <1>1, <1>3, SamePlace DEF Settled
<1>8. Current(t)'
  BY <1>1, <1>3, <1>4, <1>6, <1>7, Here, SamePlace DEF Current, AtLabel, Owed, Freed, Ended
<1>9. QED
  BY <1>1, <1>5, <1>8, SamePlace, StayKeeps

\* A record that fails keeps the invariant.
LEMMA RecordFailsStep ==
    ASSUME PaidInv, NEW t \in Tasks, RecordFails(t)
    PROVE  [Next]_vars /\ PaidInv'
<1> DEFINE c == Call(t)
<1>1. /\ pc[t] \in {"conclude", "stop"} /\ UNCHANGED vars /\ UNCHANGED <<at, reply>>
      /\ Goto(t, "failure") /\ troubled' = troubled \cup {c}
  BY DEF RecordFails, Trouble
<1>2. PaidShape /\ c \in Calls
  BY Here
<1>3. Kept(c) /\ UNCHANGED <<file, phase, request, charged>>
  BY <1>1, <1>2, QuietKept
<1>4. /\ pc'[t] = "failure" /\ pc' \in [Tasks -> Label]
      /\ \A u \in Tasks \ {t} : pc'[u] = pc[u]
  BY <1>1, <1>2, GotoFacts DEF Label
<1>5. PaidShape' /\ Frame(t)
  BY <1>1, <1>2, <1>3, <1>4 DEF PaidShape, Frame
<1>6. Current(t)'
  BY <1>1, <1>3, <1>4, Here, SamePlace DEF Current, AtLabel, Owed, Ended
<1>7. QED
  BY <1>1, <1>5, <1>6, SamePlace, StayKeeps

\* The handler of a refused settlement keeps the invariant.
LEMMA UnwindStep ==
    ASSUME PaidInv, NEW t \in Tasks, Unwind(t)
    PROVE  [Next]_vars /\ PaidInv'
<1> DEFINE c == Call(t)
<1>1. /\ pc[t] = "unwind" /\ UNCHANGED <<at, reply, troubled>> /\ Goto(t, "raised")
      /\ Release(c) \/ UNCHANGED vars
  BY DEF Unwind
<1>2. PaidShape /\ c \in Calls /\ c \in troubled
  BY <1>1, Here DEF AtLabel
<1>3. [Next]_vars
  BY <1>1, <1>2, CallIsNext
<1>4. Kept(c) /\ (~Reserves(t) => phase'[c] = "idle")
  <2>1. CASE Release(c)
    <3>1. Reserves(t)
      BY <2>1, Here DEF Release, Current
    <3>2. QED
      BY <1>2, <2>1, <3>1, CallEffects DEF PaidShape
  <2>2. CASE UNCHANGED vars
    BY <1>2, <2>2, QuietKept, Here DEF Current
  <2>3. QED
    BY <1>1, <2>1, <2>2
<1>5. /\ pc'[t] = "raised" /\ pc' \in [Tasks -> Label]
      /\ \A u \in Tasks \ {t} : pc'[u] = pc[u]
  BY <1>1, <1>2, GotoFacts DEF Label, Ended
<1>6. PaidShape' /\ Frame(t)
  BY <1>1, <1>2, <1>4, <1>5 DEF PaidShape, Frame, Kept
<1>7. Current(t)'
  BY <1>1, <1>2, <1>4, <1>5, Here, SamePlace DEF Current, AtLabel, Owed, Freed, Ended
<1>8. QED
  BY <1>1, <1>3, <1>6, <1>7, SamePlace, StayKeeps

\* The generic handler keeps the invariant: it releases, or its trouble is noted.
LEMMA HandleFailureStep ==
    ASSUME PaidInv, NEW t \in Tasks, HandleFailure(t)
    PROVE  [Next]_vars /\ PaidInv'
<1> DEFINE c == Call(t)
<1>1. pc[t] = "failure" /\ UNCHANGED reply
  BY DEF HandleFailure
<1>2. /\ PaidShape /\ c \in Calls
      /\ reply[c].kind \in {"error", "answer", "invalid", "overrun"}
      /\ reply[c].kind # "error" => c \in troubled
  BY <1>1, Here DEF AtLabel
<1>3. PICK i \in Tries(t) : i = at[t] /\ c = <<t, i>>
  BY Here
<1>4. CASE Release(c) /\ Onward(t) /\ UNCHANGED troubled
  <2>1. [Next]_vars
    BY <1>2, <1>4, CallIsNext
  <2>2. Kept(c) /\ phase'[c] = "released"
    BY <1>2, <1>4, CallEffects DEF PaidShape
  <2>3. Reserves(t)
    BY <1>4, Here DEF Release, Current
  <2>4. PaidShape' /\ Frame(t)
    BY <1>1, <1>2, <1>4, <2>2, OnwardFacts DEF PaidShape, Frame, Kept
  <2>5. Past(t, i)'
    BY <1>1, <1>2, <1>3, <1>4, <2>2 DEF Past, Owed, Freed, Billable
  <2>6. PaidInv'
    BY <1>3, <1>4, <2>3, <2>4, <2>5, OnwardKeeps
  <2>7. QED
    BY <2>1, <2>6
<1>5. CASE /\ phase[c] \notin {"held", "refused"}
           /\ UNCHANGED vars /\ Onward(t) /\ UNCHANGED troubled
  <2>1. Kept(c) /\ UNCHANGED <<file, phase, request, charged>>
    BY <1>2, <1>5, QuietKept
  <2>2. PaidShape' /\ Frame(t)
    BY <1>1, <1>2, <1>5, <2>1, OnwardFacts DEF PaidShape, Frame
  <2>3. Past(t, i)'
    BY <1>1, <1>2, <1>3, <1>5, <2>1 DEF Past, Owed, Freed, Billable
  <2>4. ~Reserves(t) => phase'[c] = "idle"
    BY <2>1, Here DEF Current
  <2>5. PaidInv'
    BY <1>3, <1>5, <2>2, <2>3, <2>4, OnwardKeeps
  <2>6. QED
    BY <1>5, <2>5
<1>6. CASE UNCHANGED vars /\ UNCHANGED at /\ Goto(t, "raised") /\ Trouble(t)
  <2>1. Kept(c) /\ UNCHANGED <<file, phase, request, charged>>
    BY <1>2, <1>6, QuietKept
  <2>2. /\ pc'[t] = "raised" /\ pc' \in [Tasks -> Label]
        /\ \A u \in Tasks \ {t} : pc'[u] = pc[u]
    BY <1>2, <1>6, GotoFacts DEF Label, Ended
  <2>3. troubled' = troubled \cup {c}
    BY <1>6 DEF Trouble
  <2>4. PaidShape' /\ Frame(t)
    BY <1>1, <1>2, <1>6, <2>1, <2>2, <2>3 DEF PaidShape, Frame
  <2>5. Current(t)'
    BY <1>1, <1>6, <2>1, <2>2, <2>3, Here, SamePlace DEF Current, AtLabel, Owed, Freed, Ended
  <2>6. QED
    BY <1>6, <2>4, <2>5, SamePlace, StayKeeps
<1>7. QED
  BY <1>4, <1>5, <1>6 DEF HandleFailure, Unfinalized

\* Inconclusive output keeps the invariant: its cost is settled first.
LEMMA HandleInconclusiveStep ==
    ASSUME PaidInv, NEW t \in Tasks, HandleInconclusive(t)
    PROVE  [Next]_vars /\ PaidInv'
<1> DEFINE c == Call(t)
           cost == reply[c].cost
           overran == IF Reserves(t) THEN Violation(file, request[c], cost)
                      ELSE Paid(t) /\ cost > Plan[t].callMax
<1>1. pc[t] = "inconclusive"
  BY DEF HandleInconclusive
<1>2. PaidShape /\ c \in Calls /\ reply[c].kind = "inconclusive" /\ cost \in Usage
  BY <1>1, Here DEF AtLabel
<1>3. CASE /\ IF Reserves(t) THEN Settle(c, cost) ELSE UNCHANGED vars
           /\ IF overran THEN Become(t, "overrun", cost) ELSE UNCHANGED reply
           /\ IF overran \/ Plan[t].output = "json"
              THEN Goto(t, "raised") /\ UNCHANGED at
              ELSE Onward(t)
           /\ UNCHANGED troubled
  <2> HIDE DEF overran
  <2>1. [Next]_vars
    BY <1>2, <1>3, CallIsNext, UsageFacts
  <2>2. /\ Kept(c)
        /\ Reserves(t) => /\ phase'[c] = "settled"
                          /\ c \in DOMAIN charged' /\ charged'[c] = cost
        /\ ~Reserves(t) => phase'[c] = "idle"
    <3>1. CASE Reserves(t)
      BY <1>2, <1>3, <3>1, CallEffects DEF PaidShape
    <3>2. CASE ~Reserves(t)
      BY <1>2, <1>3, <3>2, QuietKept, Here DEF Current
    <3>3. QED
      BY <3>1, <3>2
  <2>3. /\ reply' \in [Calls -> [kind: Kind, cost: Usage]]
        /\ \A d \in Calls \ {c} : reply'[d] = reply[d]
        /\ reply'[c].cost = cost
        /\ reply'[c].kind = IF overran THEN "overrun" ELSE "inconclusive"
    BY <1>2, <1>3, BecomeFacts DEF PaidShape, Kind
  <2>4. CASE overran \/ Plan[t].output = "json"
    <3>1. UNCHANGED at /\ Goto(t, "raised")
      BY <1>3, <2>4
    <3>2. /\ pc'[t] = "raised" /\ pc' \in [Tasks -> Label]
          /\ \A u \in Tasks \ {t} : pc'[u] = pc[u]
      BY <1>2, <3>1, GotoFacts DEF Label, Ended
    <3>3. PaidShape' /\ Frame(t)
      BY <1>2, <1>3, <2>2, <2>3, <3>1, <3>2 DEF PaidShape, Frame, Kept
    <3>4. Reserves(t) => Settled(c)'
      BY <2>2, <2>3, <3>1, SamePlace DEF Settled
    <3>5. Freed(c)'
      BY <2>2, <3>1, SamePlace DEF Freed
    <3>6. Current(t)'
      BY <2>2, <2>3, <3>1, <3>2, <3>4, <3>5, Here, SamePlace
         DEF Current, AtLabel, Owed, Ended
    <3>7. QED
      BY <2>1, <3>1, <3>3, <3>6, SamePlace, StayKeeps
  <2>5. CASE ~(overran \/ Plan[t].output = "json")
    <3>1. Onward(t) /\ reply'[c].kind = "inconclusive" /\ Plan[t].output # "json"
      BY <1>3, <2>3, <2>5
    <3>2. PaidShape' /\ Frame(t)
      BY <1>2, <1>3, <2>2, <2>3, <3>1, OnwardFacts DEF PaidShape, Frame, Kept
    <3>3. PICK i \in Tries(t) : i = at[t] /\ c = <<t, i>>
      BY Here
    <3>4. Past(t, i)'
      <4>1. Reserves(t) <=> Books(t, i)
        BY <3>3, Here
      <4>2. QED
        BY <2>2, <2>3, <3>1, <3>3, <4>1 DEF Past, Owed, Freed, Settled
    <3>5. PaidInv'
      BY <2>2, <3>1, <3>2, <3>3, <3>4, OnwardKeeps
    <3>6. QED
      BY <2>1, <3>5
  <2>6. QED
    BY <2>4, <2>5
<1>4. CASE /\ SettleRefused(c, cost) \/ SettleUnreported(c, cost) \/ SettleFails(c)
           /\ Reserves(t)
           /\ Goto(t, "raised") /\ Trouble(t) /\ UNCHANGED <<at, reply>>
  <2>1. [Next]_vars
    BY <1>2, <1>4, CallIsNext, UsageFacts
  <2>2. Kept(c) /\ troubled' = troubled \cup {c}
    BY <1>2, <1>4, CallEffects DEF PaidShape, Trouble
  <2>3. /\ pc'[t] = "raised" /\ pc' \in [Tasks -> Label]
        /\ \A u \in Tasks \ {t} : pc'[u] = pc[u]
    BY <1>2, <1>4, GotoFacts DEF Label, Ended
  <2>4. PaidShape' /\ Frame(t)
    BY <1>2, <1>4, <2>2, <2>3 DEF PaidShape, Frame, Kept
  <2>5. Current(t)'
    BY <1>4, <2>2, <2>3, Here, SamePlace DEF Current, AtLabel, Owed, Freed, Ended
  <2>6. QED
    BY <1>4, <2>1, <2>4, <2>5, SamePlace, StayKeeps
<1>5. QED
  BY <1>3, <1>4 DEF HandleInconclusive

\* A crash keeps the invariant: the reservation stays where it is.
LEMMA CrashStep ==
    ASSUME PaidInv, NEW t \in Tasks, Crash(t)
    PROVE  [Next]_vars /\ PaidInv'
<1> DEFINE c == Call(t)
<1>1. /\ Goto(t, "crashed") /\ UNCHANGED vars /\ UNCHANGED <<at, reply, troubled>>
  BY DEF Crash
<1>2. PaidShape /\ c \in Calls
  BY Here
<1>3. Kept(c) /\ UNCHANGED <<file, phase, request, charged>>
  BY <1>1, <1>2, QuietKept
<1>4. /\ pc'[t] = "crashed" /\ pc' \in [Tasks -> Label]
      /\ \A u \in Tasks \ {t} : pc'[u] = pc[u]
  BY <1>1, <1>2, GotoFacts DEF Label, Ended
<1>5. PaidShape' /\ Frame(t)
  BY <1>1, <1>2, <1>3, <1>4 DEF PaidShape, Frame
<1>6. Current(t)'
  BY <1>1, <1>3, <1>4, Here, SamePlace DEF Current, AtLabel, Owed, Settled, Ended
<1>7. QED
  BY <1>1, <1>5, <1>6, SamePlace, StayKeeps

-----------------------------------------------------------------------------
(* The theorems *)

\* A task starts at the gate of its first choice, with nothing asked for.
LEMMA PaidInitInv == PaidInit => PaidInv
<1> SUFFICES ASSUME PaidInit PROVE PaidInv
  OBVIOUS
<1>1. /\ pc = [t \in Tasks |-> "gate"] /\ at = [t \in Tasks |-> 1]
      /\ reply = [c \in Calls |-> [kind |-> "none", cost |-> 0]] /\ troubled = {}
      /\ phase = [c \in Calls |-> "idle"] /\ request = [c \in Calls |-> NoRequest]
  BY DEF PaidInit, Init
<1>2. \A t \in Tasks : 1 \in Tries(t)
  <2> SUFFICES ASSUME NEW t \in Tasks PROVE 1 \in Tries(t)
    OBVIOUS
  <2>1. Plan[t].choices \in Seq(Choice) /\ Plan[t].choices # <<>>
    BY PaidCallConstants DEF IsPlan
  <2>2. QED
    BY <2>1 DEF Tries
<1>3. PaidShape
  BY <1>1, <1>2, UsageFacts DEF PaidShape, Label, Kind
<1>4. \A t \in Tasks : \A i \in Tries(t) :
         <<t, i>> \in Calls /\ phase[<<t, i>>] = "idle" /\ reply[<<t, i>>].kind = "none"
  BY <1>1, PlanFacts
<1>5. ASSUME NEW t \in Tasks PROVE Current(t)
  <2>1. pc[t] = "gate" /\ at[t] = 1 /\ Call(t) = <<t, 1>>
    BY <1>1 DEF Call
  <2>2. phase[Call(t)] = "idle" /\ reply[Call(t)].kind = "none"
    BY <1>2, <1>4, <2>1
  <2>3. QED
    BY <2>1, <2>2 DEF Current, AtLabel, Owed, Billable, Ended
<1>6. ASSUME NEW t \in Tasks, NEW i \in Tries(t) PROVE ~(i < at[t])
  <2>1. at[t] = 1
    BY <1>1
  <2>2. i \in Nat /\ i >= 1
    BY PlanFacts
  <2>3. QED
    BY <2>1, <2>2
<1>7. QED
  BY <1>3, <1>4, <1>5, <1>6 DEF PaidInv, Future

\* An earlier release rewriting its file keeps the invariant.
LEMMA LegacyTaskStep ==
    ASSUME PaidInv, NEW d \in LegacyDirs, LegacyChanges(d), UNCHANGED taskVars
    PROVE  [Next]_vars /\ PaidInv'
<1>1. [Next]_vars
  BY DEF Next
<1>2. UNCHANGED <<pc, at, reply, troubled, phase, request, charged>>
  BY DEF LegacyChanges, taskVars
<1>3. QED
  BY <1>1, <1>2 DEF PaidInv, PaidShape, Current, AtLabel, Past, Future, Owed, Freed, Settled,
                    Call, Try, Paid, Reserves

\* Every step of the loop is a step of the authority and keeps the invariant.
LEMMA PaidStep == PaidInv /\ [PaidNext]_paidVars => [Next]_vars /\ PaidInv'
<1> SUFFICES ASSUME PaidInv, [PaidNext]_paidVars PROVE [Next]_vars /\ PaidInv'
  OBVIOUS
<1>1. ASSUME NEW t \in Tasks, TaskStep(t) PROVE [Next]_vars /\ PaidInv'
  BY <1>1, GateStep, ScanTaskStep, AcquireStep, SendStep, ReceiveStep, SettleAnswerStep,
     CheckAnswerStep, ConcludeStep, RecordFailsStep, UnwindStep, HandleFailureStep,
     HandleInconclusiveStep DEF TaskStep
<1>2. ASSUME NEW t \in Tasks, Crash(t) PROVE [Next]_vars /\ PaidInv'
  BY <1>2, CrashStep
<1>3. CASE \E d \in LegacyDirs : LegacyChanges(d) /\ UNCHANGED taskVars
  BY <1>3, LegacyTaskStep
<1>4. CASE UNCHANGED paidVars
  <2>1. UNCHANGED vars /\ UNCHANGED <<pc, at, reply, troubled, phase, request, charged>>
    BY <1>4 DEF paidVars, vars, taskVars
  <2>2. QED
    BY <2>1 DEF PaidInv, PaidShape, Current, AtLabel, Past, Future, Owed, Freed, Settled,
                Call, Try, Paid, Reserves
<1>5. QED
  BY <1>1, <1>2, <1>3, <1>4 DEF PaidNext

\* The loop calls the authority as it wants to be called: in particular no
\* reservation is settled or released twice.
THEOREM PaidImplementsAuthority == PaidSpec => ImplementsAuthority
<1>1. PaidInit => Init
  BY DEF PaidInit
<1>2. QED
  BY <1>1, PaidInitInv, PaidStep, PTL DEF PaidSpec, ImplementsAuthority, Spec

\* So the tasks of a workflow spend from one cap: no request is admitted that would not
\* fit beside what was spent and what is on its way, and no charge is lost or made twice,
\* whatever is answered, fails or dies in any of them (router.py 6432-6506, 6671-6733).
THEOREM PaidIsCap ==
    PaidSpec => ImplementsCap /\ [](ExposureBounded /\ SpentIsAccounted /\ ActiveWithinMax)
BY PaidImplementsAuthority, AuthorityImplementsCap, ExposureIsBounded, SpentAccounted,
   ActiveIsWithinMax, PTL DEF ImplementsAuthority

\* Both invariants hold along every run of the loop.
LEMMA PaidInvariance == PaidSpec => [](PaidInv /\ IInv)
<1>1. PaidSpec => []PaidInv
  BY PaidInitInv, PaidStep, PTL DEF PaidSpec
<1>2. PaidSpec => []IInv
  BY PaidImplementsAuthority, Invariance, PTL DEF ImplementsAuthority
<1>3. QED
  BY <1>1, <1>2, PTL

\* The variables of the loop keep their types (router.py 6350-6953).
THEOREM PaidTypeCorrect == PaidSpec => []PaidTypeOK
<1>1. PaidInv => PaidTypeOK
  <2>1. Usage \subseteq Amount
    BY DEF Usage
  <2>2. QED
    BY <2>1 DEF PaidInv, PaidShape, PaidTypeOK, Tries
<1>2. QED
  BY <1>1, PaidInvariance, PTL

\* The reservation of a request on its way is in the authority's file, for the
\* projected cost (router.py 6432-6490).
THEOREM SendsAreReserved == PaidSpec => []SentIsReserved
<1>1. ASSUME PaidInv, IInv PROVE SentIsReserved
  <2> SUFFICES ASSUME NEW t \in Tasks, pc[t] \in {"send", "flight", "settle"}, Reserves(t)
               PROVE  Call(t) \in DOMAIN file.res /\ file.res[Call(t)] = Try(t).projected
    BY DEF SentIsReserved
  <2>1. phase[Call(t)] = "held" /\ request[Call(t)] = ReqOf(t, at[t]) /\ Call(t) \in Calls
    BY <1>1, Here DEF AtLabel
  <2>2. Call(t) \in Liable
    BY <2>1 DEF Liable
  <2>3. ReservationsMatchCallers
    BY <1>1 DEF IInv
  <2>4. QED
    BY <2>1, <2>2, <2>3 DEF ReservationsMatchCallers, ReqOf, Try
<1>2. QED
  BY <1>1, PaidInvariance, PTL

\* A returned answer was within the single-call limit and charged at its cost
\* (router.py 6480-6506, 6671).
THEOREM AnswersCharged == PaidSpec => []AnswersArePaidFor
<1>1. ASSUME PaidInv PROVE AnswersArePaidFor
  BY <1>1, Here DEF AnswersArePaidFor, AtLabel, Settled
<1>2. QED
  BY <1>1, PaidInvariance, PTL

\* Every billable reply is charged, still reserved, or one whose settlement
\* raised (router.py 6480-6490, 6720-6733).
THEOREM OwedAccounted == PaidSpec => []OwedIsAccounted
<1>1. ASSUME PaidInv, IInv PROVE OwedIsAccounted
  <2> SUFFICES ASSUME NEW t \in Tasks, NEW i \in 1..at[t],
                      Books(t, i), reply[<<t, i>>].kind \in Billable
               PROVE  \/ <<t, i>> \in DOMAIN charged /\ charged[<<t, i>>] = reply[<<t, i>>].cost
                      \/ <<t, i>> \in DOMAIN file.res
                      \/ <<t, i>> \in troubled
    BY DEF OwedIsAccounted, Books
  <2>1. i \in Tries(t) /\ (i < at[t] \/ i = at[t])
    <3>1. Plan[t].choices \in Seq(Choice)
      BY PaidCallConstants DEF IsPlan
    <3>2. Tries(t) = 1..Len(Plan[t].choices) /\ Len(Plan[t].choices) \in Nat
      BY <3>1 DEF Tries
    <3>3. QED
      BY <1>1, <3>2, Here
  <2>2. Owed(t, i)
    BY <1>1, <2>1, Here DEF PaidInv, Past, Current
  <2>3. phase[<<t, i>>] \in {"held", "refused"} => <<t, i>> \in DOMAIN file.res
    <3>1. ReservationsMatchCallers /\ <<t, i>> \in Calls
      BY <1>1, <2>1, PlanFacts DEF IInv
    <3>2. QED
      BY <3>1 DEF ReservationsMatchCallers, Liable
  <2>4. QED
    BY <2>2, <2>3 DEF Owed, Settled
<1>2. QED
  BY <1>1, PaidInvariance, PTL

\* A task that ended by itself left no reservation, but where releasing or
\* settling it raised (router.py 6676-6678, 6720-6733).
THEOREM LeftoversExplained == PaidSpec => []LeftoversAreExplained
<1>1. ASSUME PaidInv PROVE LeftoversAreExplained
  <2> SUFFICES ASSUME NEW t \in Tasks, NEW i \in Tries(t),
                      pc[t] \in {"returned", "raised"}, <<t, i>> \in Liable
               PROVE  <<t, i>> \in troubled
    BY DEF LeftoversAreExplained, Tries
  <2>1. i < at[t] \/ i = at[t] \/ i > at[t]
    BY <1>1, Here, PlanFacts
  <2>2. QED
    BY <1>1, <2>1, Here DEF PaidInv, Past, Future, Freed, AtLabel, Liable
<1>2. QED
  BY <1>1, PaidInvariance, PTL

\* A verdict is the end of its task (router.py 6582-6618, 6676-6697, 6768-6860).
THEOREM VerdictsFinal == PaidSpec => []FinalVerdicts
<1>1. ASSUME PaidInv PROVE FinalVerdicts
  <2> SUFFICES ASSUME NEW t \in Tasks, NEW i \in 1..(at[t] - 1)
               PROVE  Past(t, i)
    BY DEF FinalVerdicts, Past
  <2>1. Plan[t].choices \in Seq(Choice)
    BY PaidCallConstants DEF IsPlan
  <2>2. Tries(t) = 1..Len(Plan[t].choices) /\ Len(Plan[t].choices) \in Nat
    BY <2>1 DEF Tries
  <2>3. i \in Tries(t) /\ i < at[t]
    BY <1>1, <2>2, Here
  <2>4. QED
    BY <1>1, <2>3 DEF PaidInv
<1>2. QED
  BY <1>1, PaidInvariance, PTL
=============================================================================
