-------------------------- MODULE BudgetFile_proofs --------------------------
(***************************************************************************)
(* The lock, the temporary file and the rename implement the authority:    *)
(* every behaviour of BudgetFile is one of BudgetAuthority, so all that is *)
(* proved of BudgetAuthority holds with failures and crashes in between.   *)
(***************************************************************************)
EXTENDS BudgetFile, BudgetAuthority_proofs

Steps == {"out", "waiting", "dead"} \cup Inside

\* The functions a step updates keep their domains.
Shape ==
    /\ step \in [Calls -> Steps]
    /\ lock \in Calls \cup {NoOne}
    /\ DOMAIN op = Calls
    /\ DOMAIN memory = Calls
    /\ DOMAIN temp = Processes
    /\ DOMAIN phase = Calls
    /\ DOMAIN request = Calls

Pending == {"waiting", "locked", "scanning", "ready", "written"}

\* What a call came for still fits the state of its caller.
PurposeFits(c) ==
    \/ /\ op[c].name = "reserve"
       /\ op[c].req \in Requests
       /\ IF step[c] \in {"ready", "written"}
          THEN phase[c] = "scanned" /\ request[c] = op[c].req
          ELSE phase[c] = "idle" /\ step[c] \in {"waiting", "locked", "scanning"}
    \/ /\ op[c].name = "settle"
       /\ phase[c] = "held"
       /\ op[c].req = request[c]
       /\ op[c].cost \in Costs
       /\ step[c] # "scanning"
    \/ /\ op[c].name = "release"
       /\ phase[c] \in {"held", "refused"}
       /\ step[c] # "scanning"

\* A temporary file that is about to be renamed is what its call wrote.
TempIsOwn(c) == step[c] = "written" => temp[Pid[c]] \in Outcomes(c, memory[c], seen[c], op[c])

FileInv ==
    /\ Shape
    /\ CopyIsCurrent
    /\ \A c \in Calls : step[c] \in Pending => PurposeFits(c)
    /\ \A c \in Calls : TempIsOwn(c)

-----------------------------------------------------------------------------
(* Each step is a step of the authority, or changes nothing of it *)

\* Entering changes nothing of the authority, and the call fits its caller.
LEMMA EnterSteps ==
    ASSUME FileInv, NEW c \in Calls, Enter(c)
    PROVE  UNCHANGED vars /\ FileInv'
<1>1. UNCHANGED vars /\ UNCHANGED <<lock, memory, temp>>
  BY DEF Enter
<1>2. /\ step[c] = "out"
      /\ step' = [step EXCEPT ![c] = "waiting"]
      /\ \E x : op' = [op EXCEPT ![c] = x]
  BY DEF Enter, Move
<1>3. Shape'
  BY <1>1, <1>2 DEF FileInv, Shape, Steps, vars
<1>4. \A d \in Calls \ {c} : step'[d] = step[d] /\ op'[d] = op[d]
  BY <1>2 DEF FileInv, Shape
<1>5. step'[c] = "waiting"
  BY <1>2 DEF FileInv, Shape
<1>6. CopyIsCurrent'
  BY <1>1, <1>4, <1>5 DEF FileInv, CopyIsCurrent, Inside, vars
<1>7. PurposeFits(c)'
  BY <1>1, <1>5 DEF Enter, FileInv, Shape, PurposeFits, vars, NoRequest
<1>8. \A d \in Calls : (step[d] \in Pending => PurposeFits(d))'
  BY <1>1, <1>4, <1>7 DEF FileInv, PurposeFits, vars
<1>9. \A d \in Calls : TempIsOwn(d)'
  BY <1>1, <1>4, <1>5 DEF FileInv, TempIsOwn, vars
<1>10. QED
  BY <1>1, <1>3, <1>6, <1>8, <1>9 DEF FileInv

\* Taking the lock changes nothing of the authority: nobody else was inside.
LEMMA LockSteps ==
    ASSUME FileInv, NEW c \in Calls, Lock(c)
    PROVE  UNCHANGED vars /\ FileInv'
<1>1. UNCHANGED vars /\ UNCHANGED <<op, memory, temp>>
  BY DEF Lock
<1>2. /\ step[c] = "waiting"
      /\ step' = [step EXCEPT ![c] = "locked"]
      /\ lock = NoOne /\ lock' = c
  BY DEF Lock, Move
<1>3. Shape'
  BY <1>1, <1>2 DEF FileInv, Shape, Steps, Inside, vars
<1>4. \A d \in Calls \ {c} : step'[d] = step[d]
  BY <1>2 DEF FileInv, Shape
<1>5. step'[c] = "locked"
  BY <1>2 DEF FileInv, Shape
<1>6. CopyIsCurrent'
  BY <1>1, <1>2, <1>4, <1>5, FileConstants DEF FileInv, CopyIsCurrent, vars
<1>7. PurposeFits(c)'
  BY <1>1, <1>2, <1>5 DEF FileInv, PurposeFits, Pending, vars
<1>8. \A d \in Calls : (step[d] \in Pending => PurposeFits(d))'
  BY <1>1, <1>4, <1>7 DEF FileInv, PurposeFits, vars
<1>9. \A d \in Calls : TempIsOwn(d)'
  BY <1>1, <1>4, <1>5 DEF FileInv, TempIsOwn, vars
<1>10. QED
  BY <1>1, <1>3, <1>6, <1>8, <1>9 DEF FileInv

\* Reading changes nothing of the authority: the copy is what the file holds.
LEMMA ReadSteps ==
    ASSUME FileInv, NEW c \in Calls, Read(c)
    PROVE  UNCHANGED vars /\ FileInv'
<1> DEFINE to == IF op[c].name = "reserve" THEN "scanning" ELSE "ready"
<1>1. UNCHANGED vars /\ UNCHANGED <<lock, op, temp>>
  BY DEF Read
<1>2. /\ step[c] = "locked"
      /\ step' = [step EXCEPT ![c] = to]
      /\ memory' = [memory EXCEPT ![c] = file]
  BY DEF Read, Move
<1>3. Shape'
  BY <1>1, <1>2 DEF FileInv, Shape, Steps, Inside, vars
<1>4. \A d \in Calls \ {c} : step'[d] = step[d] /\ memory'[d] = memory[d]
  BY <1>2 DEF FileInv, Shape
<1>5. step'[c] = to /\ memory'[c] = file
  BY <1>2 DEF FileInv, Shape
<1>6. CopyIsCurrent'
  BY <1>1, <1>2, <1>4, <1>5 DEF FileInv, CopyIsCurrent, Inside, vars
<1>7. PurposeFits(c)'
  BY <1>1, <1>2, <1>5 DEF FileInv, PurposeFits, Pending, vars
<1>8. \A d \in Calls : (step[d] \in Pending => PurposeFits(d))'
  BY <1>1, <1>4, <1>7 DEF FileInv, PurposeFits, vars
<1>9. \A d \in Calls : TempIsOwn(d)'
  BY <1>1, <1>4, <1>5 DEF FileInv, TempIsOwn, vars
<1>10. QED
  BY <1>1, <1>3, <1>6, <1>8, <1>9 DEF FileInv

\* The scan is the authority's: nobody depends on what the caller found before.
LEMMA ScanSteps ==
    ASSUME FileInv, NEW c \in Calls, Scan(c)
    PROVE  Next /\ FileInv'
<1> DEFINE req == op[c].req
<1>1. /\ ScanLegacy(c, req)
      /\ UNCHANGED <<lock, op, memory, temp>>
      /\ step[c] = "scanning"
      /\ step' = [step EXCEPT ![c] = "ready"]
  BY DEF Scan, Move
<1>2. op[c].name = "reserve" /\ req \in Requests
  BY <1>1 DEF FileInv, PurposeFits, Pending
<1>3. Next
  BY <1>1, <1>2 DEF Next, CallerStep
<1>4. /\ phase' = [phase EXCEPT ![c] = "scanned"]
      /\ request' = [request EXCEPT ![c] = req]
      /\ \E x : seen' = [seen EXCEPT ![c] = x]
      /\ UNCHANGED file
  BY <1>1 DEF ScanLegacy
<1>5. Shape'
  BY <1>1, <1>4 DEF FileInv, Shape, Steps, Inside
<1>6. /\ \A d \in Calls \ {c} : /\ step'[d] = step[d] /\ phase'[d] = phase[d]
                                /\ request'[d] = request[d]
      /\ step'[c] = "ready" /\ phase'[c] = "scanned" /\ request'[c] = req
  BY <1>1, <1>4 DEF FileInv, Shape
<1>7. CopyIsCurrent'
  BY <1>1, <1>4, <1>6 DEF FileInv, CopyIsCurrent, Inside
<1>8. \A d \in Calls : (step[d] \in Pending => PurposeFits(d))'
  <2>1. PurposeFits(c)'
    BY <1>1, <1>2, <1>6 DEF PurposeFits
  <2>2. QED
    BY <1>1, <1>6, <2>1 DEF FileInv, PurposeFits
<1>9. \A d \in Calls : TempIsOwn(d)'
  <2>1. \A d \in Calls : step'[d] # "written"
    BY <1>1, <1>6 DEF FileInv, CopyIsCurrent, Inside
  <2>2. QED
    BY <2>1 DEF TempIsOwn
<1>10. QED
  BY <1>3, <1>5, <1>7, <1>8, <1>9 DEF FileInv

\* Writing the temporary file changes nothing of the authority.
LEMMA WriteTempSteps ==
    ASSUME FileInv, NEW c \in Calls, WriteTemp(c)
    PROVE  UNCHANGED vars /\ FileInv'
<1>1. UNCHANGED vars /\ UNCHANGED <<lock, op, memory>>
  BY DEF WriteTemp
<1>2. PICK outcome \in Outcomes(c, memory[c], seen[c], op[c]) :
          temp' = [temp EXCEPT ![Pid[c]] = outcome]
  BY DEF WriteTemp
<1>3. step[c] = "ready" /\ step' = [step EXCEPT ![c] = "written"]
  BY DEF WriteTemp, Move
<1>4. Shape'
  BY <1>1, <1>2, <1>3 DEF FileInv, Shape, Steps, Inside, vars
<1>5. \A d \in Calls \ {c} : step'[d] = step[d]
  BY <1>3 DEF FileInv, Shape
<1>6. step'[c] = "written" /\ temp'[Pid[c]] = outcome
  BY <1>2, <1>3 DEF FileInv, Shape, Processes
<1>7. CopyIsCurrent'
  BY <1>1, <1>3, <1>5, <1>6 DEF FileInv, CopyIsCurrent, Inside, vars
<1>8. \A d \in Calls : (step[d] \in Pending => PurposeFits(d))'
  <2>1. PurposeFits(c)'
    BY <1>1, <1>3, <1>6 DEF FileInv, PurposeFits, Pending, vars
  <2>2. QED
    BY <1>1, <1>5, <2>1 DEF FileInv, PurposeFits, vars
<1>9. \A d \in Calls : TempIsOwn(d)'
  <2>1. \A d \in Calls \ {c} : step'[d] # "written"
    BY <1>3, <1>5 DEF FileInv, CopyIsCurrent, Inside
  <2>2. TempIsOwn(c)'
    BY <1>1, <1>2, <1>6 DEF TempIsOwn, vars
  <2>3. QED
    BY <2>1, <2>2 DEF TempIsOwn
<1>10. QED
  BY <1>1, <1>4, <1>7, <1>8, <1>9 DEF FileInv

\* The rename: what the temporary file holds was computed from the content
\* that the rename replaces.
LEMMA ReplaceIsNext ==
    ASSUME FileInv, NEW c \in Calls, Replace(c)
    PROVE  Next
<1> DEFINE new == temp[Pid[c]]
           s == memory[c]
           req == op[c].req
           cost == op[c].cost
<1>1. step[c] = "written" /\ s = file
  BY DEF Replace, Move, FileInv, CopyIsCurrent
<1>2. new \in Outcomes(c, s, seen[c], op[c]) /\ PurposeFits(c)
  BY <1>1 DEF FileInv, TempIsOwn, Pending
<1>3. /\ file' = new.state
      /\ phase' = [phase EXCEPT ![c] = new.result]
      /\ UNCHANGED <<legacy, seen, request>>
  BY DEF Replace
<1>4. CASE op[c].name = "reserve"
  <2>1. phase[c] = "scanned" /\ request[c] = req
    BY <1>1, <1>2, <1>4 DEF PurposeFits
  <2>2. new = [state |-> AfterReserve(s, seen[c], c, req),
               result |-> IF Granted(s, seen[c], req) THEN "held" ELSE "blocked"]
    BY <1>2, <1>4 DEF Outcomes
  <2>3. new.result \notin {"settled", "unreported"}
    BY <2>2
  <2>4. UNCHANGED charged
    BY <2>3 DEF Replace
  <2>5. file' = AfterReserve(file, seen[c], c, request[c])
    BY <1>1, <1>3, <2>1, <2>2
  <2>6. CASE Granted(file, seen[c], request[c])
    <3>1. new.result = "held"
      BY <1>1, <2>1, <2>2, <2>6
    <3>2. Inherit(Opened(file, seen[c], request[c]))
      BY <1>1, <1>4, <2>1, <2>3, <3>1 DEF Replace, Inherit
    <3>3. Reserve(c)
      BY <1>3, <2>1, <2>4, <2>5, <2>6, <3>1, <3>2 DEF Reserve
    <3>4. QED
      BY <3>3 DEF Next, CallerStep
  <2>7. CASE ~Granted(file, seen[c], request[c])
    <3>1. new.result = "blocked"
      BY <1>1, <2>1, <2>2, <2>7
    <3>2. Inherit(file')
      BY <1>1, <1>3, <1>4, <2>1, <2>3, <3>1 DEF Replace, Inherit
    <3>3. ReserveBlocked(c)
      BY <1>3, <2>1, <2>4, <2>5, <2>7, <3>1, <3>2 DEF ReserveBlocked
    <3>4. QED
      BY <3>3 DEF Next, CallerStep
  <2>8. QED
    BY <2>6, <2>7
<1>5. CASE op[c].name = "settle"
  <2>1. phase[c] = "held" /\ req = request[c] /\ cost \in Costs
    BY <1>2, <1>5 DEF PurposeFits
  <2>2. UNCHANGED inherited
    BY <1>5 DEF Replace
  <2>3. CASE SettleRaises(file, cost)
    <3>1. new = [state |-> AfterSettle(file, c, request[c], cost), result |-> "refused"]
      BY <1>1, <1>2, <1>5, <2>1, <2>3 DEF Outcomes
    <3>2. UNCHANGED <<charged, overrun>>
      BY <1>5, <3>1 DEF Replace
    <3>3. SettleRefused(c, cost)
      BY <1>3, <2>1, <2>2, <2>3, <3>1, <3>2 DEF SettleRefused
    <3>4. QED
      BY <2>1, <3>3 DEF Next, CallerStep
  <2>4. CASE ~SettleRaises(file, cost)
    <3>1. \/ new = [state |-> AfterSettle(file, c, request[c], cost), result |-> "settled"]
          \/ /\ new = [state |-> Charged(file, c, cost), result |-> "unreported"]
             /\ cost > request[c].reserved \/ Violation(file, request[c], cost)
      BY <1>1, <1>2, <1>5, <2>1, <2>4 DEF Outcomes
    <3>2. /\ charged' = With(charged, c, cost)
          /\ overrun' = IF cost > request[c].reserved
                        THEN overrun + (cost - request[c].reserved) ELSE overrun
      BY <1>5, <2>1, <3>1 DEF Replace
    <3>3. CASE new = [state |-> AfterSettle(file, c, request[c], cost), result |-> "settled"]
      <4>1. /\ file' = AfterSettle(file, c, request[c], cost)
            /\ phase' = [phase EXCEPT ![c] = "settled"]
        BY <1>3, <3>3
      <4>2. Settle(c, cost)
        BY <1>3, <2>1, <2>2, <2>4, <3>2, <4>1 DEF Settle
      <4>3. QED
        BY <2>1, <4>2 DEF Next, CallerStep
    <3>4. CASE /\ new = [state |-> Charged(file, c, cost), result |-> "unreported"]
               /\ cost > request[c].reserved \/ Violation(file, request[c], cost)
      <4>1. /\ file' = Charged(file, c, cost)
            /\ phase' = [phase EXCEPT ![c] = "unreported"]
        BY <1>3, <3>4
      <4>2. SettleUnreported(c, cost)
        BY <1>3, <2>1, <2>2, <2>4, <3>2, <3>4, <4>1 DEF SettleUnreported
      <4>3. QED
        BY <2>1, <4>2 DEF Next, CallerStep
    <3>5. QED
      BY <3>1, <3>3, <3>4
  <2>5. QED
    BY <2>3, <2>4
<1>6. CASE op[c].name = "release"
  <2>1. new = [state |-> AfterRelease(file, c), result |-> "released"]
    BY <1>1, <1>2, <1>6 DEF Outcomes
  <2>2. UNCHANGED <<charged, inherited, overrun>>
    BY <1>6, <2>1 DEF Replace
  <2>3. Release(c)
    BY <1>2, <1>3, <1>6, <2>1, <2>2 DEF Release, PurposeFits
  <2>4. QED
    BY <2>3 DEF Next, CallerStep
<1>7. QED
  BY <1>2, <1>4, <1>5, <1>6 DEF PurposeFits

\* After the rename nobody inside has a copy that could be stale.
LEMMA ReplaceKeepsInv ==
    ASSUME FileInv, NEW c \in Calls, Replace(c)
    PROVE  FileInv'
<1>1. /\ step[c] = "written" /\ step' = [step EXCEPT ![c] = "replaced"]
      /\ \E x : phase' = [phase EXCEPT ![c] = x]
      /\ \E x : temp' = [temp EXCEPT ![Pid[c]] = x]
      /\ UNCHANGED <<legacy, seen, request, lock, op, memory>>
  BY DEF Replace, Move
<1>2. Shape'
  BY <1>1 DEF FileInv, Shape, Steps, Inside
<1>3. /\ \A d \in Calls \ {c} : step'[d] = step[d] /\ phase'[d] = phase[d]
      /\ step'[c] = "replaced"
  BY <1>1 DEF FileInv, Shape
<1>4. \A d \in Calls \ {c} : step'[d] \notin Inside
  BY <1>1, <1>3 DEF FileInv, CopyIsCurrent, Inside
<1>5. CopyIsCurrent'
  BY <1>1, <1>3, <1>4 DEF FileInv, CopyIsCurrent, Inside
<1>6. \A d \in Calls : (step[d] \in Pending => PurposeFits(d))'
  BY <1>1, <1>3 DEF FileInv, PurposeFits, Pending
<1>7. \A d \in Calls : TempIsOwn(d)'
  BY <1>3, <1>4 DEF TempIsOwn, Inside
<1>8. QED
  BY <1>2, <1>5, <1>6, <1>7 DEF FileInv

\* Unlocking changes nothing of the authority: nobody is inside any more.
LEMMA UnlockSteps ==
    ASSUME FileInv, NEW c \in Calls, Unlock(c)
    PROVE  UNCHANGED vars /\ FileInv'
<1>1. /\ UNCHANGED vars /\ UNCHANGED temp
      /\ step[c] = "replaced" /\ step' = [step EXCEPT ![c] = "out"]
      /\ lock' = NoOne
      /\ op' = [d \in Calls |-> IF d \in {c} THEN NoOp ELSE op[d]]
      /\ memory' = [d \in Calls |-> IF d \in {c} THEN Empty ELSE memory[d]]
  BY DEF Unlock, Move, Forget
<1>2. Shape'
  BY <1>1 DEF FileInv, Shape, Steps, vars
<1>3. /\ \A d \in Calls \ {c} : /\ step'[d] = step[d] /\ op'[d] = op[d]
                                /\ memory'[d] = memory[d]
      /\ step'[c] = "out"
  BY <1>1 DEF FileInv, Shape
<1>4. \A d \in Calls : step'[d] \notin Inside
  BY <1>1, <1>3 DEF FileInv, CopyIsCurrent, Inside
<1>5. CopyIsCurrent'
  BY <1>4 DEF CopyIsCurrent, Inside
<1>6. \A d \in Calls : (step[d] \in Pending => PurposeFits(d))'
  BY <1>1, <1>3 DEF FileInv, PurposeFits, Pending, vars
<1>7. \A d \in Calls : TempIsOwn(d)'
  BY <1>4 DEF TempIsOwn, Inside
<1>8. QED
  BY <1>1, <1>2, <1>5, <1>6, <1>7 DEF FileInv

\* A call that raises is a failed call of the authority, or a release that did nothing.
LEMMA FailsSteps ==
    ASSUME FileInv, NEW c \in Calls, Fails(c)
    PROVE  [Next]_vars /\ FileInv'
<1>1. /\ step[c] \in {"locked", "scanning", "ready", "written"}
      /\ step' = [step EXCEPT ![c] = "out"]
      /\ lock' = NoOne
      /\ op' = [d \in Calls |-> IF d \in {c} THEN NoOp ELSE op[d]]
      /\ memory' = [d \in Calls |-> IF d \in {c} THEN Empty ELSE memory[d]]
      /\ UNCHANGED temp
  BY DEF Fails, Forget
<1>2. ReserveFails(c) \/ SettleFails(c) \/ UNCHANGED vars
  <2>1. op[c].name \in {"reserve", "settle", "release"}
    BY <1>1 DEF FileInv, PurposeFits, Pending
  <2>2. QED
    BY <2>1 DEF Fails
<1>3. [Next]_vars
  BY <1>2 DEF Next, CallerStep
<1>4. /\ \E x : phase' = [phase EXCEPT ![c] = x] \/ phase' = phase
      /\ UNCHANGED <<file, seen, request>>
  BY <1>2 DEF ReserveFails, SettleFails, vars
<1>5. Shape'
  BY <1>1, <1>4 DEF FileInv, Shape, Steps
<1>6. /\ \A d \in Calls \ {c} : /\ step'[d] = step[d] /\ op'[d] = op[d]
                                /\ memory'[d] = memory[d] /\ phase'[d] = phase[d]
      /\ step'[c] = "out"
  BY <1>1, <1>4 DEF FileInv, Shape
<1>7. \A d \in Calls : step'[d] \notin Inside
  BY <1>1, <1>6 DEF FileInv, CopyIsCurrent, Inside
<1>8. CopyIsCurrent'
  BY <1>7 DEF CopyIsCurrent, Inside
<1>9. \A d \in Calls : (step[d] \in Pending => PurposeFits(d))'
  BY <1>4, <1>6 DEF FileInv, PurposeFits, Pending
<1>10. \A d \in Calls : TempIsOwn(d)'
  BY <1>7 DEF TempIsOwn, Inside
<1>11. QED
  BY <1>3, <1>5, <1>8, <1>9, <1>10 DEF FileInv

\* A crash changes nothing of the authority.
LEMMA CrashSteps ==
    ASSUME FileInv, NEW p \in Processes, Crash(p)
    PROVE  UNCHANGED vars /\ FileInv'
<1> DEFINE dying == {c \in Calls : Pid[c] = p}
<1>1. /\ UNCHANGED vars /\ UNCHANGED temp
      /\ step' = [c \in Calls |-> IF c \in dying THEN "dead" ELSE step[c]]
      /\ lock' = IF lock \in dying THEN NoOne ELSE lock
      /\ op' = [c \in Calls |-> IF c \in dying THEN NoOp ELSE op[c]]
      /\ memory' = [c \in Calls |-> IF c \in dying THEN Empty ELSE memory[c]]
  BY DEF Crash, Forget
<1> HIDE DEF dying
<1>2. Shape'
  BY <1>1 DEF FileInv, Shape, Steps, vars
<1>3. /\ \A d \in Calls \ dying : /\ step'[d] = step[d] /\ op'[d] = op[d]
                                  /\ memory'[d] = memory[d]
      /\ \A d \in Calls : d \in dying => step'[d] = "dead"
  BY <1>1 DEF FileInv, Shape
<1>4. CopyIsCurrent'
  BY <1>1, <1>3 DEF FileInv, CopyIsCurrent, Inside, vars
<1>5. \A d \in Calls : (step[d] \in Pending => PurposeFits(d))'
  BY <1>1, <1>3 DEF FileInv, PurposeFits, Pending, vars
<1>6. \A d \in Calls : TempIsOwn(d)'
  BY <1>1, <1>3 DEF FileInv, TempIsOwn, vars
<1>7. QED
  BY <1>1, <1>2, <1>4, <1>5, <1>6 DEF FileInv

\* An earlier release rewriting its file is the authority's own step.
LEMMA LegacyChangesSteps ==
    ASSUME FileInv, NEW d \in LegacyDirs, LegacyChanges(d), UNCHANGED fileVars
    PROVE  Next /\ FileInv'
<1>1. Next
  BY DEF Next
<1>2. UNCHANGED <<file, phase, seen, request>> /\ UNCHANGED <<lock, step, op, memory, temp>>
  BY DEF LegacyChanges, fileVars
<1>3. QED
  BY <1>1, <1>2 DEF FileInv, Shape, CopyIsCurrent, PurposeFits, TempIsOwn

-----------------------------------------------------------------------------
(* The theorems *)

\* Everybody starts outside.
LEMMA FileInitInv == FileInit => FileInv
<1> SUFFICES ASSUME FileInit PROVE FileInv
  OBVIOUS
<1>1. Shape
  BY DEF FileInit, Init, Shape, Steps
<1>2. \A c \in Calls : step[c] = "out"
  BY DEF FileInit
<1>3. QED
  BY <1>1, <1>2 DEF FileInv, CopyIsCurrent, Inside, Pending, TempIsOwn

\* Every step is a step of the authority or changes nothing of it.
LEMMA FileStep == FileInv /\ [FileNext]_allVars => [Next]_vars /\ FileInv'
<1> SUFFICES ASSUME FileInv, [FileNext]_allVars PROVE [Next]_vars /\ FileInv'
  OBVIOUS
<1>1. CASE UNCHANGED allVars
  <2>1. UNCHANGED <<file, legacy, phase, seen, request, charged, inherited, overrun>>
        /\ UNCHANGED <<lock, step, op, memory, temp>>
    BY <1>1 DEF allVars, vars, fileVars
  <2>2. QED
    BY <2>1 DEF vars, FileInv, Shape, CopyIsCurrent, PurposeFits, TempIsOwn
<1>2. CASE \E c \in Calls : Enter(c) \/ Lock(c) \/ Holder(c)
  BY <1>2, EnterSteps, LockSteps, ReadSteps, ScanSteps, WriteTempSteps, ReplaceIsNext,
     ReplaceKeepsInv, UnlockSteps, FailsSteps DEF Holder
<1>3. CASE \E p \in Processes : Crash(p)
  BY <1>3, CrashSteps
<1>4. CASE \E d \in LegacyDirs : LegacyChanges(d) /\ UNCHANGED fileVars
  BY <1>4, LegacyChangesSteps
<1>5. QED
  BY <1>1, <1>2, <1>3, <1>4 DEF FileNext

\* Whoever is inside holds the lock and works on what the file holds
\* (budget.py 281-292).
THEOREM CopyCurrent == FileSpec => []CopyIsCurrent
<1>1. FileInv => CopyIsCurrent
  BY DEF FileInv
<1>2. QED
  BY <1>1, FileInitInv, FileStep, PTL DEF FileSpec

\* With failures and crashes between any two steps of _locked_state, every
\* entry point is one step of the authority.
THEOREM FileImplementsAuthority == FileSpec => ImplementsAuthority
<1>1. FileInit => Init
  BY DEF FileInit
<1>2. QED
  BY <1>1, FileInitInv, FileStep, PTL DEF FileSpec, ImplementsAuthority, Spec

\* So the file is that of a spending cap, whatever fails or dies on the way.
THEOREM FileIsCap == FileSpec => ImplementsCap
BY FileImplementsAuthority, AuthorityImplementsCap, PTL DEF ImplementsAuthority
=============================================================================
