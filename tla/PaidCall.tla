------------------------------ MODULE PaidCall ------------------------------
(***************************************************************************)
(* The attempt loop of run_llm_task (router.py 6350-6953): one process per *)
(* task tries its choices in order, each behind the single-call gate, the  *)
(* workflow reservation, the provider call and the settlement, and ends    *)
(* with an answer or an exception.                                         *)
(*                                                                         *)
(* The reservation of attempt i of task t is the call <<t, i>> of          *)
(* BudgetAuthority, and every step here is one of its steps or leaves its  *)
(* variables alone.  The locals "reservation" and "reservation_finalized"  *)
(* are read off phase: it is "held" once reserve has returned, and         *)
(* "settled" once finalize has.  A process that dies stops where it is.    *)
(***************************************************************************)
EXTENDS BudgetAuthority, Sequences

CONSTANTS
    Tasks,      \* the concurrent runs of run_llm_task
    Plan,       \* the arguments and the routes of each
    Unpriced    \* the projected cost of a route without a known price

Choice == [kind: {"free", "paid"}, projected: Amount \cup {Unpriced}]

\* "budget" is "workflow" when a workflow id is given; max_cost_usd is always
\* given for paid routes, and output is "json" for governed structured output.
IsPlan(p) ==
    /\ p.budget \in {"workflow", "single"}
    /\ p.output \in {"json", "text"}
    /\ p.max \in 1..FloatMax
    /\ p.callMax \in Amount
    /\ p.choices \in Seq(Choice) /\ p.choices # <<>>

ReqOf(t, i) == [max |-> Plan[t].max, callMax |-> Plan[t].callMax,
                reserved |-> Plan[t].choices[i].projected]

\* Provider usage is a pair of token counts, so a cost is always a number.
Usage == Costs \cap Amount

ASSUME PaidCallConstants ==
    /\ \A t \in Tasks : IsPlan(Plan[t])
    /\ Calls = UNION {{t} \X DOMAIN Plan[t].choices : t \in Tasks}
    /\ \A t \in Tasks : \A i \in DOMAIN Plan[t].choices :
          Plan[t].choices[i].projected # Unpriced =>
             ReqOf(t, i) \in Requests /\ Plan[t].choices[i].projected \in Costs
    /\ Unpriced \notin Amount
    /\ 0 \in Usage

VARIABLES
    pc,        \* where each task is
    at,        \* which choice it is trying
    reply,     \* what each attempt came to, and the cost it has to settle
    troubled   \* history: attempts for which a local file operation or a
               \* settlement raised

taskVars == <<pc, at, reply, troubled>>
paidVars == <<vars, taskVars>>

Ended == {"returned", "raised", "crashed"}
Label == {"gate", "scan", "reserve", "send", "flight", "settle", "conclude", "stop",
          "unwind", "failure", "inconclusive"} \cup Ended
Kind  == {"none", "blocked", "answer", "invalid", "inconclusive", "error", "overrun"}

Call(t)   == <<t, at[t]>>
Try(t)    == Plan[t].choices[at[t]]
Paid(t)   == Try(t).kind = "paid"

\* A workflow reservation is taken for paid routes only (router.py 6433).
Reserves(t) == Plan[t].budget = "workflow" /\ Paid(t)

Unfinalized(t) == phase[Call(t)] \in {"held", "refused", "unreported"}

PaidInit ==
    /\ Init
    /\ pc = [t \in Tasks |-> "gate"]
    /\ at = [t \in Tasks |-> 1]
    /\ reply = [c \in Calls |-> [kind |-> "none", cost |-> 0]]
    /\ troubled = {}

-----------------------------------------------------------------------------
(* Control *)

Goto(t, label) == pc' = [pc EXCEPT ![t] = label]
Become(t, kind, cost) == reply' = [reply EXCEPT ![Call(t)] = [kind |-> kind, cost |-> cost]]
Trouble(t) == troubled' = troubled \cup {Call(t)}

\* Mutant of NextChoice: one choice too many.
NextChoicePastEnd(t) ==
    IF at[t] <= Len(Plan[t].choices)
    THEN Goto(t, "gate") /\ at' = [at EXCEPT ![t] = @ + 1]
    ELSE Goto(t, "raised") /\ UNCHANGED at

\* Mutant of NextChoice: after the last choice comes the first one again.
NextChoiceAround(t) ==
    /\ Goto(t, "gate")
    /\ at' = [at EXCEPT ![t] = IF @ < Len(Plan[t].choices) THEN @ + 1 ELSE 1]

\* The end of an iteration: the next choice, or "all model calls failed".
NextChoice(t) ==
    IF at[t] < Len(Plan[t].choices)
    THEN Goto(t, "gate") /\ at' = [at EXCEPT ![t] = @ + 1]
    ELSE Goto(t, "raised") /\ UNCHANGED at

\* The generic handler records the failure and continues; a failing record
\* leaves the loop with the exception.
Onward(t) == NextChoice(t) \/ (Goto(t, "raised") /\ UNCHANGED at)

-----------------------------------------------------------------------------
(* One attempt *)

\* _budget_status; a rejected route is skipped, after an incident is written.
Gate(t) ==
    /\ pc[t] = "gate"
    /\ IF Paid(t) /\ (Try(t).projected = Unpriced \/ Try(t).projected > Plan[t].callMax)
       THEN Onward(t)
       ELSE Goto(t, IF Reserves(t) THEN "scan" ELSE "send") /\ UNCHANGED at
    /\ UNCHANGED <<vars, reply, troubled>>

Scan(t) ==
    /\ pc[t] = "scan"
    /\ ScanLegacy(Call(t), ReqOf(t, at[t]))
    /\ Goto(t, "reserve")
    /\ UNCHANGED <<at, reply, troubled>>

\* A refusal ends the task, unless its incident cannot be written: that, like
\* any other file error, only costs the task this choice.
Acquire(t) ==
    /\ pc[t] = "reserve"
    /\ \/ Reserve(Call(t)) /\ Goto(t, "send") /\ UNCHANGED <<at, reply, troubled>>
       \/ /\ ReserveBlocked(Call(t)) /\ Become(t, "blocked", 0)
          /\ \/ Goto(t, "raised") /\ UNCHANGED <<at, troubled>>
             \/ Onward(t) /\ Trouble(t)
       \/ ReserveFails(Call(t)) /\ Onward(t) /\ Trouble(t) /\ UNCHANGED reply

Send(t) ==
    /\ pc[t] = "send"
    /\ Goto(t, "flight")
    /\ UNCHANGED <<vars, at, reply, troubled>>

\* The outcomes of _call_openai_compatible.  "error" stands for a timeout, an
\* HTTP error, a rejected request, a substituted model or unusable usage.
Receive(t) ==
    /\ pc[t] = "flight"
    /\ \E cost \in Usage :
          /\ ~Paid(t) => cost = 0
          /\ \/ Become(t, "answer", cost) /\ Goto(t, "settle")
             \/ Plan[t].output = "json" /\ Become(t, "invalid", cost) /\ Goto(t, "settle")
             \/ Become(t, "inconclusive", cost) /\ Goto(t, "inconclusive")
             \/ /\ Paid(t)      \* no usage: the reserved worst case is settled
                /\ Become(t, "inconclusive", Try(t).projected) /\ Goto(t, "inconclusive")
             \/ cost = 0 /\ Become(t, "error", 0) /\ Goto(t, "failure")
    /\ UNCHANGED <<vars, at, troubled>>

\* finalize_workflow_reservation for an answer (router.py 6480-6490).
SettleAnswer(t) ==
    LET cost == reply[Call(t)].cost
    IN  /\ pc[t] = "settle" /\ Reserves(t)
        /\ UNCHANGED at
        /\ \/ /\ Settle(Call(t), cost)
              /\ IF Violation(file, request[Call(t)], cost)
                 THEN Become(t, "overrun", cost) /\ Goto(t, "stop")
                 ELSE UNCHANGED reply /\ Goto(t, "conclude")
              /\ UNCHANGED troubled
           \/ SettleRefused(Call(t), cost) /\ Goto(t, "unwind") /\ Trouble(t) /\ UNCHANGED reply
           \/ /\ SettleUnreported(Call(t), cost) \/ SettleFails(Call(t))
              /\ Goto(t, "failure") /\ Trouble(t) /\ UNCHANGED reply

\* Mutant of CheckAnswer: the cost is only looked at when there is a reservation.
CheckAnswerNever(t) ==
    /\ pc[t] = "settle" /\ ~Reserves(t)
    /\ Goto(t, "conclude")
    /\ UNCHANGED <<vars, at, reply, troubled>>

\* Without a reservation only the single-call limit is checked (6491-6506).
CheckAnswer(t) ==
    LET cost == reply[Call(t)].cost
    IN  /\ pc[t] = "settle" /\ ~Reserves(t)
        /\ IF cost > Plan[t].callMax
           THEN Become(t, "overrun", cost) /\ Goto(t, "stop")
           ELSE UNCHANGED reply /\ Goto(t, "conclude")
        /\ UNCHANGED <<vars, at, troubled>>

\* Mutant of Conclude: invalid governed output falls back to the next choice.
ConcludeOrRetry(t) ==
    /\ pc[t] \in {"conclude", "stop"}
    /\ IF pc[t] = "conclude" /\ reply[Call(t)].kind = "answer"
       THEN Goto(t, "returned") /\ UNCHANGED at ELSE Onward(t)
    /\ UNCHANGED <<vars, reply, troubled>>

\* An incident, or invalid governed output, ends the task; an answer is
\* returned.  Each is recorded first, in the ledger, the route health and the cache.
Conclude(t) ==
    /\ pc[t] \in {"conclude", "stop"}
    /\ Goto(t, IF pc[t] = "conclude" /\ reply[Call(t)].kind = "answer"
               THEN "returned" ELSE "raised")
    /\ UNCHANGED <<vars, at, reply, troubled>>

\* A record that cannot be written lands in the generic handler.
RecordFails(t) ==
    /\ pc[t] \in {"conclude", "stop"}
    /\ Goto(t, "failure") /\ Trouble(t)
    /\ UNCHANGED <<vars, at, reply>>

\* The handler of BudgetLimitExceeded releases what finalize kept (6676-6678).
Unwind(t) ==
    /\ pc[t] = "unwind"
    /\ Release(Call(t)) \/ UNCHANGED vars
    /\ Goto(t, "raised")
    /\ UNCHANGED <<at, reply, troubled>>

\* Mutant of HandleFailure: the open reservation is forgotten.
HandleFailureKeeping(t) ==
    pc[t] = "failure" /\ Onward(t) /\ UNCHANGED <<vars, reply, troubled>>

\* Mutant of HandleFailure: the cost is settled although it may have been before.
HandleFailureSettling(t) ==
    /\ pc[t] = "failure"
    /\ file' = Charged(file, Call(t), reply[Call(t)].cost)
    /\ Onward(t)
    /\ UNCHANGED <<legacy, phase, seen, request, charged, inherited, overrun>>
    /\ UNCHANGED <<reply, troubled>>

\* The generic handler, for anything but inconclusive output: an open
\* reservation is released (6732-6733).
HandleFailure(t) ==
    /\ pc[t] = "failure"
    /\ \/ /\ Unfinalized(t)
          /\ \/ Release(Call(t)) /\ Onward(t) /\ UNCHANGED troubled
             \/ phase[Call(t)] = "unreported" /\ UNCHANGED vars /\ Onward(t) /\ UNCHANGED troubled
             \/ UNCHANGED <<vars, at>> /\ Goto(t, "raised") /\ Trouble(t)   \* release raises
       \/ ~Unfinalized(t) /\ Onward(t) /\ UNCHANGED <<vars, troubled>>
    /\ UNCHANGED reply

\* Mutant of HandleInconclusive: inconclusive output is treated as free of charge.
HandleInconclusiveFree(t) ==
    /\ pc[t] = "inconclusive"
    /\ IF Reserves(t) THEN Release(Call(t)) ELSE UNCHANGED vars
    /\ Goto(t, "raised")
    /\ UNCHANGED <<at, reply, troubled>>

\* The same handler for inconclusive output: the usage, or the reserved worst
\* case, is settled (6720-6731), and governed output is not tried elsewhere.
HandleInconclusive(t) ==
    LET cost == reply[Call(t)].cost
        overran == IF Reserves(t) THEN Violation(file, request[Call(t)], cost)
                   ELSE Paid(t) /\ cost > Plan[t].callMax
    IN  /\ pc[t] = "inconclusive"
        /\ \/ /\ IF Reserves(t) THEN Settle(Call(t), cost) ELSE UNCHANGED vars
              /\ IF overran THEN Become(t, "overrun", cost) ELSE UNCHANGED reply
              /\ IF overran \/ Plan[t].output = "json"
                 THEN Goto(t, "raised") /\ UNCHANGED at
                 ELSE Onward(t)
              /\ UNCHANGED troubled
           \/ /\ Reserves(t)
              /\ SettleRefused(Call(t), cost) \/ SettleUnreported(Call(t), cost)
                    \/ SettleFails(Call(t))
              /\ Goto(t, "raised") /\ Trouble(t) /\ UNCHANGED <<at, reply>>

Crash(t) ==
    /\ pc[t] \notin Ended
    /\ Goto(t, "crashed")
    /\ UNCHANGED <<vars, at, reply, troubled>>

TaskStep(t) ==
    \/ Gate(t) \/ Scan(t) \/ Acquire(t) \/ Send(t) \/ Receive(t)
    \/ SettleAnswer(t) \/ CheckAnswer(t) \/ Conclude(t) \/ RecordFails(t)
    \/ Unwind(t) \/ HandleFailure(t) \/ HandleInconclusive(t)

PaidNext ==
    \/ \E t \in Tasks : TaskStep(t) \/ Crash(t)
    \/ \E d \in LegacyDirs : LegacyChanges(d) /\ UNCHANGED taskVars

\* A live task runs on; a provider call ends, since request_timeout bounds it,
\* and the file lock is released by every holder, dead ones included.
PaidFairness == \A t \in Tasks : WF_paidVars(TaskStep(t))

PaidSpec == PaidInit /\ [][PaidNext]_paidVars /\ PaidFairness

-----------------------------------------------------------------------------
(* Properties *)

\* The loop is one way of calling the authority: every step is one of its steps.
ImplementsAuthority == Spec

PaidTypeOK ==
    /\ pc \in [Tasks -> Label]
    /\ at \in [Tasks -> Nat] /\ \A t \in Tasks : at[t] \in DOMAIN Plan[t].choices
    /\ reply \in [Calls -> [kind: Kind, cost: Amount]]
    /\ troubled \subseteq Calls

Billable == {"answer", "invalid", "inconclusive", "overrun"}

\* No paid request of a workflow is on its way without its own reservation in
\* the authority's file, whatever the other tasks write to that file meanwhile.
SentIsReserved ==
    \A t \in Tasks :
        pc[t] \in {"send", "flight", "settle"} /\ Reserves(t) =>
            /\ Call(t) \in DOMAIN file.res
            /\ file.res[Call(t)] = Try(t).projected

\* An answer is handed out only after its exact cost was charged, and only if it
\* was within the single-call limit (router.py 6480-6506, 6671).
AnswersArePaidFor ==
    \A t \in Tasks :
        pc[t] = "returned" /\ Paid(t) =>
            /\ reply[Call(t)].kind = "answer" /\ reply[Call(t)].cost <= Plan[t].callMax
            /\ Reserves(t) => /\ Call(t) \in DOMAIN charged
                              /\ charged[Call(t)] = reply[Call(t)].cost

\* What a provider reported, or the worst case when it reported nothing, is in
\* the workflow's spend or still reserved, unless settling it raised.
OwedIsAccounted ==
    \A t \in Tasks : \A i \in 1..at[t] :
        LET c == <<t, i>>
        IN  /\ Plan[t].budget = "workflow" /\ Plan[t].choices[i].kind = "paid"
            /\ reply[c].kind \in Billable
            => \/ c \in DOMAIN charged /\ charged[c] = reply[c].cost
               \/ c \in DOMAIN file.res
               \/ c \in troubled

\* A task that ended by itself leaves no reservation behind, unless releasing or
\* settling it raised: only then is budget held back from later calls for good.
LeftoversAreExplained ==
    \A t \in Tasks : \A i \in DOMAIN Plan[t].choices :
        pc[t] \in {"returned", "raised"} /\ <<t, i>> \in Liable => <<t, i>> \in troubled

\* A refusal, an overrun and an invalid governed output are final: the task tries
\* no further choice, unless their record could not be written.  Inconclusive
\* governed output is final even then (router.py 6582-6618, 6676-6697, 6768-6860).
FinalVerdicts ==
    \A t \in Tasks : \A i \in 1..(at[t] - 1) :
        LET c == <<t, i>>
        IN  /\ reply[c].kind \in {"blocked", "overrun", "invalid"} => c \in troubled
            /\ ~(reply[c].kind = "inconclusive" /\ Plan[t].output = "json")

\* A reservation that finalize kept as a liability stays in the file
\* (budget.py 494-500).
LiabilityKept ==
    [][\A t \in Tasks : pc[t] = "unwind" => Call(t) \in DOMAIN file'.res]_paidVars

\* Every task ends: with an answer, with an exception, or with its process.
TaskEnds == \A t \in Tasks : <>(pc[t] \in Ended)

\* Every reservation is settled or released in the end, unless its process died
\* or a file operation on it failed.
ReservationResolved ==
    \A t \in Tasks : \A i \in DOMAIN Plan[t].choices :
        phase[<<t, i>>] = "held" ~>
            phase[<<t, i>>] # "held" \/ pc[t] = "crashed" \/ <<t, i>> \in troubled
=============================================================================
