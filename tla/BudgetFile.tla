----------------------------- MODULE BudgetFile -----------------------------
(***************************************************************************)
(* _locked_state (budget.py 275-292) step by step: wait for the lock file, *)
(* read the state, change the copy in memory, write a temporary file,      *)
(* rename it over the state, unlock.  Any step can fail and any process    *)
(* can die between two of them; the system then drops its lock.            *)
(*                                                                         *)
(* file, phase and the histories are those of BudgetAuthority, which this  *)
(* module implements: the rename is where an entry point takes effect.     *)
(***************************************************************************)
EXTENDS BudgetAuthority

CONSTANTS
    Pid,       \* the process each call runs in: its temporary file has that name
    NoOne      \* the lock is free

ASSUME FileConstants == NoOne \notin Calls /\ DOMAIN Pid = Calls

VARIABLES
    lock,      \* who holds the lock file
    step,      \* where each call is in _locked_state
    op,        \* what it was called for
    memory,    \* its copy of the state
    temp       \* the temporary file of each process, and what its content means

fileVars == <<lock, step, op, memory, temp>>
allVars  == <<vars, fileVars>>

Step == {"out", "waiting", "locked", "scanning", "ready", "written", "replaced", "dead"}

Inside == {"locked", "scanning", "ready", "written", "replaced"}

NoOp == [name |-> "none", req |-> NoRequest, cost |-> 0]
NoTemp == [state |-> Empty, result |-> "idle"]
Processes == {Pid[c] : c \in Calls}

FileInit ==
    /\ Init
    /\ lock = NoOne
    /\ step = [c \in Calls |-> "out"]
    /\ op = [c \in Calls |-> NoOp]
    /\ memory = [c \in Calls |-> Empty]
    /\ temp = [p \in Processes |-> NoTemp]

\* The locals of a call go when it returns, raises or dies.
Forget(gone) ==
    /\ op' = [c \in Calls |-> IF c \in gone THEN NoOp ELSE op[c]]
    /\ memory' = [c \in Calls |-> IF c \in gone THEN Empty ELSE memory[c]]

Move(c, from, to) == step[c] = from /\ step' = [step EXCEPT ![c] = to]

-----------------------------------------------------------------------------
(* One call *)

\* Arguments that are not finite are rejected before the lock is taken.
Enter(c) ==
    /\ Move(c, "out", "waiting")
    /\ \/ /\ phase[c] = "idle"
          /\ \E req \in Requests :
                /\ ~RequestInvalid(req)
                /\ op' = [op EXCEPT ![c] = [name |-> "reserve", req |-> req, cost |-> 0]]
       \/ /\ phase[c] = "held"
          /\ \E cost \in Costs :
                /\ IsFinite(cost)
                /\ op' = [op EXCEPT ![c] = [name |-> "settle", req |-> request[c], cost |-> cost]]
       \/ /\ phase[c] \in {"held", "refused"}
          /\ op' = [op EXCEPT ![c] = [name |-> "release", req |-> request[c], cost |-> 0]]
    /\ UNCHANGED <<vars, lock, memory, temp>>

\* Mutant of Lock: nobody waits.
LockAtOnce(c) ==
    /\ Move(c, "waiting", "locked")
    /\ lock' = c
    /\ UNCHANGED <<vars, op, memory, temp>>

\* Mutant of Lock: a lock of the process, as fcntl.lockf takes, instead of the open file.
LockOfProcess(c) ==
    /\ Move(c, "waiting", "locked")
    /\ lock \in {NoOne} \cup {d \in Calls : Pid[d] = Pid[c]}
    /\ lock' = c
    /\ UNCHANGED <<vars, op, memory, temp>>

Lock(c) ==
    /\ Move(c, "waiting", "locked")
    /\ lock = NoOne
    /\ lock' = c
    /\ UNCHANGED <<vars, op, memory, temp>>

Read(c) ==
    /\ Move(c, "locked", IF op[c].name = "reserve" THEN "scanning" ELSE "ready")
    /\ memory' = [memory EXCEPT ![c] = file]
    /\ UNCHANGED <<vars, lock, op, temp>>

Scan(c) ==
    /\ Move(c, "scanning", "ready")
    /\ ScanLegacy(c, op[c].req)
    /\ UNCHANGED <<lock, op, memory, temp>>

\* What the body of the "with" makes of the copy s, and what the caller then is.
Outcomes(c, s, found, for) ==
    LET req == for.req
        cost == for.cost
        To(state, result) == [state |-> state, result |-> result]
    IN  CASE for.name = "reserve" ->
               {To(AfterReserve(s, found, c, req),
                   IF Granted(s, found, req) THEN "held" ELSE "blocked")}
          [] for.name = "settle" /\ SettleRaises(s, cost) ->
               {To(AfterSettle(s, c, req, cost), "refused")}
          [] for.name = "settle" /\ ~SettleRaises(s, cost) ->
               {To(AfterSettle(s, c, req, cost), "settled")} \cup
               (IF cost > req.reserved \/ Violation(s, req, cost)
                THEN {To(Charged(s, c, cost), "unreported")} ELSE {})
          [] for.name = "release" ->
               {To(AfterRelease(s, c), "released")}

WriteTemp(c) ==
    /\ Move(c, "ready", "written")
    /\ \E outcome \in Outcomes(c, memory[c], seen[c], op[c]) :
          temp' = [temp EXCEPT ![Pid[c]] = outcome]
    /\ UNCHANGED <<vars, lock, op, memory>>

\* os.replace: the file is the new state from here on, and the histories of
\* BudgetAuthority are brought up to date with it.
Replace(c) ==
    LET new == temp[Pid[c]]
        opened == Opened(memory[c], seen[c], op[c].req)
        opens == op[c].name = "reserve" /\ ~Established(memory[c])
        charges == new.result \in {"settled", "unreported"}
    IN  /\ Move(c, "written", "replaced")
        /\ file' = new.state
        /\ phase' = [phase EXCEPT ![c] = new.result]
        /\ charged' = IF charges THEN With(charged, c, op[c].cost) ELSE charged
        /\ inherited' = IF opens THEN (IF new.result = "held" THEN opened ELSE new.state).spent
                        ELSE inherited
        /\ overrun' = IF opens THEN Excess(IF new.result = "held" THEN opened ELSE new.state)
                      ELSE IF charges /\ op[c].cost > op[c].req.reserved
                      THEN overrun + (op[c].cost - op[c].req.reserved) ELSE overrun
        /\ temp' = [temp EXCEPT ![Pid[c]] = NoTemp]
        /\ UNCHANGED <<legacy, seen, request, lock, op, memory>>

Unlock(c) ==
    /\ Move(c, "replaced", "out")
    /\ lock' = NoOne
    /\ Forget({c})
    /\ UNCHANGED <<vars, temp>>

\* Reading or writing raises before the rename: the "with" drops the lock.
Fails(c) ==
    /\ step[c] \in {"locked", "scanning", "ready", "written"}
    /\ step' = [step EXCEPT ![c] = "out"]
    /\ lock' = NoOne
    /\ CASE op[c].name = "reserve" -> ReserveFails(c)
         [] op[c].name = "settle"  -> SettleFails(c)
         [] op[c].name = "release" -> UNCHANGED vars
    /\ Forget({c})
    /\ UNCHANGED temp

\* Mutant of Crash: the lock is a file that only its creator removes.
CrashInside(p) ==
    LET dying == {c \in Calls : Pid[c] = p}
    IN  /\ \E c \in dying : step[c] \notin {"out", "dead"}
        /\ step' = [c \in Calls |-> IF c \in dying THEN "dead" ELSE step[c]]
        /\ Forget(dying)
        /\ UNCHANGED <<vars, lock, temp>>

\* A process dies with all its calls; what it had written so far stays.
Crash(p) ==
    LET dying == {c \in Calls : Pid[c] = p}
    IN  /\ \E c \in dying : step[c] \notin {"out", "dead"}
        /\ step' = [c \in Calls |-> IF c \in dying THEN "dead" ELSE step[c]]
        /\ lock' = IF lock \in dying THEN NoOne ELSE lock
        /\ Forget(dying)
        /\ UNCHANGED <<vars, temp>>

Holder(c) == Read(c) \/ Scan(c) \/ WriteTemp(c) \/ Replace(c) \/ Unlock(c) \/ Fails(c)

FileNext ==
    \/ \E c \in Calls : Enter(c) \/ Lock(c) \/ Holder(c)
    \/ \E p \in Processes : Crash(p)
    \/ \E d \in LegacyDirs : LegacyChanges(d) /\ UNCHANGED fileVars

\* Whoever is inside gets on with it: it waits for nobody there.
FileSpec == FileInit /\ [][FileNext]_allVars /\ \A c \in Calls : WF_allVars(Holder(c))

-----------------------------------------------------------------------------
(* Properties *)

\* The lock and the rename make each entry point one step of the authority:
\* no update is lost, and a crash leaves the old state or the new one.
ImplementsAuthority == Spec

\* Whoever is inside holds the lock, so there is one of them, and its copy is
\* what the file holds until it renames its own over it.
CopyIsCurrent ==
    \A c \in Calls :
        /\ step[c] \in Inside => lock = c
        /\ step[c] \in {"scanning", "ready", "written"} => memory[c] = file

\* The lock does not outlive the call, nor its process.
LockIsFreed == \A c \in Calls : lock = c ~> lock # c
=============================================================================
