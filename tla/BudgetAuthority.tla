-------------------------- MODULE BudgetAuthority --------------------------
(***************************************************************************)
(* The authority of one workflow: its state file, the v1 files of earlier  *)
(* releases, and the callers of the three entry points of budget.py.       *)
(*                                                                         *)
(* Each entry point runs under the workflow's file lock, so what it does   *)
(* to the file is one action here; module BudgetFile has the lock, the     *)
(* temporary file and the rename.  The legacy files are read before the    *)
(* rename and are outside that lock, so they are read by an action of      *)
(* their own.                                                              *)
(***************************************************************************)
EXTENDS WorkflowBudget

CONSTANTS
    InitialFiles,  \* contents the authority's file can have at the start
    LegacyDirs,    \* settings.legacy_budget_dirs
    Absent,        \* no legacy file in this directory
    Requests,      \* the argument triples of reserve_workflow_budget
    Costs          \* the settlement amounts

ASSUME AuthorityConstants ==
    /\ InitialFiles \subseteq State
    /\ \A s \in InitialFiles :
          /\ s.source = NoSource
          /\ DOMAIN s.res \subseteq LegacyIds
          /\ ~Established(s) => s = Empty
    /\ Requests \subseteq Request
    /\ Costs \subseteq 0..NonFinite
    /\ Absent \notin LegacyStates \cup {Unreadable}

\* An earlier release stopped a workflow whose spend passed its maximum.
ASSUME EarlierReleaseKeptCap ==
    /\ \A l \in LegacyStates : l.status = "active" => l.spent <= l.max
    /\ \A s \in InitialFiles :
          AuthorityValid(s) /\ s.status = "active" => s.spent <= s.max

VARIABLES
    file,     \* content of the authority's state file; Empty when there is none
    legacy,   \* content of the legacy file of each directory
    phase,    \* how far the caller that drew each reservation id is
    seen,     \* the legacy contents that caller found
    request,  \* the BudgetReservation it holds, or asked for
    charged,  \* history: id -> cost, for the calls that were settled
    inherited,\* history: the spend an initial or imported file brought in
    overrun   \* history: how far settlements and earlier releases went past
              \* what had been reserved

vars == <<file, legacy, phase, seen, request, charged, inherited, overrun>>

Phase == {"idle", "scanned", "held", "blocked", "settled", "unreported", "refused",
          "released"}

\* Reservation ids whose entry the file must still hold.
Liable == {c \in Calls : phase[c] \in {"held", "refused"}}

NoRequest == [max |-> 0, callMax |-> 0, reserved |-> 0]

\* By how much an imported or inherited file is already past its maximum.
Excess(s) == IF AuthorityValid(s) /\ Exposure(s) > s.max THEN Exposure(s) - s.max ELSE 0

Found == {legacy[d] : d \in LegacyDirs} \ {Absent}

Init ==
    /\ file \in InitialFiles
    /\ legacy \in [LegacyDirs -> LegacyStates \cup {Absent, Unreadable}]
    /\ phase = [c \in Calls |-> "idle"]
    /\ seen = [c \in Calls |-> {}]
    /\ request = [c \in Calls |-> NoRequest]
    /\ charged = NoReservation
    /\ inherited = file.spent
    /\ overrun = Excess(file)

-----------------------------------------------------------------------------
(* Callers *)

\* The legacy files are validated and fingerprinted inside reserve, before
\* the outcome is written.
ScanLegacy(c, req) ==
    /\ phase[c] = "idle"
    /\ phase' = [phase EXCEPT ![c] = "scanned"]
    /\ seen' = [seen EXCEPT ![c] = Found]
    /\ request' = [request EXCEPT ![c] = req]
    /\ UNCHANGED <<file, legacy, charged, inherited, overrun>>

\* What a file brings in when this call is the one that establishes it.
Inherit(opened) ==
    /\ inherited' = IF Established(file) THEN inherited ELSE opened.spent
    /\ overrun' = IF Established(file) THEN overrun ELSE Excess(opened)

Reserve(c) ==
    /\ phase[c] = "scanned"
    /\ Granted(file, seen[c], request[c])
    /\ file' = AfterReserve(file, seen[c], c, request[c])
    /\ phase' = [phase EXCEPT ![c] = "held"]
    /\ Inherit(Opened(file, seen[c], request[c]))
    /\ UNCHANGED <<legacy, seen, request, charged>>

ReserveBlocked(c) ==
    /\ phase[c] = "scanned"
    /\ ~Granted(file, seen[c], request[c])
    /\ file' = AfterReserve(file, seen[c], c, request[c])
    /\ phase' = [phase EXCEPT ![c] = "blocked"]
    /\ Inherit(file')
    /\ UNCHANGED <<legacy, seen, request, charged>>

\* The file or a legacy file cannot be read, or the file cannot be written: the
\* exception leaves it as it was.
ReserveFails(c) ==
    /\ phase[c] \in {"idle", "scanned"}
    /\ phase' = [phase EXCEPT ![c] = "blocked"]
    /\ UNCHANGED <<file, legacy, seen, request, charged, inherited, overrun>>

Settle(c, cost) ==
    /\ phase[c] = "held"
    /\ ~SettleRaises(file, cost)
    /\ file' = AfterSettle(file, c, request[c], cost)
    /\ phase' = [phase EXCEPT ![c] = "settled"]
    /\ charged' = With(charged, c, cost)
    /\ overrun' = IF cost > request[c].reserved
                  THEN overrun + (cost - request[c].reserved) ELSE overrun
    /\ UNCHANGED <<legacy, seen, request, inherited>>

\* The settlement is saved but its incident or warning cannot be written: the
\* caller gets the write error, and an overrun has not stopped the workflow.
SettleUnreported(c, cost) ==
    /\ phase[c] = "held"
    /\ ~SettleRaises(file, cost)
    /\ cost > request[c].reserved \/ Violation(file, request[c], cost)
    /\ file' = Charged(file, c, cost)
    /\ phase' = [phase EXCEPT ![c] = "unreported"]
    /\ charged' = With(charged, c, cost)
    /\ overrun' = IF cost > request[c].reserved
                  THEN overrun + (cost - request[c].reserved) ELSE overrun
    /\ UNCHANGED <<legacy, seen, request, inherited>>

\* finalize raises: the amounts are unusable, or the sum would overflow.
SettleRefused(c, cost) ==
    /\ phase[c] = "held"
    /\ SettleRaises(file, cost)
    /\ file' = AfterSettle(file, c, request[c], cost)
    /\ phase' = [phase EXCEPT ![c] = "refused"]
    /\ UNCHANGED <<legacy, seen, request, charged, inherited, overrun>>

\* The state file cannot be read or written: the exception leaves it as it was.
SettleFails(c) ==
    /\ phase[c] = "held"
    /\ phase' = [phase EXCEPT ![c] = "refused"]
    /\ UNCHANGED <<file, legacy, seen, request, charged, inherited, overrun>>

Release(c) ==
    /\ phase[c] \in {"held", "refused"}
    /\ file' = AfterRelease(file, c)
    /\ phase' = [phase EXCEPT ![c] = "released"]
    /\ UNCHANGED <<legacy, seen, request, charged, inherited, overrun>>

\* An earlier release is still running and rewrites its own file.
LegacyChanges(d) ==
    /\ legacy' \in {[legacy EXCEPT ![d] = l] : l \in LegacyStates \cup {Absent, Unreadable}}
    /\ legacy' # legacy
    /\ UNCHANGED <<file, phase, seen, request, charged, inherited, overrun>>

CallerStep(c) ==
    \/ \E req \in Requests : ScanLegacy(c, req)
    \/ Reserve(c)
    \/ ReserveBlocked(c)
    \/ ReserveFails(c)
    \/ \E cost \in Costs : Settle(c, cost) \/ SettleUnreported(c, cost) \/ SettleRefused(c, cost)
    \/ SettleFails(c)
    \/ Release(c)

\* A caller that dies takes no further step; its reservation stays in the file.
Next ==
    \/ \E c \in Calls : CallerStep(c)
    \/ \E d \in LegacyDirs : LegacyChanges(d)

Spec == Init /\ [][Next]_vars

-----------------------------------------------------------------------------
(* The account this authority implements *)

Stage == IF Established(file) THEN file.status ELSE "none"

Admitted == {c \in Calls : phase[c] \in {"held", "settled", "unreported", "refused", "released"}}

Cap == INSTANCE SpendingCap WITH
          stage <- Stage,
          limit <- file.max,
          spent <- file.spent,
          liability <- Total(file.res),
          admitted <- Admitted

\* Every behaviour of the authority is one of a spending cap: the file formats,
\* the import and the refusals add nothing an account would not do.
ImplementsCap == Cap!CapSpec

-----------------------------------------------------------------------------
(* Properties *)

TypeOK ==
    /\ file \in State
    /\ legacy \in [LegacyDirs -> LegacyStates \cup {Absent, Unreadable}]
    /\ phase \in [Calls -> Phase]
    /\ seen \in [Calls -> SUBSET (LegacyStates \cup {Unreadable})]
    /\ request \in [Calls -> Request]
    /\ charged \in Reservations
    /\ inherited \in 0..NonFinite
    /\ overrun \in Nat

\* While a workflow is active its recorded spend is inside its maximum,
\* whatever the calls turn out to cost, unless the incident of an overrun could
\* not be written: the settlement that passes the limit is the one that stops
\* the workflow (budget.py 504-512, 547).  The exception is in the code: the incident
\* is written before the status is set to stopped.
ActiveWithinMax ==
    AuthorityValid(file) /\ file.status = "active" =>
        file.spent <= file.max \/ \E c \in Calls : phase[c] = "unreported"

\* Spend plus everything still reserved exceeds the maximum by no more than
\* settlements went past their own estimates.  Admission counts all open
\* reservations, so concurrent calls cannot each use up the same allowance.
ExposureBounded ==
    AuthorityValid(file) => Exposure(file) <= file.max + overrun

\* The open reservations of this release are exactly those of callers that
\* have neither settled nor released, each for the amount that was granted:
\* none is dropped by another caller's write, none outlives its settlement.
ReservationsMatchCallers ==
    /\ DOMAIN file.res \cap Calls = Liable
    /\ \A c \in Liable : file.res[c] = request[c].reserved

\* The recorded spend is what the file started from plus each settled cost,
\* once: no settlement is lost and none is counted twice.
SpentIsAccounted == file.spent = inherited + Total(charged)

\* An import is never undone: the imported maximum stays, the spend never
\* drops below the imported one, a stopped workflow stays stopped, and the
\* reservations of the earlier release stay a liability (README 115-116).
ImportedIsKept ==
    LET l == file.source
    IN  l # NoSource =>
          /\ file.max = l.max
          /\ file.spent >= l.spent
          /\ l.status = "stopped" => file.status = "stopped"
          /\ \A i \in DOMAIN l.res : i \in DOMAIN file.res /\ file.res[i] = l.res[i]

KeepsStop ==
    file.status = "stopped" =>
        /\ file'.status = "stopped"
        /\ DOMAIN file'.res \subseteq DOMAIN file.res

\* A stopped workflow stays stopped and admits nothing more (budget.py 401-407).
StopIsFinal == [][KeepsStop]_vars

KeepsRecord ==
    Established(file) =>
        /\ Established(file')
        /\ file'.max = file.max
        /\ file'.source = file.source
        /\ file'.spent >= file.spent

\* Once established, a workflow keeps its maximum and its migration record,
\* and its spend only grows: no later call, import or refusal resets it.
NothingIsReset == [][KeepsRecord]_vars

AdmitsKnownLegacy ==
    \A c \in Calls :
        phase[c] = "scanned" /\ phase'[c] = "held" => seen[c] \subseteq {file'.source}

\* A call is admitted only if every legacy file it found is the one that the
\* authority imported (budget.py 199-242): an earlier release that keeps
\* spending on its own copy, or a second copy, blocks admission.
AdmissionAgreesWithLegacy == [][AdmitsKnownLegacy]_vars
=============================================================================
