-------------------------- MODULE AdapterLifecycle --------------------------
(***************************************************************************)
(* The lifecycle of adapters (lifecycle.py, cli.py 389-404): commands that *)
(* read a declaration, judge a transition, write its receipt and, when it  *)
(* passed, the new state file; and the route selection that reads the      *)
(* state files (router.py 1535-1552).  No lock is taken: a command may     *)
(* judge a declaration that another one has replaced since.  Each file is  *)
(* replaced as a whole, by a rename.                                       *)
(***************************************************************************)
EXTENDS Naturals

CONSTANTS
    Adapters,     \* adapter ids, each with one state file
    Routes,       \* provider and model; which of a provider's keys is left out
    Commands,     \* one invocation each; it names the receipt it makes
    Selections,   \* one check of a route each
    Handwritten,  \* declarations that operators write themselves
    Requests,     \* transition requests
    Decisions     \* promotion decisions

States == {"discovered", "shadow", "candidate", "qualified", "production", "retired"}
Declaration == [adapter: Adapters, route: Routes, state: States]

\* healthy: canary passed, a sample taken, not degraded.  approved: the owner, the
\* smoke test and the rollback plan.  A missing promotion decision is one that did
\* not pass.
Request == [target: States, healthy: BOOLEAN, approved: BOOLEAN]
Decision == [route: Routes, passed: BOOLEAN]

ByHand == "by hand"

ASSUME LifecycleConstants ==
    /\ Handwritten \subseteq Declaration
    /\ Requests \subseteq Request
    /\ Decisions \subseteq Decision
    /\ ByHand \notin Commands

VARIABLES
    files,      \* the state file of each adapter
    receipts,   \* the receipts on disk
    at,         \* where each command is
    draft,      \* the receipt it has made
    look        \* how far each selection is

vars == <<files, receipts, at, draft, look>>

Receipt == [id: Commands, adapter: Adapters, route: Routes, from: States, to: States,
            passed: BOOLEAN, healthy: BOOLEAN, promoted: BOOLEAN]
Blank == [passed |-> FALSE]
StateFile == [route: Routes, state: States, receipt: Commands \cup {ByHand}]
NoFile == [state |-> "absent"]
Exists(a) == files[a] # NoFile

-----------------------------------------------------------------------------
(* Judging a transition *)

AllowedTransitions ==
    [discovered |-> {"shadow", "retired"},
     shadow     |-> {"candidate", "retired"},
     candidate  |-> {"shadow", "qualified", "retired"},
     qualified  |-> {"candidate", "production", "retired"},
     production |-> {"qualified", "retired"},
     retired    |-> {}]

Promotes(d, dec) == dec.passed /\ dec.route = d.route

\* Mutant of GatesHold: the promotion decision is asked for only at the last gate.
GatesHoldLate(d, req, dec) ==
    /\ d.state = "shadow" /\ req.target = "candidate" => req.healthy
    /\ d.state = "qualified" /\ req.target = "production" => Promotes(d, dec)
    /\ req.target = "production" => req.approved

\* Upward transitions need evidence; downward ones do not.
GatesHold(d, req, dec) ==
    /\ d.state = "shadow" /\ req.target = "candidate" => req.healthy
    /\ <<d.state, req.target>> \in {<<"candidate", "qualified">>, <<"qualified", "production">>}
          => Promotes(d, dec)
    /\ req.target = "production" => req.approved

Judged(c, d, req, dec) ==
    [id |-> c, adapter |-> d.adapter, route |-> d.route, from |-> d.state, to |-> req.target,
     passed |-> req.target \in AllowedTransitions[d.state] /\ GatesHold(d, req, dec),
     healthy |-> req.healthy, promoted |-> Promotes(d, dec)]

-----------------------------------------------------------------------------
(* Commands *)

\* What a state file declares.
Declared(a) == [adapter |-> a, route |-> files[a].route, state |-> files[a].state]

Idle == [at |-> "idle", left |-> {}]

\* A directory may hold declarations that were put there by hand.
Init ==
    /\ \E hand \in SUBSET Handwritten :
          /\ \A g, h \in hand : g.adapter = h.adapter => g = h
          /\ files = [a \in Adapters |->
                        IF \E h \in hand : h.adapter = a
                        THEN LET h == CHOOSE h \in hand : h.adapter = a
                             IN  [route |-> h.route, state |-> h.state, receipt |-> ByHand]
                        ELSE NoFile]
    /\ receipts = {}
    /\ at = [c \in Commands |-> "start"]
    /\ draft = [c \in Commands |-> Blank]
    /\ look = [t \in Selections |-> Idle]

\* The declaration is one written by hand or any state file as it is now.
Evaluate(c) ==
    /\ at[c] = "start"
    /\ \E d \in Handwritten \cup {Declared(a) : a \in {x \in Adapters : Exists(x)}},
          req \in Requests, dec \in Decisions :
             draft' = [draft EXCEPT ![c] = Judged(c, d, req, dec)]
    /\ at' = [at EXCEPT ![c] = "receipt"]
    /\ UNCHANGED <<files, receipts, look>>

Put(c) == files' = [files EXCEPT ![draft[c].adapter] =
                      [route |-> draft[c].route, state |-> draft[c].to, receipt |-> c]]

\* Mutant of WriteReceipt: the state file is written before the receipt.
WriteReceiptLast(c) ==
    /\ at[c] = "receipt" /\ draft[c].passed
    /\ Put(c)
    /\ at' = [at EXCEPT ![c] = "state"]
    /\ UNCHANGED <<receipts, draft, look>>

WriteReceipt(c) ==
    /\ at[c] = "receipt"
    /\ receipts' = receipts \cup {draft[c]}
    /\ at' = [at EXCEPT ![c] = IF draft[c].passed THEN "state" ELSE "done"]
    /\ UNCHANGED <<files, draft, look>>

WriteState(c) ==
    /\ at[c] = "state"
    /\ Put(c)
    /\ at' = [at EXCEPT ![c] = "done"]
    /\ UNCHANGED <<receipts, draft, look>>

\* A write raises, or the process dies, before the rename.
Fail(c) ==
    /\ at[c] \in {"receipt", "state"}
    /\ at' = [at EXCEPT ![c] = "failed"]
    /\ UNCHANGED <<files, receipts, draft, look>>

-----------------------------------------------------------------------------
(* Selecting a route *)

\* Mutant of Selectable: candidates are routed to as well.
SelectableEarly == {"candidate", "qualified", "production"}

Selectable == {"qualified", "production"}

\* Mutant of Present: every adapter is taken to have a file.
PresentAll == Adapters

Present == {a \in Adapters : Exists(a)}

List(t) ==
    /\ look[t].at = "idle"
    /\ \E r \in Routes : look' = [look EXCEPT ![t] = [at |-> "reading", route |-> r, left |-> Present]]
    /\ UNCHANGED <<files, receipts, at, draft>>

\* The files are read in the order of the directory, which is any; the first one
\* for the route decides.
Read(t) ==
    /\ look[t].at = "reading"
    /\ \E a \in look[t].left :
        \/ /\ files[a].route = look[t].route
           /\ look' = [look EXCEPT ![t] =
                         [at |-> IF files[a].state \in Selectable THEN "allowed" ELSE "refused",
                          route |-> @.route, left |-> {}, by |-> files[a].receipt]]
        \/ /\ files[a].route # look[t].route
           /\ look' = [look EXCEPT ![t].left = @ \ {a}]
    /\ UNCHANGED <<files, receipts, at, draft>>

\* A route that no file declares is allowed.
Undeclared(t) ==
    /\ look[t].at = "reading" /\ look[t].left = {}
    /\ look' = [look EXCEPT ![t] = [at |-> "undeclared", route |-> @.route, left |-> {}]]
    /\ UNCHANGED <<files, receipts, at, draft>>

Next ==
    \/ \E c \in Commands : Evaluate(c) \/ WriteReceipt(c) \/ WriteState(c) \/ Fail(c)
    \/ \E t \in Selections : List(t) \/ Read(t) \/ Undeclared(t)

LifecycleSpec == Init /\ [][Next]_vars

-----------------------------------------------------------------------------
(* Properties *)

Reading == [at: {"reading"}, route: Routes, left: SUBSET Adapters]
Verdict == [at: {"allowed", "refused"}, route: Routes, left: {{}}, by: Commands \cup {ByHand}]
NoVerdict == [at: {"undeclared"}, route: Routes, left: {{}}]

\* The type invariant; a state file that a selection has yet to read exists.
LifecycleTypeOK ==
    /\ files \in [Adapters -> StateFile \cup {NoFile}]
    /\ receipts \subseteq Receipt
    /\ at \in [Commands -> {"start", "receipt", "state", "done", "failed"}]
    /\ draft \in [Commands -> Receipt \cup {Blank}]
    /\ look \in [Selections -> {Idle} \cup Reading \cup Verdict \cup NoVerdict]
    /\ \A t \in Selections : \A a \in look[t].left : Exists(a)

\* The receipt that a state file names is on disk, passed, and led to just this
\* state of this adapter and route, whatever failed between the two writes
\* (lifecycle.py 218-231).
StateHasReceipt ==
    \A a \in Adapters : Exists(a) /\ files[a].receipt # ByHand =>
        \E x \in receipts :
            /\ x.id = files[a].receipt /\ x.passed
            /\ x.adapter = a /\ x.route = files[a].route /\ x.to = files[a].state

Tested == {"candidate", "qualified", "production"}
Promoted == {"qualified", "production"}

\* An operator vouched for one of these states.
Claimed(a, r, S) == \E h \in Handwritten : h.adapter = a /\ h.route = r /\ h.state \in S

Reached(a, r, from, to) ==
    \E y \in receipts : y.passed /\ y.adapter = a /\ y.route = r /\ y.from = from /\ y.to = to
                        /\ (to = "candidate" => y.healthy) /\ (to = "qualified" => y.promoted)

\* Behind an adapter that got to a state there are the receipts of the gates on
\* the way to it, unless a hand-written declaration vouched for a state past them.
Backed(a, r, s) ==
    /\ s \in Tested =>
          Claimed(a, r, Tested) \/ Reached(a, r, "shadow", "candidate")
    /\ s \in Promoted =>
          Claimed(a, r, Promoted) \/ Reached(a, r, "candidate", "qualified")

\* No order of concurrent, stale or failed commands brings an adapter past a gate:
\* every passed receipt has those of the gates before it on disk
\* (lifecycle.py 15-22, 127-146).
NoSkippedStage == \A x \in receipts : x.passed => Backed(x.adapter, x.route, x.to)

\* A route is let through by a declaration only if its adapter once passed
\* promotion for this very route, or an operator vouched for it, whatever has
\* replaced the file since (router.py 1535-1552).
AllowedIsBacked ==
    \A t \in Selections : look[t].at = "allowed" =>
        \E a \in Adapters : Backed(a, look[t].route, "qualified")

=============================================================================
