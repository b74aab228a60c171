---------------------- MODULE AdapterLifecycle_proofs ----------------------
(***************************************************************************)
(* What holds of the adapter lifecycle for any number of adapters, routes, *)
(* commands and selections: no concurrency, stale declaration or failed    *)
(* write brings an adapter past a gate.                                    *)
(***************************************************************************)
EXTENDS AdapterLifecycle, TLAPS

\* A command has made its own receipt; one that writes the state has a passed one on disk.
Drafts ==
    \A c \in Commands :
        /\ at[c] # "start" => draft[c] \in Receipt /\ draft[c].id = c
        /\ at[c] = "state" => draft[c].passed /\ draft[c] \in receipts

\* A receipt starts from a state that was backed, and a passed one met its gate.
Sound(x) ==
    /\ Backed(x.adapter, x.route, x.from)
    /\ x.passed => /\ x.to \in AllowedTransitions[x.from]
                   /\ x.from = "shadow" /\ x.to = "candidate" => x.healthy
                   /\ x.from = "candidate" /\ x.to = "qualified" => x.promoted

Records ==
    /\ \A x \in receipts : Sound(x)
    /\ \A c \in Commands : at[c] # "start" => Sound(draft[c])

\* A file without a receipt was put there by hand.
HandFiles ==
    \A a \in Adapters : Exists(a) /\ files[a].receipt = ByHand =>
        [adapter |-> a, route |-> files[a].route, state |-> files[a].state] \in Handwritten

LifecycleInv ==
    /\ LifecycleTypeOK /\ Drafts /\ Records /\ HandFiles /\ StateHasReceipt /\ AllowedIsBacked

-----------------------------------------------------------------------------
(* Backing *)

\* Receipts stay, so what is backed stays backed.
LEMMA BackedGrows ==
    ASSUME receipts \subseteq receipts'
    PROVE  /\ \A a, r, s : Backed(a, r, s) => Backed(a, r, s)'
           /\ \A x : Sound(x) => Sound(x)'
<1>1. ASSUME NEW a, NEW r, NEW from, NEW to, Reached(a, r, from, to)
      PROVE  Reached(a, r, from, to)'
  BY <1>1 DEF Reached
<1>2. ASSUME NEW a, NEW r, NEW s, Backed(a, r, s) PROVE Backed(a, r, s)'
  BY <1>1, <1>2 DEF Backed, Claimed
<1>3. ASSUME NEW x, Sound(x) PROVE Sound(x)'
  BY <1>2, <1>3 DEF Sound
<1> QED BY <1>2, <1>3

\* A passed receipt on disk backs the state it led to.
LEMMA SoundBacks ==
    ASSUME NEW x \in receipts, x \in Receipt, x.passed, Sound(x)
    PROVE  Backed(x.adapter, x.route, x.to)
<1>1. x.from \in States /\ x.to \in AllowedTransitions[x.from] BY DEF Sound, Receipt
<1>2. ASSUME x.to \in Tested
      PROVE  Claimed(x.adapter, x.route, Tested) \/ Reached(x.adapter, x.route, "shadow", "candidate")
  <2>1. CASE x.from \in Tested BY <2>1 DEF Sound, Backed
  <2>2. CASE x.from \notin Tested
    <3>1. x.from = "shadow" /\ x.to = "candidate"
      BY <1>1, <1>2, <2>2 DEF AllowedTransitions, Tested, States
    <3> QED BY <3>1 DEF Sound, Reached
  <2> QED BY <2>1, <2>2
<1>3. ASSUME x.to \in Promoted
      PROVE  Claimed(x.adapter, x.route, Promoted) \/ Reached(x.adapter, x.route, "candidate", "qualified")
  <2>1. CASE x.from \in Promoted BY <2>1 DEF Sound, Backed
  <2>2. CASE x.from \notin Promoted
    <3>1. x.from = "candidate" /\ x.to = "qualified"
      BY <1>1, <1>3, <2>2 DEF AllowedTransitions, Promoted, States
    <3> QED BY <3>1 DEF Sound, Reached
  <2> QED BY <2>1, <2>2
<1> QED BY <1>2, <1>3 DEF Backed

\* Whatever a state file declares is backed.
LEMMA FilesBacked ==
    ASSUME LifecycleInv, NEW a \in Adapters, Exists(a)
    PROVE  Backed(a, files[a].route, files[a].state)
<1>1. CASE files[a].receipt = ByHand
  <2>1. [adapter |-> a, route |-> files[a].route, state |-> files[a].state] \in Handwritten
    BY <1>1 DEF LifecycleInv, HandFiles
  <2>2. \A S : files[a].state \in S => Claimed(a, files[a].route, S)
    BY <2>1 DEF Claimed
  <2> QED BY <2>2 DEF Backed
<1>2. CASE files[a].receipt # ByHand
  <2>1. PICK x \in receipts :
           x.passed /\ x.adapter = a /\ x.route = files[a].route /\ x.to = files[a].state
    BY <1>2 DEF LifecycleInv, StateHasReceipt
  <2>2. Backed(x.adapter, x.route, x.to)
    BY <2>1, SoundBacks DEF LifecycleInv, Records, LifecycleTypeOK
  <2> QED BY <2>1, <2>2
<1> QED BY <1>1, <1>2

-----------------------------------------------------------------------------
(* Steps *)

\* A judged declaration makes a receipt that met the gate if it passed.
LEMMA JudgedFacts ==
    ASSUME NEW c \in Commands, NEW d \in Declaration, NEW req \in Request, NEW dec \in Decision,
           Backed(d.adapter, d.route, d.state)
    PROVE  /\ Judged(c, d, req, dec) \in Receipt /\ Judged(c, d, req, dec).id = c
           /\ Sound(Judged(c, d, req, dec))
<1> DEFINE ok == req.target \in AllowedTransitions[d.state] /\ GatesHold(d, req, dec)
           match == Promotes(d, dec)
<1>1. ok \in BOOLEAN /\ match \in BOOLEAN BY Zenon DEF Promotes
<1>2. d.adapter \in Adapters /\ d.route \in Routes /\ d.state \in States BY DEF Declaration
<1>3. req.target \in States /\ req.healthy \in BOOLEAN BY DEF Request
<1>4. ok => /\ req.target \in AllowedTransitions[d.state]
            /\ d.state = "shadow" /\ req.target = "candidate" => req.healthy
            /\ d.state = "candidate" /\ req.target = "qualified" => match
  BY DEF GatesHold
<1>5. Judged(c, d, req, dec) =
        [id |-> c, adapter |-> d.adapter, route |-> d.route, from |-> d.state, to |-> req.target,
         passed |-> ok, healthy |-> req.healthy, promoted |-> match]
  BY DEF Judged
<1> HIDE DEF ok, match
<1>6. Judged(c, d, req, dec) \in Receipt /\ Judged(c, d, req, dec).id = c
  BY <1>1, <1>2, <1>3, <1>5 DEF Receipt
<1>7. Sound(Judged(c, d, req, dec)) BY <1>4, <1>5 DEF Sound
<1> QED BY <1>6, <1>7

\* The first states hold no receipt, and only files put there by hand.
LEMMA LifecycleInit == Init => LifecycleInv
<1> SUFFICES ASSUME Init PROVE LifecycleInv OBVIOUS
<1>1. PICK hand \in SUBSET Handwritten :
         files = [a \in Adapters |->
                    IF \E h \in hand : h.adapter = a
                    THEN LET h == CHOOSE h \in hand : h.adapter = a
                         IN  [route |-> h.route, state |-> h.state, receipt |-> ByHand]
                    ELSE NoFile]
  BY DEF Init
<1>2. ASSUME NEW a \in Adapters
      PROVE  \/ files[a] = NoFile
             \/ \E h \in Handwritten :
                   h.adapter = a /\ files[a] = [route |-> h.route, state |-> h.state, receipt |-> ByHand]
  BY <1>1, <1>2
<1>3. ASSUME NEW a \in Adapters
      PROVE  files[a] \in StateFile \cup {NoFile} /\ (Exists(a) => files[a].receipt = ByHand)
  <2>1. CASE files[a] = NoFile BY <2>1 DEF Exists
  <2>2. ASSUME NEW h \in Handwritten,
               files[a] = [route |-> h.route, state |-> h.state, receipt |-> ByHand]
        PROVE  files[a] \in StateFile /\ files[a].receipt = ByHand
    <3>1. h.route \in Routes /\ h.state \in States BY LifecycleConstants DEF Declaration
    <3> QED BY <2>2, <3>1 DEF StateFile
  <2> QED BY <1>2, <2>1, <2>2
<1>4. LifecycleTypeOK
  BY <1>1, <1>3 DEF Init, LifecycleTypeOK, Blank, Idle
<1>5. HandFiles
  <2> SUFFICES ASSUME NEW a \in Adapters, Exists(a)
               PROVE [adapter |-> a, route |-> files[a].route, state |-> files[a].state] \in Handwritten
    BY DEF HandFiles
  <2>1. PICK h \in Handwritten :
           h.adapter = a /\ files[a] = [route |-> h.route, state |-> h.state, receipt |-> ByHand]
    BY <1>2 DEF Exists
  <2>2. h = [adapter |-> a, route |-> files[a].route, state |-> files[a].state]
    BY <2>1, LifecycleConstants DEF Declaration
  <2> QED BY <2>2
<1>6. StateHasReceipt BY <1>3 DEF StateHasReceipt
<1>7. Drafts /\ Records /\ AllowedIsBacked
  BY DEF Init, Drafts, Records, AllowedIsBacked, Idle
<1> QED BY <1>4, <1>5, <1>6, <1>7 DEF LifecycleInv

\* Judging leaves the disk alone.
LEMMA EvaluateStep ==
    ASSUME NEW c \in Commands, Evaluate(c), LifecycleInv
    PROVE  LifecycleInv'
<1>1. PICK d \in Handwritten \cup {Declared(a) : a \in {x \in Adapters : Exists(x)}},
           req \in Requests, dec \in Decisions :
              draft' = [draft EXCEPT ![c] = Judged(c, d, req, dec)]
  BY DEF Evaluate
<1>2. req \in Request /\ dec \in Decision BY LifecycleConstants
<1>3. d \in Declaration /\ Backed(d.adapter, d.route, d.state)
  <2>1. CASE d \in Handwritten
    <3>1. \A S : d.state \in S => Claimed(d.adapter, d.route, S) BY <2>1 DEF Claimed
    <3> QED BY <2>1, <3>1, LifecycleConstants DEF Backed
  <2>2. ASSUME NEW a \in Adapters, Exists(a), d = Declared(a)
        PROVE  d \in Declaration /\ Backed(d.adapter, d.route, d.state)
    <3>1. files[a] \in StateFile BY <2>2 DEF LifecycleInv, LifecycleTypeOK, Exists
    <3>2. Backed(a, files[a].route, files[a].state) BY <2>2, FilesBacked
    <3> QED BY <2>2, <3>1, <3>2 DEF Declared, Declaration, StateFile
  <2> QED BY <2>1, <2>2
<1>4. Judged(c, d, req, dec) \in Receipt /\ Judged(c, d, req, dec).id = c
      /\ Sound(Judged(c, d, req, dec))
  BY <1>2, <1>3, JudgedFacts
<1>5. /\ UNCHANGED <<files, receipts, look>>
      /\ at[c] = "start" /\ at' = [at EXCEPT ![c] = "receipt"]
  BY DEF Evaluate
<1>6. draft' \in [Commands -> Receipt \cup {Blank}] /\ draft'[c] = Judged(c, d, req, dec)
      /\ \A o \in Commands : o # c => draft'[o] = draft[o]
  BY <1>1, <1>4 DEF LifecycleInv, LifecycleTypeOK
<1>7. at' \in [Commands -> {"start", "receipt", "state", "done", "failed"}] /\ at'[c] = "receipt"
      /\ \A o \in Commands : o # c => at'[o] = at[o]
  BY <1>5 DEF LifecycleInv, LifecycleTypeOK
<1>8. LifecycleTypeOK' BY <1>5, <1>6, <1>7 DEF LifecycleInv, LifecycleTypeOK, Exists
<1>9. Drafts'
  <2> SUFFICES ASSUME NEW o \in Commands
               PROVE  /\ at'[o] # "start" => draft'[o] \in Receipt /\ draft'[o].id = o
                      /\ at'[o] = "state" => draft'[o].passed /\ draft'[o] \in receipts'
    BY DEF Drafts
  <2>1. CASE o = c BY <2>1, <1>4, <1>6, <1>7
  <2>2. CASE o # c BY <2>2, <1>5, <1>6, <1>7 DEF LifecycleInv, Drafts
  <2> QED BY <2>1, <2>2
<1>10. \A x : Sound(x) => Sound(x)'
  BY <1>5, BackedGrows
<1>11. Records'
  <2>1. \A x \in receipts' : Sound(x)' BY <1>5, <1>10 DEF LifecycleInv, Records
  <2>2. ASSUME NEW o \in Commands, at'[o] # "start" PROVE Sound(draft[o])'
    <3>1. PICK x : x = draft'[o] /\ Sound(x)
      <4>1. CASE o = c BY <4>1, <1>4, <1>6
      <4>2. CASE o # c BY <4>2, <2>2, <1>6, <1>7 DEF LifecycleInv, Records
      <4> QED BY <4>1, <4>2
    <3>2. Sound(x)' BY <3>1, <1>10
    <3> QED BY <3>1, <3>2 DEF Sound, Backed, Reached
  <2> QED BY <2>1, <2>2 DEF Records
<1>12. (HandFiles /\ StateHasReceipt /\ AllowedIsBacked)'
  BY <1>5 DEF LifecycleInv, HandFiles, StateHasReceipt, AllowedIsBacked, Exists, Backed, Reached
<1> QED BY <1>8, <1>9, <1>11, <1>12 DEF LifecycleInv

\* A command that moves on keeps its draft, and receipts are only added.
LEMMA WriteKeeps ==
    ASSUME LifecycleInv, UNCHANGED draft, receipts \subseteq receipts',
           \A c \in Commands : at'[c] # "start" => at[c] # "start"
    PROVE  /\ \A c \in Commands : at'[c] # "start" => Sound(draft[c])'
           /\ \A x \in receipts : Sound(x)'
           /\ \A a, r, s : Backed(a, r, s) => Backed(a, r, s)'
<1>1. (\A a, r, s : Backed(a, r, s) => Backed(a, r, s)') /\ (\A x : Sound(x) => Sound(x)')
  BY BackedGrows
<1>2. ASSUME NEW c \in Commands, at'[c] # "start" PROVE Sound(draft[c])'
  <2>1. PICK x : x = draft[c] /\ Sound(x) BY <1>2 DEF LifecycleInv, Records
  <2>2. Sound(x)' BY <2>1, <1>1
  <2> QED BY <2>1, <2>2 DEF Sound, Backed, Reached
<1> QED BY <1>1, <1>2 DEF LifecycleInv, Records

\* A receipt on disk is the sound one its command made.
LEMMA WriteReceiptStep ==
    ASSUME NEW c \in Commands, WriteReceipt(c), LifecycleInv
    PROVE  LifecycleInv'
<1>1. /\ UNCHANGED <<files, draft, look>>
      /\ at[c] = "receipt" /\ receipts' = receipts \cup {draft[c]}
      /\ at' = [at EXCEPT ![c] = IF draft[c].passed THEN "state" ELSE "done"]
  BY DEF WriteReceipt
<1>2. draft[c] \in Receipt /\ draft[c].id = c /\ Sound(draft[c])
  BY <1>1 DEF LifecycleInv, Drafts, Records
<1>3. draft[c].passed \in BOOLEAN BY <1>2 DEF Receipt
<1>4. /\ at' \in [Commands -> {"start", "receipt", "state", "done", "failed"}]
      /\ at'[c] \in {"state", "done"} /\ (at'[c] = "state" => draft[c].passed)
      /\ \A o \in Commands : o # c => at'[o] = at[o]
  <2>1. CASE draft[c].passed BY <2>1, <1>1 DEF LifecycleInv, LifecycleTypeOK
  <2>2. CASE ~draft[c].passed BY <2>2, <1>1 DEF LifecycleInv, LifecycleTypeOK
  <2> QED BY <2>1, <2>2
<1>5. LifecycleTypeOK' BY <1>1, <1>2, <1>4 DEF LifecycleInv, LifecycleTypeOK, Exists
<1>6. Drafts' BY <1>1, <1>2, <1>4 DEF LifecycleInv, Drafts
<1>7. \A o \in Commands : at'[o] # "start" => at[o] # "start" BY <1>1, <1>4
<1>8. /\ \A o \in Commands : at'[o] # "start" => Sound(draft[o])'
      /\ \A x \in receipts : Sound(x)'
      /\ \A a, r, s : Backed(a, r, s) => Backed(a, r, s)'
  BY <1>1, <1>7, WriteKeeps
<1>9. Records'
  <2>1. \A x : Sound(x) => Sound(x)' BY <1>1, BackedGrows
  <2>2. PICK x : x = draft[c] /\ Sound(x) BY <1>2
  <2>3. \A y \in receipts' : Sound(y)' BY <1>1, <1>8, <2>1, <2>2
  <2> QED BY <1>8, <2>3 DEF Records
<1>10. (HandFiles /\ StateHasReceipt)'
  BY <1>1 DEF LifecycleInv, HandFiles, StateHasReceipt, Exists
<1>11. AllowedIsBacked' BY <1>1, <1>8 DEF LifecycleInv, AllowedIsBacked
<1> QED BY <1>5, <1>6, <1>9, <1>10, <1>11 DEF LifecycleInv

\* A state file is written only behind its receipt.
LEMMA WriteStateStep ==
    ASSUME NEW c \in Commands, WriteState(c), LifecycleInv
    PROVE  LifecycleInv'
<1> DEFINE a == draft[c].adapter
           f == [route |-> draft[c].route, state |-> draft[c].to, receipt |-> c]
<1>1. /\ UNCHANGED <<receipts, draft, look>>
      /\ at[c] = "state" /\ at' = [at EXCEPT ![c] = "done"]
      /\ files' = [files EXCEPT ![a] = f]
  BY DEF WriteState, Put
<1>2. draft[c] \in Receipt /\ draft[c].id = c /\ draft[c].passed /\ draft[c] \in receipts
  BY <1>1 DEF LifecycleInv, Drafts
<1>3. a \in Adapters /\ f \in StateFile /\ f # NoFile
  <2>1. f.state \in States BY <1>2 DEF Receipt
  <2>2. a \in Adapters /\ f \in StateFile BY <1>2 DEF Receipt, StateFile
  <2>3. f.state # "absent" BY <2>1 DEF States
  <2> QED BY <2>2, <2>3 DEF NoFile
<1>4. /\ files' \in [Adapters -> StateFile \cup {NoFile}] /\ files'[a] = f
      /\ \A b \in Adapters : b # a => files'[b] = files[b]
  BY <1>1, <1>3 DEF LifecycleInv, LifecycleTypeOK
<1>5. f.receipt = c /\ c # ByHand /\ f.route = draft[c].route /\ f.state = draft[c].to
  BY LifecycleConstants
<1> HIDE DEF f, a
<1>6. \A b \in Adapters : Exists(b) => Exists(b)'
  BY <1>3, <1>4 DEF Exists
<1>7. LifecycleTypeOK'
  BY <1>1, <1>4, <1>6 DEF LifecycleInv, LifecycleTypeOK, Idle, Reading, Verdict, NoVerdict
<1>8. Drafts' BY <1>1 DEF LifecycleInv, Drafts, LifecycleTypeOK
<1>9. \A o \in Commands : at'[o] # "start" => at[o] # "start"
  BY <1>1 DEF LifecycleInv, LifecycleTypeOK
<1>10. Records' BY <1>1, <1>9, WriteKeeps DEF Records
<1>11. HandFiles'
  BY <1>4, <1>5 DEF LifecycleInv, HandFiles, Exists
<1>12. StateHasReceipt'
  <2> SUFFICES ASSUME NEW b \in Adapters, Exists(b)', files'[b].receipt # ByHand
               PROVE  \E x \in receipts :
                         /\ x.id = files'[b].receipt /\ x.passed
                         /\ x.adapter = b /\ x.route = files'[b].route /\ x.to = files'[b].state
    BY <1>1 DEF StateHasReceipt
  <2>1. CASE b = a BY <2>1, <1>2, <1>4, <1>5 DEF a
  <2>2. CASE b # a BY <2>2, <1>4 DEF LifecycleInv, StateHasReceipt, Exists
  <2> QED BY <2>1, <2>2
<1>13. AllowedIsBacked'
  BY <1>1, BackedGrows DEF LifecycleInv, AllowedIsBacked
<1> QED BY <1>7, <1>8, <1>10, <1>11, <1>12, <1>13 DEF LifecycleInv

\* A command that fails leaves what is on disk.
LEMMA FailStep ==
    ASSUME NEW c \in Commands, Fail(c), LifecycleInv
    PROVE  LifecycleInv'
<1>1. /\ UNCHANGED <<files, receipts, draft, look>>
      /\ at[c] \in {"receipt", "state"} /\ at' = [at EXCEPT ![c] = "failed"]
  BY DEF Fail
<1>2. LifecycleTypeOK' /\ Drafts'
  BY <1>1 DEF LifecycleInv, LifecycleTypeOK, Drafts, Exists
<1>3. \A o \in Commands : at'[o] # "start" => at[o] # "start"
  BY <1>1 DEF LifecycleInv, LifecycleTypeOK
<1>4. Records' BY <1>1, <1>3, WriteKeeps DEF Records
<1>5. (HandFiles /\ StateHasReceipt)'
  BY <1>1 DEF LifecycleInv, HandFiles, StateHasReceipt, Exists
<1>6. AllowedIsBacked' BY <1>1, BackedGrows DEF LifecycleInv, AllowedIsBacked
<1> QED BY <1>2, <1>4, <1>5, <1>6 DEF LifecycleInv

\* What a selection lets through was backed when it read the file.
LEMMA SelectionStep ==
    ASSUME NEW t \in Selections, List(t) \/ Read(t) \/ Undeclared(t), LifecycleInv
    PROVE  LifecycleInv'
<1>1. UNCHANGED <<files, receipts, at, draft>> BY DEF List, Read, Undeclared
<1>2. \A a, r, s : Backed(a, r, s) => Backed(a, r, s)' BY <1>1, BackedGrows
<1>3. Records'
  <2>1. \A o \in Commands : at'[o] # "start" => at[o] # "start" BY <1>1
  <2> QED BY <1>1, <2>1, WriteKeeps DEF Records
<1>4. (Drafts /\ HandFiles /\ StateHasReceipt)'
  BY <1>1 DEF LifecycleInv, Drafts, HandFiles, StateHasReceipt, Exists
<1>5. \E l \in {Idle} \cup Reading \cup Verdict \cup NoVerdict :
         /\ look' = [look EXCEPT ![t] = l]
         /\ \A a \in l.left : Exists(a)
         /\ l.at = "allowed" => \E a \in Adapters : Backed(a, l.route, "qualified")
  <2>1. CASE List(t)
    <3>1. PICK r \in Routes : look' = [look EXCEPT ![t] = [at |-> "reading", route |-> r, left |-> Present]]
      BY <2>1 DEF List
    <3> DEFINE l == [at |-> "reading", route |-> r, left |-> Present]
    <3>2. l \in Reading BY DEF Reading, Present
    <3>3. \A a \in l.left : Exists(a) BY DEF Present
    <3>4. l.at # "allowed" OBVIOUS
    <3>5. look' = [look EXCEPT ![t] = l] BY <3>1
    <3> HIDE DEF l
    <3> QED BY <3>2, <3>3, <3>4, <3>5
  <2>2. CASE Read(t)
    <3>1. look[t].at = "reading" /\ look[t] \in {Idle} \cup Reading \cup Verdict \cup NoVerdict
          /\ \A a \in look[t].left : Exists(a)
      BY <2>2 DEF Read, LifecycleInv, LifecycleTypeOK
    <3>2. look[t] \in Reading BY <3>1 DEF Idle, Verdict, NoVerdict
    <3>3. PICK a \in look[t].left :
        \/ /\ files[a].route = look[t].route
           /\ look' = [look EXCEPT ![t] =
                         [at |-> IF files[a].state \in Selectable THEN "allowed" ELSE "refused",
                          route |-> @.route, left |-> {}, by |-> files[a].receipt]]
        \/ /\ files[a].route # look[t].route
           /\ look' = [look EXCEPT ![t].left = @ \ {a}]
      BY <2>2 DEF Read
    <3>4. a \in Adapters /\ Exists(a) BY <3>1, <3>2 DEF Reading
    <3>5. files[a] \in StateFile BY <3>4 DEF LifecycleInv, LifecycleTypeOK, Exists
    <3>6. CASE /\ files[a].route = look[t].route
               /\ look' = [look EXCEPT ![t] =
                             [at |-> IF files[a].state \in Selectable THEN "allowed" ELSE "refused",
                              route |-> @.route, left |-> {}, by |-> files[a].receipt]]
      <4> DEFINE l == [at |-> IF files[a].state \in Selectable THEN "allowed" ELSE "refused",
                       route |-> look[t].route, left |-> {}, by |-> files[a].receipt]
      <4>1. l \in Verdict BY <3>2, <3>5 DEF Verdict, Reading, StateFile
      <4>2. l.at = "allowed" => Backed(a, l.route, "qualified")
        <5>1. Backed(a, look[t].route, files[a].state) BY <3>4, <3>6, FilesBacked
        <5> QED BY <5>1 DEF Backed, Selectable, Tested, Promoted
      <4>3. look' = [look EXCEPT ![t] = l] BY <3>6
      <4> QED BY <3>4, <4>1, <4>2, <4>3
    <3>7. CASE look' = [look EXCEPT ![t].left = @ \ {a}]
      <4>1. PICK l : l = [look[t] EXCEPT !.left = @ \ {a}] OBVIOUS
      <4>2. l \in Reading /\ l.left \subseteq look[t].left /\ l.at = "reading"
        BY <3>2, <4>1 DEF Reading
      <4>3. look' = [look EXCEPT ![t] = l] BY <3>7, <4>1
      <4> QED BY <3>1, <4>2, <4>3
    <3> QED BY <3>3, <3>6, <3>7
  <2>3. CASE Undeclared(t)
    <3>1. look[t].at = "reading" /\ look[t] \in {Idle} \cup Reading \cup Verdict \cup NoVerdict
      BY <2>3 DEF Undeclared, LifecycleInv, LifecycleTypeOK
    <3>2. look[t].route \in Routes BY <3>1 DEF Idle, Reading, Verdict, NoVerdict
    <3> DEFINE l == [at |-> "undeclared", route |-> look[t].route, left |-> {}]
    <3>3. l \in NoVerdict BY <3>2 DEF NoVerdict
    <3>4. l.left = {} /\ l.at # "allowed" OBVIOUS
    <3>5. look' = [look EXCEPT ![t] = l] BY <2>3 DEF Undeclared
    <3> HIDE DEF l
    <3> QED BY <3>3, <3>4, <3>5
  <2> QED BY <2>1, <2>2, <2>3
<1>6. LifecycleTypeOK'
  BY <1>1, <1>5 DEF LifecycleInv, LifecycleTypeOK, Exists
<1>7. AllowedIsBacked'
  BY <1>2, <1>5 DEF LifecycleInv, LifecycleTypeOK, AllowedIsBacked
<1> QED BY <1>3, <1>4, <1>6, <1>7 DEF LifecycleInv

-----------------------------------------------------------------------------
(* Theorems *)

\* The invariant survives every step, the stutter included.
LEMMA LifecycleNext == LifecycleInv /\ [Next]_vars => LifecycleInv'
<1> SUFFICES ASSUME LifecycleInv, [Next]_vars PROVE LifecycleInv' OBVIOUS
<1>1. CASE Next
  BY <1>1, EvaluateStep, WriteReceiptStep, WriteStateStep, FailStep, SelectionStep DEF Next
<1>2. CASE UNCHANGED vars
  BY <1>2 DEF vars, LifecycleInv, LifecycleTypeOK, Drafts, Records, HandFiles, StateHasReceipt,
     AllowedIsBacked, Exists, Sound, Backed, Reached
<1> QED BY <1>1, <1>2

\* What the invariant says holds of every reachable state.
THEOREM LifecycleInvariance == LifecycleSpec => []LifecycleInv
<1>1. Init => LifecycleInv BY LifecycleInit
<1>2. LifecycleInv /\ [Next]_vars => LifecycleInv' BY LifecycleNext
<1> QED BY <1>1, <1>2, PTL DEF LifecycleSpec

\* Files, receipts and selections keep their types, and listed files exist.
THEOREM LifecycleTypes == LifecycleSpec => []LifecycleTypeOK
<1>1. LifecycleInv => LifecycleTypeOK BY DEF LifecycleInv
<1> QED BY <1>1, LifecycleInvariance, PTL

\* A state file never says what no passed receipt on disk says.
THEOREM StatesHaveReceipts == LifecycleSpec => []StateHasReceipt
<1>1. LifecycleInv => StateHasReceipt BY DEF LifecycleInv
<1> QED BY <1>1, LifecycleInvariance, PTL

\* Every passed receipt has those of the gates before it on disk.
THEOREM NoneSkipsAStage == LifecycleSpec => []NoSkippedStage
<1>1. LifecycleInv => NoSkippedStage
  BY SoundBacks DEF LifecycleInv, Records, LifecycleTypeOK, NoSkippedStage
<1> QED BY <1>1, LifecycleInvariance, PTL

\* A route that a declaration lets through once passed promotion, or an operator
\* vouched for it.
THEOREM AllowedAreBacked == LifecycleSpec => []AllowedIsBacked
<1>1. LifecycleInv => AllowedIsBacked BY DEF LifecycleInv
<1> QED BY <1>1, LifecycleInvariance, PTL

=============================================================================
