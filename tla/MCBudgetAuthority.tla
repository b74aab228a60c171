------------------------- MODULE MCBudgetAuthority -------------------------
(* Small instances of BudgetAuthority for TLC. *)
EXTENDS BudgetAuthority, TLC, SequencesExt

CONSTANTS l1

Symmetry == Permutations(Calls) \cup Permutations(LegacyDirs)

\* Total counts what a fold over the same function adds up.
ASSUME TotalIsSum ==
    \A S \in SUBSET Ids : \A f \in [S -> 0..2] :
        Total(f) = MapThenFoldSet(LAMBDA x, y : x + y, 0, LAMBDA i : f[i],
                                  LAMBDA T : CHOOSE i \in T : TRUE, S)

Legacy(status, spent, res) == [max |-> 3, status |-> status, spent |-> spent, res |-> res]

InPlace(spent, owner, status) ==
    [owner |-> owner, max |-> 3, status |-> status, spent |-> spent,
     res |-> NoReservation, source |-> NoSource]

-----------------------------------------------------------------------------
(* Concurrent callers of one authority, with legacy directories that an       *)
(* earlier release may still write.                                           *)

MCLegacyStates ==
    {Legacy("active", 1, [i \in {l1} |-> 1]),
     Legacy("active", 2, [i \in {l1} |-> 2]),
     Legacy("stopped", 3, NoReservation)}

MCInitialFiles ==
    {Empty,
     InPlace(1, "unset", "active"),      \* a v1 file already in the authority
     InPlace(0, "elsewhere", "active"),  \* a copy of another authority's file
     InPlace(NonFinite, "here", "active")}

MCRequests ==
    {[max |-> 3, callMax |-> 2, reserved |-> 1],
     [max |-> 3, callMax |-> 2, reserved |-> 2],
     [max |-> 4, callMax |-> 2, reserved |-> 1],
     [max |-> 3, callMax |-> 2, reserved |-> NonFinite]}

MCCosts == {0, 1, 2, 3, NonFinite}
=============================================================================
