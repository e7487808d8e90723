--------------------------- MODULE MCCategoryCaps ---------------------------
(***************************************************************************)
(* Caps and symmetry for model-checking CategoryCaps.                      *)
(***************************************************************************)
EXTENDS CategoryCaps, TLC

\* Two claims of the larger amount are over the month, three are not one.
AmountsUpTo2 == {1, 2}
AmountsUpTo3 == {1, 2, 3}

MonthOf3 == [g \in Categories |-> 3]
ClaimOf2 == [g \in Categories |-> 2]

Symm == Permutations(Claims) \cup Permutations(Calls)
        \cup Permutations(Categories)
=============================================================================
