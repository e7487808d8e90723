---------------------------- MODULE MCClaimVerbs ----------------------------
(***************************************************************************)
(* Wirings and symmetry for model-checking ClaimVerbs.                     *)
(***************************************************************************)
EXTENDS ClaimVerbs, TLC

Unwired == [approvals |-> FALSE, gl |-> FALSE, pay |-> FALSE]
AllWired == [approvals |-> TRUE, gl |-> TRUE, pay |-> TRUE]

\* A deployment that is always fully composed.
ComposedOnly == {AllWired}
\* A deployment that may come up without its adapters.
AnyWiring == {Unwired, AllWired}

Symm == Permutations(Calls) \cup Permutations(Requests)
        \cup Permutations(Payments) \cup Permutations(Claims)
        \cup Permutations(Filed)
=============================================================================
