----------------------------- MODULE MCAuditTrail -----------------------------
(***************************************************************************)
(* Symmetry for model-checking AuditTrail.                                 *)
(***************************************************************************)
EXTENDS AuditTrail, TLC

Symm == Permutations(Txs) \cup Permutations(Fields) \cup Permutations(Values)
=============================================================================
