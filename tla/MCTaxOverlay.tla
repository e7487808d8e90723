---------------------------- MODULE MCTaxOverlay ----------------------------
(***************************************************************************)
(* Lines and symmetry for model-checking TaxOverlay.                       *)
(***************************************************************************)
EXTENDS TaxOverlay, TLC

\* One line of each basis, and a withholding the claim does not cover.
FewLines == {[basis |-> "input", tax_amount |-> 1],
             [basis |-> "withholding", tax_amount |-> 1],
             [basis |-> "withholding", tax_amount |-> 3]}

AnyList == SUBSET FewLines

Symm == Permutations(Writers)
=============================================================================
