---------------------------- MODULE MCTenancyStrip ----------------------------
(***************************************************************************)
(* Tables for model-checking TenancyStrip.                                 *)
(***************************************************************************)
EXTENDS TenancyStrip

ClaimsAndCategories == <<"expenses", "expense_categories">>
=============================================================================
