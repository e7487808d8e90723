--------------------------- MODULE MCGuardedRoutes ---------------------------
(***************************************************************************)
(* Bodies for model-checking GuardedRoutes.                                *)
(***************************************************************************)
EXTENDS GuardedRoutes, TLC

PlainBody ==
    [employee_id |-> "e1", category_id |-> "g1", expense_date |-> 1,
     amount_total |-> 1, currency |-> "IDR", payment_mode |-> "own_account",
     reference |-> "r1"]

\* Every kind of answer once: good values, nulls, and what is refused.
SentValues ==
    {<<"employee_id", "e2">>, <<"category_id", "g2">>, <<"category_id", Null>>,
     <<"expense_date", 2>>, <<"amount_total", 2>>, <<"amount_total", -1>>,
     <<"currency", "idr">>, <<"currency", "rupiah">>,
     <<"payment_mode", "company_account">>, <<"payment_mode", "cash">>,
     <<"reference", Null>>}

\* More than a claim of the plain amount covers.
NetsSent == {2}
=============================================================================
