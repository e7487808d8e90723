---------------------------- MODULE MCGenericCrud ----------------------------
(***************************************************************************)
(* The columns that requests vary, for model-checking GenericCrud.         *)
(***************************************************************************)
EXTENDS GenericCrud, TLC

\* Two of each entity: an Option that has a rule and a text with a default, a
\* text with two rules and an Option with a CHECK, and what a line is made of.
VariedColumns ==
    {"reference", "currency", "code", "cap_per_claim", "basis", "tax_amount"}

SentValues == {"b", "blank", "long", "negative", "junk", Null}

Symm == Permutations(Clients)
=============================================================================
