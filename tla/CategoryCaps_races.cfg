CONSTANTS
    Claims = {c1, c2}
    Categories = {g1, g2}
    Amounts <- AmountsUpTo3
    Calls = {k1, k2}
    Null = Null
    CapPerClaim <- ClaimOf2
    CapPerMonth <- MonthOf3
    EditModes = {TRUE, FALSE}
    CategoriesDeletable = FALSE
CHECK_DEADLOCK FALSE
SPECIFICATION Spec
SYMMETRY Symm
INVARIANTS
    TypeOK
    WithinClaimCap
    WithinMonthCap
