CONSTANTS
    Claims = {c1, c2}
    Categories = {g1}
    Amounts <- AmountsUpTo2
    Calls = {k1, k2}
    Null = Null
    CapPerClaim <- ClaimOf2
    CapPerMonth <- MonthOf3
    EditModes = {FALSE}
    CategoriesDeletable = TRUE
CHECK_DEADLOCK FALSE
SPECIFICATION RetrySpec
PROPERTY FittingIsSubmitted
