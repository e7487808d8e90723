CONSTANTS
    Amounts <- UpTo2
    TaxAmounts <- FromMinus1
    BasisTexts <- ThreeBases
    MaxTaxes = 3
CHECK_DEADLOCK FALSE
SPECIFICATION EnvelopeSpec
INVARIANTS
    Balanced
    SettlesWhatIsPosted
