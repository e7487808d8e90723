CONSTANTS
    Claims = {c1, c2}
    Retried = {c1}
    Categories = {"g1", "g2"}
    Calls = {k1}
    Null = Null
    Plain <- PlainBody
    Sent <- SentValues
    Nets <- NetsSent
    MaxBodies = 1
    FirstDay = 1
    LastDay = 2
CHECK_DEADLOCK FALSE
SPECIFICATION RetrySpec
INVARIANT TypeOK
INVARIANT LastNamedWins
INVARIANT BooksAreReported
PROPERTY ApprovedIsPosted
