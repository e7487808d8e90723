CONSTANTS
    Null = Null
    Clients = {k1, k2}
    Varied <- VariedColumns
    Sent <- SentValues
    MaxWrites = 3
CHECK_DEADLOCK FALSE
SPECIFICATION Spec
SYMMETRY Symm
INVARIANTS
    TypeOK
    BreaksAreBypassed
    GuardCoversChecks
