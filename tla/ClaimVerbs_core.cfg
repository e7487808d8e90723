CONSTANTS
    None = None
    Claims = {c1}
    Filed = {f1, f2}
    Descs = {d1}
    Files = {r1}
    Requests = {q1, q2}
    Companies = {co1}
    Payments = {p1, p2}
    Calls = {k1, k2}
    Scopes = {co1}
    Wirings <- AnyWiring
    EngineDedups = FALSE
    SinkDedups = FALSE
    CrudMounted = TRUE
SPECIFICATION Spec
SYMMETRY Symm
INVARIANTS
    TypeOK
    LegalPairs
    PostedIsBooked
    DoneIsPaid
    BooksOnlyApproved
    PaysOnlyPosted
    VerdictHonoured
    FiledAsSubmitted
    HeldIsGood
PROPERTIES
    ImplementsLifecycle
    EvidenceFixed
