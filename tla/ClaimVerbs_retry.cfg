CONSTANTS
    None = None
    Claims = {c1}
    Filed = {f1}
    Descs = {d1}
    Files = {}
    Requests = {q1}
    Companies = {co1}
    Payments = {p1}
    Calls = {k1, k2}
    Scopes = {co1}
    Wirings <- ComposedOnly
    EngineDedups = TRUE
    SinkDedups = TRUE
    CrudMounted = FALSE
SPECIFICATION RetrySpec
INVARIANT
    Tracked
PROPERTIES
    PostedIsSettled
