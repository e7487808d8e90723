CONSTANTS
    None = None
    Claims = {c1}
    Filed = {f1, f2}
    Descs = {d1}
    Files = {}
    Requests = {q1, q2}
    Companies = {co1}
    Payments = {p1, p2}
    Calls = {k1, k2}
    Scopes = {co1}
    Wirings <- ComposedOnly
    EngineDedups = TRUE
    SinkDedups = FALSE
    CrudMounted = FALSE
SPECIFICATION Spec
INVARIANT FiledAsSubmitted
