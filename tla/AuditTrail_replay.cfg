CONSTANTS
    Fields = {approval_state, amount_total}
    Values = {x, y}
    Txs = {t1, t2, t3}
    Stamps = {"start", "change"}
    Gone = Gone
    Before = Before
    MaxClock = 3
    Txids = {9, 10}
SPECIFICATION Spec
SYMMETRY Symm
CHECK_DEADLOCK FALSE
INVARIANTS
    ImageIsRow
    LatestIsRow
PROPERTY PastStands
