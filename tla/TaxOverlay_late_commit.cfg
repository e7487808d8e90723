CONSTANTS
    Writers = {w1, w2}
    Lines <- FewLines
    Lists <- AnyList
    AmountTotal = 2
    Promptness = {TRUE, FALSE}
SPECIFICATION Spec
SYMMETRY Symm
CHECK_DEADLOCK FALSE
PROPERTY FrozenAtSubmit
