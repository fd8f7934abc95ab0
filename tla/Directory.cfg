SPECIFICATION Spec
CONSTANTS
    Conv = {c1, c2, c3}
    NoConv = NoConv
    w1 = w1
    w2 = w2
    p1 = p1
    p2 = p2
    n1 = n1
    n2 = n2
    k1 = k1
    Worker = {w1, w2, p1, p2}
    Pancake = {p1, p2}
    Note = {n1, n2}
    Desk = {k1}
    Casts <- MCCasts
SYMMETRY Symmetry
INVARIANTS
    AcknowledgedKept
    ConfirmedWasEscalated
    OneConversation
\* every run and request ends
CHECK_DEADLOCK FALSE
