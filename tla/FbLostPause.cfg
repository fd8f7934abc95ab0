SPECIFICATION Spec
CONSTANTS
    m1 = m1
    m2 = m2
    d1 = d1
    d2 = d2
    d3 = d3
    Mid = {m1, m2}
    Delivery = {d2}
    MidOf <- MCMidOf
    Takeover = {a1}
    Task = {t1, t2}
    NoTask = NoTask
    MaxEvents = 2
INVARIANTS
    BotPausedAfterTakeover
CHECK_DEADLOCK FALSE
