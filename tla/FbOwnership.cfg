SPECIFICATION FairSpec
CONSTANTS
    m1 = m1
    m2 = m2
    d1 = d1
    d2 = d2
    d3 = d3
    Mid = {m1, m2}
    Delivery = {d1, d2, d3}
    MidOf <- MCMidOf
    Takeover = {a1}
    Task = {t1, t2}
    NoTask = NoTask
    MaxEvents = 4
INVARIANTS
    OneHolder
    OneTimer
    NoSilentLoss
    IInv
    RepliesAccounted
PROPERTIES
    ImplementsLifecycle
    EveryMessageSettles
CHECK_DEADLOCK FALSE
