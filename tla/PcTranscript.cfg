SPECIFICATION Spec
CONSTANTS
    m1 = m1
    m2 = m2
    m3 = m3
    c1 = c1
    c2 = c2
    a1 = a1
    n1 = n1
    s1 = s1
    s2 = s2
    text = text
    d1 = d1
    d2 = d2
    d3 = d3
    d4 = d4
    k1 = k1
    k2 = k2
    k3 = k3
    e1 = e1
    e2 = e2
    g1 = g1
    f1 = f1
    f2 = f2
    Mid = {m1, m2, m3, c1, c2}
    Comment = {c1, c2}
    NoText = NoText
    TextOf <- MCTextOf
    Dangerous = {m3, c2}
    Trigger = {a1, n1}
    AdCard = {a1}
    NoTrigger = NoTrigger
    Staff = {s1, s2}
    Delivery = {d1, d2, d3, d4, k1, k2, k3, e1, e2, g1, f1, f2}
    Carries <- MCCarries
    Timer = {t1}
    NoTimer = NoTimer
    NoKey = NoKey
    Occasion <- MCTakeover
PROPERTIES
    AskedWithTranscript
CHECK_DEADLOCK FALSE
