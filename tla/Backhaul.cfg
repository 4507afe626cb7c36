SPECIFICATION Spec
CONSTANTS
    m1 = m1
    m2 = m2
    s1 = s1
    t1 = t1
    t2 = t2
    NULL = NULL
    Modem = {m1, m2}
    Sta = {s1}
    Tethers = {t1, t2}
    LaterAps = {}
    Fam <- MCFam
    MayLose <- MCMayLose
    Early = {m2}
    Handover = FALSE
INVARIANTS
    TypeOK
    OneUpstream
    NoOrphans
    NoIdleUpstream
    Filtered
    NoStrayRules
    Offloaded
    NatFollows
