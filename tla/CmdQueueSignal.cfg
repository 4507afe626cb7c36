SPECIFICATION Spec
CONSTANTS
    netlink = netlink
    driver = driver
    x1 = x1
    x2 = x2
    x3 = x3
    i1 = i1
    y1 = y1
    s1 = s1
    NULL = NULL
    Producers = {netlink, driver}
    Proc = Proc
    Main = Main
    Msgs = {x1, x2, x3, i1, y1, s1}
    Internal = {i1}
    Source <- MC_Source
    Spawn <- MC_Spawn
    SigMsgs = {s1}
    MaxSpurious = 1
    SigTargets = {Main, Proc}
CHECK_DEADLOCK FALSE
PROPERTY
    Delivered
