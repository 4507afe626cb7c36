SPECIFICATION Spec
CONSTANTS
    rndis0 = rndis0
    wlan0 = wlan0
    rmnet0 = rmnet0
    Usb = {rndis0}
    Wlan = {wlan0}
    Modem = {rmnet0}
    Flapping = {rndis0}
    MaxQueue = 2
    Mgr = Mgr
    NULL = NULL
INVARIANTS
    TypeOK
    NoStaleNode
    Settled
PROPERTIES
    Reclaimed
