SPECIFICATION Spec
CONSTANTS
    a1 = a1
    a2 = a2
    c1 = c1
    n1 = n1
    s1 = s1
    s2 = s2
    t1 = t1
    f1 = f1
    f2 = f2
    f3 = f3
    NoAddr = NoAddr
    NoPort = 0
    MaxEntries = 2
    MaxTempEntries = 1
    MaxWifiClients = 1
    MaxRules = 2
    Addrs = {NoAddr, a1, a2, c1, n1, s1, s2, t1}
    Ports = {0, 1, 3, 11, 12}
    AlgPorts = {}
    Flows = {f1, f2, f3}
    FlowOf <- MC_FlowOf
    WanAddrs = {a1}
    NatClients = {c1}
    NonNatClients = {n1}
    StaClients = {s2}
    Subnets = {"lan"}
    SubnetOf <- MC_SubnetOf
    CfgSubnets = {"lan", "dev"}
    MaxSubnets = 2
    MaxIfaceAddress = 1
    MaxStaClnts = 1
    Passthrough = FALSE
INVARIANT
    ClosedIsGone
