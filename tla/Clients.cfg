SPECIFICATION Spec
CONSTANTS
    NULL = NULL
    IPV6_NUM_ADDR = 2
    Foreign = {"x6"}
    IPA_MAX_NUM_ETH_CLIENTS = 2
    IPA_MAX_NUM_WIFI_CLIENTS = 2
    IPA_MAX_NUM_WAN_CLIENTS = 2
    Scenarios <- mc_Scenarios
    Class <- mc_Class
    L2 <- mc_L2
    MAX_NUM_CLIENT = 3
    MAX_NUM_IFACE = 4
    MAX_NUM_CACHED_CLIENT_ADD_EVENT = 2
INVARIANTS
    TypeOK
    RoutesOwned
    HeadersOwned
    Routed
    NatOwned
    PipeFollows
    ReconnectKeepsAddress
    BridgeExact
    BridgeFollows
CHECK_DEADLOCK FALSE
