SPECIFICATION Spec
CONSTANTS
    NULL = NULL
    FEATURE_IPA_ANDROID = FALSE
    IPACM_MAX_FIREWALL_ENTRIES = 3
    Scopes <- mc_Scopes
    Files <- mc_Files
    Packets <- mc_Packets
    Alg <- mc_Alg
    QMI_IPA_MAX_FILTERS = 15
    MaxPending = 2
    MaxLost = 2
INVARIANTS
    TypeOK
    FirewallEnforced
    RulesAccounted
