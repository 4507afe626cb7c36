SPECIFICATION Spec
CONSTANTS
    TableEntries = 4
    ExpnTableEntries = 3
    r1 = r1
    r2 = r2
    r3 = r3
    r4 = r4
    NoRule = NoRule
    Rules <- MC_Rules
    DstHash <- MC_DstHash
    SrcHash <- MC_SrcHash
    DmaMayFail = TRUE
INVARIANT
    PrevIsNotNext
