CONSTANTS
    s1 = s1
    s2 = s2
    none = none
    nohart = nohart
    Harts <- TwoHarts
    BootHart = 0
    ResetHarts <- NoHarts
    FlakyHarts <- OnlyHart1
    Stages <- OneStage
    NoStage = none
    QueueCap = 2
    NoHart = nohart
    HsmCallers <- TwoHarts
    IpiCallers <- OnlyHart0
    FenceCallers <- TwoHarts
    Masks <- Broadcast
SPECIFICATION FenceSpec
INVARIANTS
    SyncCountIsExact
    FenceIsComplete
    WorkIsAnnounced
PROPERTIES
    LifecycleRefinement
