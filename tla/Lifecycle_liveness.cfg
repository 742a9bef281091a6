CONSTANTS
    s1 = s1
    s2 = s2
    none = none
    nohart = nohart
    Harts <- TwoHarts
    BootHart = 0
    ResetHarts <- OnlyHart1
    FlakyHarts <- OnlyHart0
    Stages <- TwoStages
    NoStage = none
    QueueCap = 1
    NoHart = nohart
    HsmCallers <- TwoHarts
    IpiCallers <- OnlyHart0
    FenceCallers <- NoHarts
    Masks <- ToHart1
SPECIFICATION FairFenceSpec
PROPERTIES
    HsmRefinement
    StartsSettle
    SuspendEndsWithIpi
    SoftIpiArrives
