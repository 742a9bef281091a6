CONSTANTS
    s1 = s1
    s2 = s2
    none = none
    nohart = nohart
    Harts <- ThreeHarts
    BootHart = 0
    ResetHarts <- NoHarts
    FlakyHarts <- OnlyHart0
    Stages <- OneStage
    NoStage = none
    QueueCap = 1
    NoHart = nohart
    HsmCallers <- NoHarts
    IpiCallers <- NoHarts
    FenceCallers <- ThreeHarts
    Masks <- Crossing
SPECIFICATION RunningSpec
PROPERTIES
    CallsReturn
