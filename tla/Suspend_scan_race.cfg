CONSTANTS
    s1 = s1
    none = none
    Harts <- ThreeHarts
    BootHart = 0
    ResetHarts <- NoHarts
    FlakyHarts <- NoHarts
    Stages <- OneStage
    NoStage = none
SPECIFICATION SuspendSpec
INVARIANTS
    EveryOtherHartStopped
