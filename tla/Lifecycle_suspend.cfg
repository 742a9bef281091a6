CONSTANTS
    s1 = s1
    none = none
    Harts <- ThreeHarts
    BootHart = 0
    ResetHarts <- OnlyHart2
    FlakyHarts <- OnlyHart1
    Stages <- OneStage
    NoStage = none
SPECIFICATION SuspendSpec
INVARIANTS
    NoPanic
    StageHasOneUser
    RecordedStateIsTrue
    OneSystemSuspend
PROPERTIES
    OnlyTheHartItselfMovesOn
