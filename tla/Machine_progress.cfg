CONSTANTS
    Parts = {"boot", "timer", "console", "reset"}
    BootHarts = {"h1", "h2", "h3"}
    HeldHarts = {"h4"}
    Infos <- AnyInfo
    Ordered = TRUE
    Base <- Bits
    DataAddrs <- NineBytes
    Memories <- OneMemory
    RegFiles <- OneRegFile
    Platforms <- FourPlatforms
    FaultSets <- PageEnds
    XonlySets <- XonlyPages
    OwnMxr <- UserMxr
    Strays <- BadFirmware
    Half <- Three
    LastTick = 7
    Deadlines <- ThreeDeadlines
    Boards <- AllBoards
    ConsoleHarts <- TwoConsoleHarts
    Message <- OneWordEach
    ConsoleKinds <- TwoKinds
    FifoDepth = 1
    Arriving = 1
    MaxReads = 1
    MaxTransfer = 2
    Clocks <- OneClock
    ClockWidth = 64
    BaudClock = 4
    ByteSize = 4
    Fractions = 4
    ResetCallers <- TwoCallers
    NodeLists <- FewNodes
    Timebases = {TRUE}
    Taken = {8}
    Requests <- FewRequests
    MaxResets = 1
    LineSize = 2
    LastLine = 1
    MaxAddress = 6
    LargeFlush = 4
    MaxStores = 1
    MaxDma = 1
    MaxAddr = 15
    Descriptions <- AllDescriptions
    Windows <- FewWindows
    ServiceHarts <- TwoServiceHarts
    StaSize = 2
    PageSize = 2
    Triggers = 2
    TriggerSize = 1
    WordSize = 2
SPECIFICATION FairMachineSpec
PROPERTIES
    EveryHartBoots
    DeadlineInterrupts
    ConsoleCallsReturn
    ResetOrAnswer
