CONSTANTS
    Parts = {"boot", "traps", "timer", "console", "reset", "cache", "memory"}
    BootHarts = {"h1", "h2", "h3"}
    HeldHarts = {"h4"}
    Infos <- AnyInfo
    Ordered = TRUE
    Base <- Bits
    DataAddrs <- NineBytes
    Memories <- OneMemory
    RegFiles <- OneRegFile
    Platforms <- FourPlatforms
    FaultSets <- PageEnds
    XonlySets <- XonlyPages
    OwnMxr <- UserMxr
    Strays <- BadFirmware
    Half <- Three
    LastTick = 7
    Deadlines <- FiveDeadlines
    Boards <- AllBoards
    ConsoleHarts <- TwoConsoleHarts
    Message <- Words2
    ConsoleKinds <- FourKinds
    FifoDepth = 2
    Arriving = 2
    MaxReads = 1
    MaxTransfer = 2
    Clocks <- SixBits
    ClockWidth = 64
    BaudClock = 4
    ByteSize = 4
    Fractions = 4
    ResetCallers <- TwoCallers
    NodeLists <- SomeNodes
    Timebases = {TRUE, FALSE}
    Taken = {8}
    Requests <- SomeRequests
    MaxResets = 2
    LineSize = 2
    LastLine = 1
    MaxAddress = 6
    LargeFlush = 4
    MaxStores = 1
    MaxDma = 1
    MaxAddr = 15
    Descriptions <- AllDescriptions
    Windows <- FewWindows
    ServiceHarts <- TwoServiceHarts
    StaSize = 2
    PageSize = 2
    Triggers = 2
    TriggerSize = 1
    WordSize = 2
SPECIFICATION MachineSpec
INVARIANTS
    OneBootHart
    MemoryIsPrepared
    PublishedBeforeUse
    TrapsAreTransparent
    StopsForStraysOnly
    PrivilegeIsKept
    TimerIsExact
    BytesAreKept
    ResetIsAsAsked
    TransactionsAreWhole
    RangeIsCoherent
    RegistryIsExact
    NamedMemoryIsGranted
