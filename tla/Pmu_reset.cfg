CONSTANTS
    cycles = cycles
    instret = instret
    cache = cache
    raw1 = raw1
    raw2 = raw2
    rawidx = rawidx
    fw1 = fw1
    fw2 = fw2
    none = none
    Offsets <- OneProgrammable
    FwMax = 1
    HasInhibit = TRUE
    HwEvents <- ThreeHwEvents
    RawEvents <- OneRaw
    FwEvents <- OneFwEvent
    CpuCycles = cycles
    Instructions = instret
    RawIndex = rawidx
    NoEvent = none
    CounterMap <- NarrowMap
    Selectable <- AllEvents
    CounterSets <- SomeSets
    MaxValue = 1
SPECIFICATION PmuSpec
INVARIANT ResetUnmaps
CHECK_DEADLOCK FALSE
