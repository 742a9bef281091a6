CONSTANTS
    Environments <- MCEnvironments
    RawFids <- MCRawFids
    Byte = 2
    Half = 4
    Sampled <- MCSampled
    cycles = cycles
    instret = instret
    cache = cache
    raw1 = raw1
    raw2 = raw2
    rawidx = rawidx
    fw1 = fw1
    fw2 = fw2
    none = none
    Offsets <- OneProgrammable
    FwMax = 1
    HasInhibit = TRUE
    HwEvents <- AllHwEvents
    RawEvents <- TwoRaws
    FwEvents <- TwoFwEvents
    CpuCycles = cycles
    Instructions = instret
    RawIndex = rawidx
    NoEvent = none
    CounterMap <- WideMap
    Selectable <- NotCache
    CounterSets <- SomeSets
    MaxValue = 1
    FwftHarts <- SomeHarts
    MaxSets = 4
    SlotCount = 5
    SmallestArea = 2
    MemoryEnd = 8
    MaxExtends = 4
    AddressBits = 6
    Blobs <- MCBlobs
    Edits <- MCEdits
    Word = 4
    MaxDepth = 4
    Width = 4
SPECIFICATION ServicesSpec
INVARIANTS
    CallsAreFaithful
    ServedAsAnnounced
    EventsFitCounters
    GrantsAreKept
    FeatureKeeps
    EnclavesAreApart
    PatchIsExact
    MasksAreExact
PROPERTIES
    GrantsAreExclusive
