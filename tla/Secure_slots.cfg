CONSTANTS
    SlotCount = 5
    SmallestArea = 2
    MemoryEnd = 8
    MaxExtends = 4
    AddressBits = 6
SPECIFICATION SecureSpec
INVARIANTS
    ReservedSlotsAreKept
