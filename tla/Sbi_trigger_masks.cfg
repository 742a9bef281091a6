SPECIFICATION SbiSpec
CONSTANTS
    Environments <- MCEnvironments
    RawFids <- MCRawFids
    Byte = 2
    Half = 4
    Sampled <- MCSampled
INVARIANT TriggerMasksArrive
