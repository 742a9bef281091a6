CONSTANTS
    BootHarts = {"h1", "h2", "h3"}
    HeldHarts = {"h4"}
    Infos <- AnyInfo
    Ordered = FALSE
SPECIFICATION BootSpec
INVARIANT PublishedBeforeUse
