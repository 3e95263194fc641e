SPECIFICATION Spec
CONSTANTS
    PageSize = 2
    MaxAddr = 1023
    Entries = 4
    Slack = 0
    Maps <- ManyMaps
    Capacities = {0, 1}
    Framebuffers <- Screens
INVARIANTS
    LoadedMapIsExact
    PoolSuffices
    MapStaysWhole
    FailureIsNamed
