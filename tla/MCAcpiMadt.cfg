SPECIFICATION Spec
CONSTANTS
    PageSize = 64
    MaxAddr = 511
    Map <- TwoPages
    ConfigTables <- Roots
    Addresses = {0, 80, 108, 500}
    Lengths = {20, 36, 40, 44, 53, 68, 84, 200}
    MadtEntries <- AllEntries
    MaxRsdpLength = 44
    MaxSdtLength = 128
    MaxCpus = 2
    BspId = 0
INVARIANTS
    ReadsAreMapped
    TableIsPrefix
    TargetsAreReal
PROPERTIES
    ParsingEnds
