SPECIFICATION FairSpec
CONSTANTS
    OctetBits = 3
    Octets = 2
    MaxSubnet = 3
    Configs <- OctetConfigs
    MyNet <- OctetMyNet
    Lookups <- Hosts
    Garbage = {0, 3, 40}
    ShiftWraps = TRUE
    MaxImports = 2
INVARIANTS
    TypeOK
    NoFalseMiss
PROPERTIES
    EntryInTable
    OneEntryPerAddress
    LookupEnds
