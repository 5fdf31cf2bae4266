SPECIFICATION FairSpec
CONSTANTS
    Octet = 16
    Scripts <- MCScripts
    ContentSizes = {0, 2, 40, 100, 222, 223}
    Spis <- MCSpis
    FirstIvs = {0, 13}
    FragLimit = 4
    IvLimit = 16
    MaxEsp = 1
    MaxChunks = 4
    MaxDup = 1
INVARIANTS
    ReadAsSent
    IvsUnique
PROPERTIES
    EveryMessageRead
    EspReachesDataPath
CHECK_DEADLOCK FALSE
