SPECIFICATION Spec
CONSTANTS
    a = a
    b = b
    Clients = {a, b}
    Server = srv
    Psk <- MCPsk
    ServerPsk = "psk"
    MaxAttempts <- MCAttempts
    MaxDup = 1
    ReadTimeout = TRUE
    MaxSeq = 2
CHECK_DEADLOCK FALSE
INVARIANTS TypeOK ServerChildHasPeer ReturnedAuthentic
PROPERTIES ChildKeysFresh ProvidesService
