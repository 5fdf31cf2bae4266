SPECIFICATION FairSpec
CONSTANTS
    a = a
    b = b
    Clients = {a, b}
    Server = srv
    Psk <- MCPsk
    ServerPsk = "psk"
    MaxAttempts <- MCAttempts
    MaxDup = 0
    ReadTimeout = FALSE
    MaxSeq = 2
CHECK_DEADLOCK FALSE
PROPERTY ConnectSucceeds
