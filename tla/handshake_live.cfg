SPECIFICATION FairSpec
CONSTANTS
    a = a
    b = b
    Clients = {a, b}
    Server = srv
    LocalAuth <- MCLocalAuth
    PeerAuth <- MCPeerAuth
    ServerAuth = "psk"
    ServerPeerAuth = {"cert_a", "cert_b"}
    MaxAttempts <- MCAttempts
    MaxDup = 0
    ReadTimeout = FALSE
    MaxSeq = 2
CHECK_DEADLOCK FALSE
PROPERTY ConnectSucceeds
