SPECIFICATION DPSpec
CONSTANTS
    a = a
    b = b
    Clients = {a, b}
    Server = srv
    LocalAuth <- MCAuth
    PeerAuth <- MCPeer
    ServerAuth = "psk"
    ServerPeerAuth = {"psk"}
    MaxAttempts <- MCAttempts
    MaxDup = 1
    ReadTimeout = FALSE
    MaxSeq = 1
CHECK_DEADLOCK FALSE
INVARIANT NonceUnique
