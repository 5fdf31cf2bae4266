SPECIFICATION DPSpec
CONSTANTS
    a = a
    b = b
    Clients = {a, b}
    Server = srv
    LocalAuth <- MCAuth
    PeerAuth <- MCPeer
    ServerAuth = "psk"
    ServerPeerAuth = {"psk"}
    MaxAttempts <- MCAttempts
    MaxDup = 0
    ReadTimeout = TRUE
    MaxSeq = 2
CHECK_DEADLOCK FALSE
INVARIANTS NonceUnique OpensOnlyPeer TunnelsInStep OneChildPerConnect
