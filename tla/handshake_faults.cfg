SPECIFICATION Spec
CONSTANTS
    a = a
    b = b
    Clients = {a, b}
    Server = srv
    LocalAuth <- MCLocalAuth
    PeerAuth <- MCPeerAuth
    ServerAuth = "psk"
    ServerPeerAuth = {"cert_a", "cert_b"}
    MaxAttempts <- MCAttempts
    MaxDup = 1
    ReadTimeout = TRUE
    MaxSeq = 2
CHECK_DEADLOCK FALSE
INVARIANTS TypeOK SaAgreement Authenticated ChildAgreement
PROPERTIES SessionsStable ProvidesService
