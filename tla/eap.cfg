SPECIFICATION FairSpec
CONSTANTS
    Clients <- MCClients
    Accounts <- MCAccounts
    ServerAuths <- MCServerAuths
    TrustedCas <- MCTrustedCas
    ExpectedDns = "vpn"
    Now <- MCNow
    MaxSteps = 12
    MaxDup = 2
INVARIANTS
    BothEstablished
    CredentialsGuarded
PROPERTY
    EapCompletes
CHECK_DEADLOCK FALSE
