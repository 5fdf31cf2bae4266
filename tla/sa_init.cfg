SPECIFICATION FairSpec
CONSTANTS
    Clients = {a}
    Server = srv
    Addresses = {addr1, addr2}
    Offers <- MCOffers
    MaxRotations = 1
    MaxRebinds = 1
    MaxDup = 1
INVARIANTS
    ReturnRoutable
    KeysAgree
    SuiteFromOneProposal
PROPERTY
    NegotiationConverges
