SPECIFICATION Spec
CONSTANTS
    Groups = {"X25519", "MODP_2048"}
    MaxRequests = 4
    MaxLoss = 1
    MaxDup = 1
    MaxSeq = 1
INVARIANTS
    ChildrenMirror
    IkeSasMirror
    NoOrphans
    ArrivalsOpen
CHECK_DEADLOCK FALSE
