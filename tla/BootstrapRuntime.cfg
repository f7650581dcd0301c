SPECIFICATION Spec
CONSTANTS
    c1 = c1
    c2 = c2
    p1 = p1
    Callers <- MCCallers
    Peers <- MCPeers
    MaxIds = 2
    MaxTime = 3
    MaxBoots = 1
    MaxApprovals = 2
    MaxActive = 1
    MaxBytes = 3
    PendingBytes = 1
    CoreBytes = 2
    MaxPeerStarts = 1
    StartWindow = 2
    CodeTTL = 1
    HardTTL = 2
    RecoveryTTL = 1
    MaxFailures = 2
SYMMETRY MCSymmetry
INVARIANTS
    RuntimeInv
    AlwaysRestorable
    LeaksOnlyIgnored
PROPERTIES
    ConfirmedForever
