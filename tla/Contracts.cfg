SPECIFICATION ContractSpec
CONSTANTS
    s1 = s1
    s2 = s2
    s3 = s3
    p1 = p1
    Sessions <- MCSessions
    Peers <- MCPeers
    MaxIds = 4
    MaxTime = 3
    CodeTTL = 0
    HardTTL = 1
    RecoveryTTL = 1
    Window = 2
    MaxPeerStarts = 3
    MaxActive = 3
    MaxRetained = 3
    MaxFailures = 2
    ApprovalIds = {i1, i2}
    Digests = {d1, d2}
    Frames <- MCFrames
    MaxPayload = 3
    MaxSent = 2
SYMMETRY MCSymmetry
INVARIANTS
    FenceMatches
    LimitsHold
    ExchangeSound
CHECK_DEADLOCK FALSE
