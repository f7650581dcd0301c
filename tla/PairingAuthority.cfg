SPECIFICATION Spec
CONSTANTS
    alice = alice
    bob = bob
    carol = carol
    Peers <- MCPeers
    max_connections = 2
    MAX_PAIRING_RECORDS = 2
    MaxChallenges = 1
    MaxFailures = 2
    MaxGeneration = 4
    MaxRevision = 3
    MaxIdentity = 2
SYMMETRY MCSymmetry
INVARIANTS
    TypeOK
    AlwaysRestorable
    PairedIsDurable
    RevokedStaysOut
    SessionsNeedPairing
