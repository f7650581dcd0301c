SPECIFICATION FairSpec
CONSTANTS
    h1 = h1
    h2 = h2
    a1 = a1
    a2 = a2
    x1 = x1
    Handlers <- MCHandlers
    Approvals <- MCApprovals
    Later <- MCLater
    Apps <- MCApps
    AppOf <- MCAppOf
    MaxCerts = 2
    MaxTime = 3
    MaxCrashes = 1
    RecoveryTTL = 2
    ResultTTL = 2
    AuthTTL = 1
    MaxRecords = 1
INVARIANTS
    IssuanceInv
    ActiveWasDelivered
    NoSecondWhileRetained
PROPERTIES
    ListedOnceRevokedForever
    RevokedDisconnects
