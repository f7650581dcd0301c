SPECIFICATION StoreSpec
CONSTANTS
    p1 = p1
    p2 = p2
    k1 = k1
    k2 = k2
    NoKey = NoKey
    Procs <- MCProcs
    Keys <- MCKeys
    MaxEpoch = 3
    SyncSupported = TRUE
SYMMETRY MCSymmetry
INVARIANTS
    DurableInv
PROPERTIES
    EpochIsFresh
    CommitIsAtomic
