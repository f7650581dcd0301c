SPECIFICATION RegistrySpec
CONSTANTS
    work = work
    home = home
    play = play
    t1 = t1
    t2 = t2
    t3 = t3
    t4 = t4
    fp = fp
    Sessions <- MCSessions
    Fingerprints <- MCFingerprints
    Generations <- MCGenerations
    Tokens <- MCTokens
    Heartbeats <- MCHeartbeats
    relay_generation = 1
    connection_epoch = 1
    max_sessions = 2
    MaxHandle = 3
    TokenTTL = 2
SYMMETRY MCSymmetry
INVARIANTS
    HandleAvailable
    OneAuthorityPerSession
    TokenInOnePlace
PROPERTIES
    NoRevival
