SPECIFICATION Spec
CONSTANTS
    work = work
    home = home
    t1 = t1
    t2 = t2
    s1 = s1
    s2 = s2
    fp = fp
    NoStream = NoStream
    NoBinding = NoBinding
    Sessions <- MCSessions
    Fingerprints <- MCFingerprints
    Generations <- MCGenerations
    Tokens <- MCTokens
    Heartbeats <- MCHeartbeats
    Streams <- MCStreams
    relay_generation = 1
    connection_epoch = 1
    max_sessions = 2
    MaxHandle = 3
    TokenTTL = 1
INVARIANT
    ForwardAuthorised
