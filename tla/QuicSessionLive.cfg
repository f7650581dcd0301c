SPECIFICATION Spec
CONSTANTS
    work = work
    home = home
    t1 = t1
    t2 = t2
    t3 = t3
    s1 = s1
    s2 = s2
    fp = fp
    NoStream = NoStream
    NoBinding = NoBinding
    Sessions <- MCOneSession
    Fingerprints <- MCFingerprints
    Generations <- MCGenerations
    Tokens <- MCOneToken
    Heartbeats <- MCHeartbeats
    Streams <- MCStreams
    relay_generation = 1
    connection_epoch = 1
    max_sessions = 1
    MaxHandle = 2
    TokenTTL = 1
PROPERTIES
    ConnectionEnds
    UnownedStops
