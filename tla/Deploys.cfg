CONSTANTS
    k1 = k1
    k2 = k2
    w1 = w1
    w2 = w2
    r1 = r1
    c1 = c1
    c2 = c2
    Keys <- MCKeys
    Tree <- MCTree
    Writers <- MCWriters
    Readers <- MCReaders
    Runners <- MCRunners
    NoOne = NoOne
    Losses = 1
    Clients <- MCClients
    MaxInstances = 2
    Depth = 1
    Threads = 2
    Messages = 1
    Deploys = 1
    Failures = 1
    BlobWrites <- MCClients
    BlobReads = {v1}
    MostBytes = 2
    MostGot = 1
    MaxPieces = 3
    MaxDeletes = 1
    MaxTroubles = 2
SPECIFICATION DeploysSpec
SYMMETRY MCSymmetry
CHECK_DEADLOCK FALSE
INVARIANTS DoneIsServed OpenIsKnown RunsTheHandler StopFindsIt ReadsAreWhole LeavesNothing
