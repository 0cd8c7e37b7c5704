CONSTANTS
    r1 = r1
    r2 = r2
    r3 = r3
    f1 = f1
    Chunks <- MCChunks
    Finishes <- MCFinishes
    None = None
    Count = 2
    SizeOf <- MCSizeOf
    Ceiling = 2
    Life = 1
    Grace = 0
    Conns = {t1, w1}
    Tcp = {t1}
    Queue = 1
    EventQueue = 1
    HeldQueue = 1
    MostHere = 1
    Comers = 2
    Publishes = 2
    Frames = 1
    Callers <- MCPair
    Secrets = 5
    Revocations = 1
    Lapses = 1
    Servers = {s1}
    Writes = 1
    Addresses <- MCPair
    Sizes = {1, 2}
    PeerQueue = 2
    MostWaiting = 4
    MostRemotes = 2
    Allowance = 1
    Ratio = 2
    MostCredit = 5
    MaxPeers = 2
    MaxDatagrams = 3
    MaxReplies = 1
SPECIFICATION StreamsSpec
SYMMETRY MCSymmetry
CHECK_DEADLOCK FALSE
INVARIANTS HandedAsSent SnapshotThenTheRest TradedOnce HomeIsLatest PortAgrees
PROPERTIES KeptAsTheBook StartsWhereItLives
