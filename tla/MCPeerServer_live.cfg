SPECIFICATION FairSpec
CONSTANTS
    Addresses = {x, y}
    Prefix <- OwnPrefix
    WorkerCount = 1
    MaxPeers = 2
    QueueCapacity = 1
    MessagesPerTick = 1
    MaxAccepts = 1
    MaxBanned = 1
    BanTicks = 1
    HandshakeTicks = 1
    MaxConnections = 3
    MaxFailures = 1
PROPERTIES
    EvictedAreClosed
    HandshakesEnd
    StoppedAreReclaimed
