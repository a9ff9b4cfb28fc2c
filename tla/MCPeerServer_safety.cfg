SPECIFICATION Spec
CONSTANTS
    Addresses = {x, y, z}
    Prefix <- OwnPrefix
    WorkerCount = 2
    MaxPeers = 2
    QueueCapacity = 1
    MessagesPerTick = 1
    MaxAccepts = 1
    MaxBanned = 1
    BanTicks = 1
    HandshakeTicks = 1
    MaxConnections = 3
    MaxFailures = 1
SYMMETRY AddressSymmetry
INVARIANTS
    TypeOK
    EntriesAreBacked
    SocketsAreCounted
PROPERTY
    PrefixesKept
