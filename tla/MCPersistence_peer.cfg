SPECIFICATION Spec
CONSTANTS
    root = root
    a1 = a1
    a2 = a2
    a3 = a3
    a4 = a4
    b2 = b2
    b3 = b3
    b4 = b4
    NoBlock = NoBlock
    Root = root
    Blocks <- ForkBlocks
    Parent <- ForkParent
    PublicationBlocks = 2
    Keep = 2
    MaxReorgs = 1
    MaxStops = 0
    MaxDisturbances = 1
    MaxLosses = 0
    PeerRequests = 1
INVARIANT
    CommittedIsServed
