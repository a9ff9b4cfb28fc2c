SPECIFICATION Spec
CONSTANTS
    root = root
    a1 = a1
    a2 = a2
    a3 = a3
    a4 = a4
    b2 = b2
    b3 = b3
    b4 = b4
    NoBlock = NoBlock
    Root = root
    Blocks <- TallBlocks
    Parent <- TallParent
    PublicationBlocks = 2
    Keep = 2
    MaxReorgs = 2
    MaxStops = 2
    MaxDisturbances = 3
    MaxLosses = 0
    PeerRequests = 0
INVARIANTS
    TypeOK
    ThreadsAgree
    CommittedIsServed
    StoresAgree
    RecoverySucceeds
    OverlayCovers
