SPECIFICATION FairSpec
CONSTANTS
    p1 = p1
    p2 = p2
    Peer = {p1}
    TotalPieces = 2
    BlocksPerPiece = 1
    LastBlocks = 1
    Content <- AllContent
    MaxInflight = 1
    MaxUnchoked = 1
    InitialDisk <- EmptyDisk
    Responsive = {}
    Faults = {"close"}
    MaxFaults = 1
PROPERTIES
    LostPeerIsDropped
