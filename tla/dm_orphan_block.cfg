SPECIFICATION FairSpec
CONSTANTS
    p1 = p1
    p2 = p2
    Peer = {p1}
    TotalPieces = 2
    BlocksPerPiece = 1
    LastBlocks = 1
    Content <- NobodyHasLast
    MaxInflight = 1
    MaxUnchoked = 1
    InitialDisk <- EmptyDisk
    Responsive = {p1}
    Faults = {"garbage"}
    MaxFaults = 1
PROPERTIES
    ObtainableCompletes
