SPECIFICATION FairSpec
CONSTANTS
    p1 = p1
    p2 = p2
    Peer = {p1, p2}
    TotalPieces = 2
    BlocksPerPiece = 1
    LastBlocks = 1
    Content <- AllContent
    MaxInflight = 1
    MaxUnchoked = 1
    InitialDisk <- EmptyDisk
    Responsive = {p1}
    Faults = {"corrupt", "long"}
    MaxFaults = 1
PROPERTIES
    ObtainableCompletes
    PMSpec
