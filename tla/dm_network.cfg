SPECIFICATION Spec
CONSTANTS
    p1 = p1
    p2 = p2
    Peer = {p1, p2}
    TotalPieces = 2
    BlocksPerPiece = 2
    LastBlocks = 1
    Content <- AllContent
    MaxInflight = 2
    MaxUnchoked = 1
    InitialDisk <- OldDisks
    Responsive = {}
    Faults = {"break", "close", "garbage", "short", "write", "crash"}
    MaxFaults = 1
SYMMETRY PeerSymmetry
INVARIANTS
    PMTypeOK
    CompleteCountExact
    QueueIsDownloading
    BlockCountExact
    FlagsOnlyInQueue
    DMTypeOK
    CompleteIsVerified
    UploadSlots
    SlotsExact
    
    AdvertisedExactly
PROPERTIES
    NeverUncompleted
