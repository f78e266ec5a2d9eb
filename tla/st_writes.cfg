SPECIFICATION Spec
CONSTANTS
    Torrents <- SmallTorrents
    BlockSize = 2
INVARIANTS
    StorageTypeOK
    BlocksTile
    VerifyFollowsBytes
    ServesStoredBytes
PROPERTIES
    FlatSpec
