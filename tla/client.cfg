SPECIFICATION FairSpec
CONSTANTS
    Torrent <- SmallTorrent
    Tracker = {"A", "B", "H", "X"}
    UdpUrls = {"A", "B", "X"}
    BadUrls = {"X"}
    Listed <- SmallLists
    Rest <- SmallRest
    AnnounceBuffer = 35
    Replies <- SmallReplies
    Address = {"a", "b", "c"}
    Sharing = {"b", "c"}
    Incoming = {"b", "c"}
    TargetPeerCount = 1
    EnoughPeers = 3
    BatchSize = 2
INVARIANTS
    ClientTypeOK
    OneConnectionPerAddress
    OnlyThisTorrent
    AnswersMatch
    CompletedOnce
PROPERTIES
    PeersFromTheirTracker
    EntryTriedOnce
    AnnouncesFinish
    AllTried
    CompletionReachesHttp
