SPECIFICATION FairSpec
CONSTANTS
    Message <- SomeMessages
    ReadSize = 6
    MaxSent = 3
CHECK_DEADLOCK FALSE
INVARIANTS
    DecoderTypeOK
    NoByteLost
    FailsForCause
PROPERTIES
    ChannelSpec
    EverythingArrives
