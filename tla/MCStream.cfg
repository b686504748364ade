CONSTANTS
    PoolSize = 1
    Buffers = 2
    BufferSize = 2
    SoftStart = 1
    Size = 3
    Idle = idle
    Options <- Settings
    Starts = {0}
    Wanted = {3}
    MaxFaults = 1
    MaxTries = 2
SPECIFICATION FairSpec
INVARIANTS
    TypeOK
    InOrder
    ChannelsNeverBlock
    CloseIsClean
    ReadsInOrder
    BuffersReturned
    RestIsFlushed
    EofIsTheEnd
    WaitHasWriter
PROPERTIES
    ImplementsStreamBuf
    StopReturns
