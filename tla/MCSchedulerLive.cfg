CONSTANTS
    Readers = {r1}
    Ids = {d1, d2}
    Ticker = ticker
    Closer = closer
    Free = free
    Size = 2
    Requests <- Prefixes
    Window = 1
    MinWindow = 1
    ReadAhead = 1
    MaxSkip = 0
    MaxErrorCount = 1
    Buffered = TRUE
    ShortReads = FALSE
    CloseWithReaders = FALSE
    MaxDying = 1
SPECIFICATION FairSpec
PROPERTIES
    DownloadReturns
    CloseReturns
