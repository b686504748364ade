CONSTANTS
    Readers = {r1}
    Ids = {d1, d2, d3}
    Ticker = ticker
    Closer = closer
    Free = free
    Size = 2
    Requests <- WholeObject
    Window = 0
    MinWindow = 1
    ReadAhead = 0
    MaxSkip = 0
    MaxErrorCount = 1
    Buffered = FALSE
    ShortReads = FALSE
    CloseWithReaders = TRUE
    MaxDying = 1
SPECIFICATION Spec
INVARIANT DownloadNilMeansPresent
