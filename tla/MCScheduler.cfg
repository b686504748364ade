CONSTANTS
    Readers = {r1, r2}
    Ids = {d1, d2, d3}
    Ticker = ticker
    Closer = closer
    Free = free
    Size = 2
    Requests <- Overlapping
    Window = 0
    MinWindow = 1
    ReadAhead = 0
    MaxSkip = 0
    MaxErrorCount = 0
    Buffered = FALSE
    ShortReads = TRUE
    CloseWithReaders = FALSE
    MaxDying = 1
SYMMETRY Symmetry
SPECIFICATION Spec
INVARIANTS
    TypeOK
    DownloadNilMeansPresent
    DistinctStarts
    NoOrphanWaiter
    StreamedIsPresent
    CloseStopsFetches
