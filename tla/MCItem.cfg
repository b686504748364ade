SPECIFICATION Spec
CONSTANTS
    Openers = {o1, o2, o3}
    Items = {i1}
    Cleaner = Cleaner
    Closer = Closer
    None = None
    Inodes = {n1, n2}
    Blocks = {b1, b2}
    MaxVersion = 2
    Strong = {1, 2}
    MaxRestarts = 1
    GraceChoices = {TRUE, FALSE}
    Overlap = {}
SYMMETRY Symmetry
CHECK_DEADLOCK FALSE
INVARIANTS
    TypeOK
    ReadsReturnVersion
    RangesSound
    MetaSound
    MetaHasKey
    FinalRangesPersisted
PROPERTY
    ReadersKeepFile
