SPECIFICATION Spec
CONSTANTS
    Openers = {o1, o2}
    Items = {i1, i2}
    Cleaner = Cleaner
    Closer = Closer
    None = None
    Inodes = {n1, n2, n3}
    Blocks = {b1}
    MaxVersion = 2
    Strong = {1, 2}
    MaxRestarts = 1
    GraceChoices = {TRUE, FALSE}
    Overlap = {"reset"}
SYMMETRY Symmetry
CHECK_DEADLOCK FALSE
INVARIANT ReadsReturnVersion
