CONSTANTS
    Kickers = {k1, k2, k3}
    Callers = {}
    Cleaner = cleaner
    Free = free
SYMMETRY Symmetry
SPECIFICATION Spec
INVARIANTS
    TypeOK
    SleeperHasPass
    KickedHasPass
PROPERTY KickWaitsForPass
CHECK_DEADLOCK FALSE
