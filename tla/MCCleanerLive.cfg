CONSTANTS
    Kickers = {k1}
    Callers = {}
    Cleaner = cleaner
    Free = free
SPECIFICATION FairSpec
PROPERTY KickReturns
CHECK_DEADLOCK FALSE
