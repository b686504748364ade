CONSTANTS
    Requests = {r1, r2}
    Histories <- Lives
    Servers <- Kinds
    MaxSize = 2
SYMMETRY Symmetry
SPECIFICATION Spec
INVARIANTS
    TypeOK
    NoMixedVersions
    FreshWithoutValidators
PROPERTIES
    ConflictMeansChange
