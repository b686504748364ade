CONSTANT N = 8
SPECIFICATION Spec
INVARIANTS
    TypeOK
    Canonical
    QueriesAreExact
PROPERTIES
    ImplementsByteSet
    StepsAreExact
