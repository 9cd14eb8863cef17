CONSTANTS
    s1 = s1
    s2 = s2
    Suites <- MCSuites
    Conclusions <- MCConclusions
    NoEvent = NoEvent
    MaxFailures = 1

SPECIFICATION Spec

INVARIANTS
    TypeOK
    CausallyClosed
    NoDuplicateSuites

PROPERTIES
    GraphGrows
    SuitesEventuallyCollected
