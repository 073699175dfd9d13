CONSTANTS
    Requests = {r1, r2}
SPECIFICATION FairSpec
INVARIANTS
    TypeOK
    NothingLeft
    OpenIsFindable
PROPERTIES
    AbortEnds
