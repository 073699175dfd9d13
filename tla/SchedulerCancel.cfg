CONSTANTS
    Sessions = {s1, s2, s3}
    HttpCalls = {h1, h2}
    MaxConcurrent = 2
    HttpCancellable = TRUE
SPECIFICATION FairSpec
INVARIANTS
    TypeOK
    LineIsQueue
    SlotsConserved
    BoundedConcurrency
    NoIdleSlot
    GrantsInOrder
    NeverOvercounts
    CountsQueued
PROPERTIES
    PoolSpec
    LineMoves
