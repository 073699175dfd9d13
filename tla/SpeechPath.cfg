CONSTANTS
    Sessions = {s1}
    HttpCalls = {h1}
    MaxConcurrent = 1
    HttpCancellable = TRUE
    MaxChunks = 3
    QueueCap = 1
    NetCap = 1
SPECIFICATION PathFairSpec
INVARIANTS
    PathTypeOK
    OnlyDroppedOutlivesSlot
    OkHasAudio
    EventFollowsGenerator
    BridgeInOrder
PROPERTIES
    GoneClientFreesSlot
    GoneClientStopsService
    SlotReturns
    EveryCallIsAnswered
    WorkerEndsOrBlocks
