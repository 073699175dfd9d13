CONSTANTS
    Sessions = {}
    HttpCalls = {h1}
    MaxConcurrent = 1
    HttpCancellable = TRUE
    MaxChunks = 2
    QueueCap = 1
    NetCap = 1
SPECIFICATION PathSpec
INVARIANTS
    DoneIsWhole
