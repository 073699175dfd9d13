CONSTANTS
    Sessions = {}
    HttpCalls = {h1}
    MaxConcurrent = 1
    HttpCancellable = TRUE
    MaxChunks = 2
SPECIFICATION HttpSpec
INVARIANTS
    WholeBodyIsWhole
