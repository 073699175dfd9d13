CONSTANTS
    Sessions = {s1, s2}
    HttpCalls = {h1, h2}
    MaxConcurrent = 2
    HttpCancellable = TRUE
SPECIFICATION Spec
INVARIANTS
    EveryWaitIsReleased
