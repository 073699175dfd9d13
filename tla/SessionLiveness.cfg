CONSTANTS
    OutCap = 1
    TextCap = 1
    MaxSplit = 1
    MaxAudio = 1
    MaxChatter = 0
    Disturbances = {"client_drops", "handler_crash"}
SPECIFICATION FairSpec
PROPERTIES
    ClosingCloses
    StartedSessionEnds
    ClosingFreesSlot
    ClosedLeavesNoTask
