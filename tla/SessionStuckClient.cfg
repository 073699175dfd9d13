CONSTANTS
    OutCap = 1
    TextCap = 1
    MaxSplit = 1
    MaxAudio = 0
    MaxChatter = 0
    Disturbances = {}
SPECIFICATION FairSpec
PROPERTIES
    ClosingNeedsNoClient
