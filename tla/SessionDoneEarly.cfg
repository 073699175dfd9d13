CONSTANTS
    OutCap = 2
    TextCap = 1
    MaxSplit = 1
    MaxAudio = 1
    MaxChatter = 0
    Disturbances = {}
SPECIFICATION Spec
INVARIANTS
    DoneAfterAllAudio
