CONSTANTS
    OutCap = 1
    TextCap = 1
    MaxSplit = 2
    MaxAudio = 1
    MaxChatter = 1
    Disturbances = {"client_drops", "server_shutdown"}
SPECIFICATION Spec
INVARIANTS
    TypeOK
    DoneMeansComplete
    QuietWhenClosed
    SlotFreeBeforeSocket
    EveryCloseIsAnnounced
PROPERTIES
    ClosedIsFinal
    KeepsPromises
