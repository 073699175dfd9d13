CONSTANTS
    FirstMin = 2
    MinChars = 3
    MaxChars = 4
    TextCap = 2
    MaxFrame = 5
    MaxText = 5
SPECIFICATION TextFairSpec
INVARIANTS
    TextTypeOK
    PostsAllOrNothing
    FramingIrrelevant
    OverlongEndsAtMark
PROPERTIES
    EndIsHeard
