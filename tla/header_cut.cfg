\* One create whose file does not change.
SPECIFICATION FairSpec
CONSTANTS
    Prefix = 1
    Digits = 1
    Sizes = {2}
    MaxRead = 4
    Chunk = 3
    ShowHeader = 1
    ListSize = 1
    Window = 4
INVARIANTS
    ServerSurvives
\* The run ends: each client asks once, and every reply comes to an end.
CHECK_DEADLOCK FALSE
