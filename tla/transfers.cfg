\* One create, one show and one list.
SPECIFICATION FairSpec
CONSTANTS
    Prefix = 1
    Digits = 1
    Sizes = {2, 3}
    MaxRead = 4
    Chunk = 3
    ShowHeader = 1
    ListSize = 4
    Window = 3
INVARIANTS
    TypeOK
    CutsDoNotMatter
    SavedIsTheDescription
    
PROPERTIES
    HeldIsLetGo
    CreateIsServed
    ShowEnds
\* The run ends: each client asks once, and every reply comes to an end.
CHECK_DEADLOCK FALSE
