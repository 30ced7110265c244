\* Two users with two passwords book one event of ten seats over three seconds.
SPECIFICATION Spec
CONSTANTS
    UIDs = {u1, u2}
    Passwords = {pw1, pw2}
    Connections = {c1}
    Attendances = {10}
    FileSizes = {1}
    Seats = {0, 5, 10}
    MaxEvents = 1
    MaxTime = 2
    MaxRead = 2
    MaxRecords = 2
    MAX_LISTED = 3
SYMMETRY Symmetry
INVARIANTS
    TypeOK
    LoggedInRegistered
    SeatsConserved
    LedgersAgree
    NeverClosedAndSoldOut
    LaddersAgree
    ListingsTell
PROPERTIES
    ImplementsLifecycle
