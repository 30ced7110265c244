\* Two connections create events around one instant of the clock.
\* A number is left when the first create has failed.
SPECIFICATION Spec
CONSTANTS
    UIDs = {u1, u2}
    Passwords = {pw}
    Connections = {c1, c2}
    Attendances = {10}
    FileSizes = {2}
    Seats = {10}
    MaxEvents = 2
    MaxTime = 1
    MaxRead = 4
    MaxRecords = 1
    MAX_LISTED = 3
SYMMETRY Symmetry
INVARIANTS
    EventsListedOnce
    UploadsOwnEvents
PROPERTIES
    EidNeverReborn
    EndedCreateIsFinal
    ImplementsLifecycle
