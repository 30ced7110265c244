\* One user, two events, one process that ends between any two file operations.
SPECIFICATION Spec
CONSTANTS
    UIDs = {u1}
    Passwords = {pw}
    Connections = {c1}
    Attendances = {10}
    FileSizes = {1}
    Seats = {5}
    MaxEvents = 2
    MaxTime = 1
    MaxRead = 2
    MaxRecords = 2
    Empty = Empty
    Gone = Gone
    NoUser = NoUser
    MaxCrashes = 1
INVARIANTS
    TypeOK
    LoginsSurvive
    NeverOversold
    DamageStaysLocal
PROPERTIES
    AnsweredStays
    ImplementsStore
    NumbersStayFresh
\* Once the bounds on crashes and time are reached, a server whose users are all
\* locked out by torn password files has no request left to serve.
CHECK_DEADLOCK FALSE
