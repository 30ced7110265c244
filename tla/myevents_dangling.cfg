\* A destroyed event in its creator's list.
SPECIFICATION Spec
CONSTANTS
    UIDs = {u1}
    Passwords = {pw}
    Connections = {c1}
    Attendances = {10}
    FileSizes = {1}
    Seats = {0, 5}
    MaxEvents = 1
    MaxTime = 1
    MaxRead = 2
    MaxRecords = 1
    MAX_LISTED = 3
INVARIANTS
    MyEventsTruthful
