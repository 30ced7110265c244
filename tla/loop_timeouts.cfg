\* Connections that time out and requests that outgrow the buffer.
SPECIFICATION Spec
CONSTANTS
    Clients = {c1, c2, c3}
    MaxFd = 4
    MAX_CLIENTS = 2
    Timeouts = TRUE
    Oversize = TRUE
    MaxDrift = 1
SYMMETRY Symmetry
INVARIANTS
    TypeOK
    MapsFollowInputs
    NeverOvercounts
    CountVouchesForBooks
PROPERTIES
    CountSlipsOnlyWhenStale
\* select_loop returns, and the server ends, when select() fails.
CHECK_DEADLOCK FALSE
