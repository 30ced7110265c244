\* A description file closed as a timed-out connection.
SPECIFICATION Spec
CONSTANTS
    Clients = {c1, c2, c3}
    MaxFd = 5
    MAX_CLIENTS = 3
    Timeouts = TRUE
    Oversize = FALSE
    MaxDrift = 1
SYMMETRY Symmetry
INVARIANTS
    CreatesHoldTheirFiles
\* select_loop returns, and the server ends, when select() fails.
CHECK_DEADLOCK FALSE
