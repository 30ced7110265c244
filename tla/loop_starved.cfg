\* Connection attempts at capacity.
SPECIFICATION FairSpec
CONSTANTS
    Clients = {c1, c2}
    MaxFd = 3
    MAX_CLIENTS = 1
    Timeouts = FALSE
    Oversize = FALSE
    MaxDrift = 1
PROPERTIES
    RequestsAreRead
