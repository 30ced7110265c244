\* Two clients within capacity; each may be creating an event.
SPECIFICATION FairSpec
CONSTANTS
    Clients = {c1, c2}
    MaxFd = 4
    MAX_CLIENTS = 2
    Timeouts = FALSE
    Oversize = FALSE
    MaxDrift = 1
PROPERTIES
    RequestsAreRead
    ConnectionsAreAccepted
