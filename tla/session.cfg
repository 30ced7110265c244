\* Two clients, three commands between them, one duplicated datagram.
SPECIFICATION Spec
CONSTANTS
    Clients = {c1, c2}
    UIDs = {u1, u2}
    Passwords = {pw1, pw2}
    MaxCommands = 3
    MaxCopies = 1
SYMMETRY Symmetry
INVARIANTS
    TypeOK
    SessionsAgree
PROPERTIES
    RepliesInStep
