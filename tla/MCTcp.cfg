SPECIFICATION Spec
CONSTANTS
    Space = 8
    Initials = {6}
    Buffer = 1
    Asks = 1
    Replies = 2
    Gateway = FALSE
    Connections = 1
    MaxIds = 1
    Links <- MCLinks
INVARIANTS  WindowRespected NeverStray GetsAll
CHECK_DEADLOCK FALSE
