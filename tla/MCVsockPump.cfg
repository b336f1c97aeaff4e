SPECIFICATION Spec
CONSTANTS
    Readers = {r}
    Writers = {w}
    BUF_ALLOC = 4
    GUEST_BUF_ALLOC = 1
    MAX_PAYLOAD = 2
    WRAP = 5
    RxBuffers = 1
    HostBytes = 2
    GuestBytes = 5
    CreditRequests = 1
    Events = {}
INVARIANTS GuestWindow HostWindow
PROPERTIES Streams
CHECK_DEADLOCK FALSE
