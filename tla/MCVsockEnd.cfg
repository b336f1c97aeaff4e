SPECIFICATION FairSpec
CONSTANTS
    Readers = {r}
    Writers = {w}
    BUF_ALLOC = 4
    GUEST_BUF_ALLOC = 1
    MAX_PAYLOAD = 2
    WRAP = 5
    RxBuffers = 1
    HostBytes = 2
    GuestBytes = 1
    CreditRequests = 0
    Events = {"deadline", "close", "shutdown", "rst", "reset"}
INVARIANT EofAfterAllData
PROPERTIES CallsEnd
CHECK_DEADLOCK FALSE
