SPECIFICATION Spec
CONSTANTS
    Kind = "network"
    Requests = {r1, r2}
    Targets = {t1, t2}
    Updates = {u1}
    Modes = {"ask", "allow"}
    NoRequest = NoRequest
INVARIANTS AnsweredByApp WaitingIsLive RejectedIsUnused ForgetsStored
SYMMETRY Symmetry
CHECK_DEADLOCK FALSE
