SPECIFICATION FairSpec
CONSTANTS
    c1 = c1
    g1 = g1
    agent = agent
    proxy = proxy
    Callers = {c1}
    Guests = {g1}
    NPorts = 2
    Agent = agent
    Proxy = proxy
    MaxResets = 1
    None = None
INVARIANTS Reachable ConnectTruthful
PROPERTIES KeysForgotten GuestEnds
CHECK_DEADLOCK FALSE
