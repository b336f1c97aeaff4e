SPECIFICATION FairSpec
CONSTANTS
    Loads <- MCLoads
    BufferLength = 2
    Calls = 3
INVARIANTS NoLostWake TypedInOrder ExitIsLast
PROPERTIES  NoOrphan
CHECK_DEADLOCK FALSE
