SPECIFICATION FairSpec
CONSTANTS
    Size = 3
    MaxChain = 2
    Reqs = 5
    Resets = 1
    Ordered = TRUE
INVARIANTS CompletionsTruthful
PROPERTIES AllCompleted
CHECK_DEADLOCK FALSE
