SPECIFICATION Spec
CONSTANTS
    Loads <- MCMoves
    MaxDepth = 2
INVARIANT NodesFollow
CHECK_DEADLOCK FALSE
