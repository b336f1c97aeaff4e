SPECIFICATION Spec
CONSTANTS
    Loads <- MCLoads
    MaxDepth = 2
INVARIANTS TablesKept NodesKept 
CHECK_DEADLOCK FALSE
