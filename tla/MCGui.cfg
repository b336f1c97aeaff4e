CONSTANTS
    Loads <- MCLoads
    Programs = {"p", "q"}
    Controls = {"c", "d"}
    MaxCanvases = 2
    MaxMemory = 3
    MaxFrame = 2
    KeepExited = 1
SPECIFICATION FairSpec
CHECK_DEADLOCK FALSE
INVARIANTS PixelBudget ExitTruthful TablesKept
PROPERTIES WaitsEnd
