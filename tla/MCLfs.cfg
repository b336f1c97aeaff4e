SPECIFICATION LfsSpec
CONSTANTS
    Adds <- MCAdds
    Directions = {"upload", "download"}
    Missing = {"c"}
    BatchSize = 2
    MaxRetries = 1
    Workers = 2
    Adapters = {"basic", "ssh"}
    Procs = {"p", "q"}
    Size = 3
    Attempts = 3
INVARIANTS   PlacedIsObject
PROPERTIES  Arrives
CHECK_DEADLOCK FALSE
