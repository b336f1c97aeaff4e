SPECIFICATION FairSpec
CONSTANTS
    Outs = {"1"}
    Inputs = {1, 3}
    Outputs = 2
    HasTimeout = TRUE
    Heirs = {"none", "alive"}
    DownRoom = 4
    UpRoom = 3
    PipeRoom = 1
    GRACE = 2
INVARIANTS  AnswerTruthful StdinInOrder
 
CHECK_DEADLOCK FALSE
