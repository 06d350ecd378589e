\* The testcases of phases 1a, 1b and 3 against their recorded outputs.
SPECIFICATION TestsSpec
CONSTANTS
    MAXPROC = 50
    Ops = {"fork1", "join", "quit", "zap", "blockMe", "unblockProc", "return"}
    ForkArgs = {}
    TimeSlicing = FALSE
    WokenStates <- States
    MaxPid = 400
INVARIANTS
    Phase1aAsRecorded
    Phase1bAsRecorded
    Phase3AsRecorded
