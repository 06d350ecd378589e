\* fork1, join, quit, zap and unblockProc, of dead processes too, without time slices.
SPECIFICATION Spec
CONSTANTS
    MAXPROC = 6
    Ops = {"fork1", "join", "quit", "zap", "blockMe", "unblockProc", "return"}
    ForkArgs <- TwoLevels
    TimeSlicing = FALSE
    WokenStates = {"Blocked", "Blocked(waiting for child to quit)", "Terminated"}
    MaxPid = 5
INVARIANTS
    NoLostJoin
    DeadlockIsReal
PROPERTIES
    DispatchByPriority
    DeadStayDead
