\* The slots wrap around and orphans are left behind.
SPECIFICATION FairSpec
CONSTANTS
    MAXPROC = 6
    Ops = {"fork1", "join", "quit"}
    ForkArgs <- TwoLevelsOrNull
    TimeSlicing = FALSE
    WokenStates = {}
    MaxPid = 7
INVARIANTS
    ChildLists
PROPERTIES
    ImplementsProcessTree
    JoinReturns
