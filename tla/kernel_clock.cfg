\* Clock interrupts between the steps of fork1, join and quit.
SPECIFICATION Spec
CONSTANTS
    MAXPROC = 6
    Ops = {"fork1", "join", "quit", "dumpProcesses"}
    ForkArgs <- TwoLevelsOrBad
    TimeSlicing = TRUE
    WokenStates = {}
    MaxPid = 7
INVARIANTS
    TypeOK
    SlotIdentity
    OnlyCurrentRuns
PROPERTIES
    DeadStayDead
