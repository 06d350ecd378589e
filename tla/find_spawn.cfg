\* A process table of 6, in which PIDs come round.
SPECIFICATION Spec
CONSTANTS
    MAXPROC = 6
    Users = {4, 5, 6, 11, 12}
    f = f
    g = g
    Functions <- TwoFunctions
    Priorities = {2, 3}
    Refusals = {}
    MaxCount = 12
    TimeSlicing = TRUE
    MAXSEMS = 1
    MAXMBOX = 8
    Values = {0}
    MaxValue = 1
SYMMETRY AnyName
INVARIANT
    OwnFunction
CHECK_DEADLOCK FALSE
