\* Three user processes, which fill a process table of 6; two semaphores, of which the
\* second finds no mailbox left.
SPECIFICATION Spec
CONSTANTS
    MAXPROC = 6
    Users = {4, 5, 6}
    f = f
    g = g
    Functions <- TwoFunctions
    Priorities = {2, 3}
    Refusals <- AnyRefusal
    MaxCount = 9
    TimeSlicing = TRUE
    MAXSEMS = 2
    MAXMBOX = 8
    Values = {0}
    MaxValue = 1
SYMMETRY AnyName
INVARIANTS
    OwnFunctionInStep
    EndsAsAsked
    ValueCountsWaiters
PROPERTY
    ImplementsSemaphore
CHECK_DEADLOCK FALSE
