\* Processes that sleep twice.
SPECIFICATION Spec
CONSTANTS
    MAXPROC = 3
    TicksPerSecond = 1
    Seconds = {0, 1, 2}
    MaxSleeps = 2
    MaxPid = 5
    MaxTicks = 5
    Procs = {1, 2}
    Units = {0}
    MAXLINE = 2
    MaxLines = 1
    Sizes = {0, 1, 3}
    Lengths = {2}
    MaxTyped = 3
    MaxCalls = 2
    NumTracks = 2
    NumSectors = 2
    Tracks = {0, 1}
    Counts = {2}
    Shared = FALSE
    InUse = {"clock"}
INVARIANTS
    NotTooEarly
CHECK_DEADLOCK FALSE
