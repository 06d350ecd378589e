\* Each of the drivers, used by processes that sleep once.
SPECIFICATION FairSpec
CONSTANTS
    MAXPROC = 4
    TicksPerSecond = 1
    Seconds = {0, 1, 2}
    MaxSleeps = 1
    MaxPid = 5
    MaxTicks = 4
    Procs = {1, 2}
    Units = {0}
    MAXLINE = 2
    MaxLines = 1
    Sizes = {0, 1, 3}
    Lengths = {2}
    MaxTyped = 3
    MaxCalls = 2
    NumTracks = 2
    NumSectors = 2
    Tracks = {0, 1}
    Counts = {2}
    Shared = FALSE
    InUse = {"clock", "terminal", "disk"}
INVARIANTS
    OnTime
    InputInOrder
    TextsWhole
    NoCharLost
    SectorsInOrder
    RequestsTaken
    LockGivenBack
PROPERTIES
    SleepsEnd
    WritesEnd
    CallsEnd
CHECK_DEADLOCK FALSE
