\* One receiver, or one sender; release and reuse.
SPECIFICATION Spec
CONSTANTS
    Procs = {1, 2, 3, 9}
    Sentinel = 9
    Uses <- OneToMany
    MAXMBOX = 1
    MAXSLOTS = 3
    DeviceMbs = {}
    Messages = {"a"}
    Empty = "none"
    Size <- OneSize
    SlotLimits = {1}
    SlotSize = 2
    BufferSizes = {1}
    IntSize = 1
INVARIANTS
    NoLostReceiver
    NoLostSender
    NoCrash
    ReleaseWakesAll
CHECK_DEADLOCK FALSE
