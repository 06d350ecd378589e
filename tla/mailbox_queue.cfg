\* A mailbox as a queue of messages; release and reuse.
SPECIFICATION Spec
CONSTANTS
    Procs = {1, 2, 9}
    Sentinel = 9
    Uses <- Queueing
    MAXMBOX = 1
    MAXSLOTS = 3
    DeviceMbs = {}
    Messages = {"a", "b"}
    Empty = "none"
    Size <- OneSize
    SlotLimits = {1}
    SlotSize = 2
    BufferSizes = {1}
    IntSize = 1
INVARIANTS
    Accounting
PROPERTIES
    ImplementsMailQueue
CHECK_DEADLOCK FALSE
