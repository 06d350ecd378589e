\* One sender and one receiver on mailboxes with and without slots, or a driver that
\* waits for a device's interrupts; a CPU that does not stop.
SPECIFICATION FairSpec
CONSTANTS
    Procs = {1, 2, 9}
    Sentinel = 9
    Uses <- PairOrDriver
    MAXMBOX = 2
    MAXSLOTS = 2
    DeviceMbs = {0}
    Messages = {"a"}
    Empty = "none"
    Size <- OneSize
    SlotLimits = {0, 1, 2}
    SlotSize = 2
    BufferSizes = {1}
    IntSize = 1
INVARIANTS
    PoolSound
    SentinelKnows
PROPERTIES
    ReceiverIsWoken
CHECK_DEADLOCK FALSE
