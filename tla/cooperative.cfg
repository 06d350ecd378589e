\* Any program on the kernel of phase 1a, until the table is full and beyond.
SPECIFICATION Spec
CONSTANTS
    MAXPROC = 6
    ForkArgs = {2, 8}
    MaxPid = 13
INVARIANTS
    RunningFound
    ChildLists
PROPERTIES
    ImplementsProcessTree
