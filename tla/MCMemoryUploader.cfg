SPECIFICATION Spec
CONSTANTS
    Jobs <- MCJobs
    Keys <- MCKeys
    KeyOf <- MCKeyOf
    Priority <- MCPriority
    Workers = 2
    MaxRetries = 1
    None = None
    seg = seg
    list1 = list1
    list2 = list2
INVARIANTS
    QueueInv
    StrandedHasCause
PROPERTIES
    ShutdownMissesOnlyHidden
    ImplementsSafety
SYMMETRY MCSymmetry
