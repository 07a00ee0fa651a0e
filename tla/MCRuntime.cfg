SPECIFICATION FairSpec
CONSTANTS
    Streams = {s1, s2}
    WorkerCounts = {2, 3}
    PipeSize = 1
    Faults = TRUE
    None = None
INVARIANTS
    ThreadsInv
    FreezeHasCause
PROPERTIES
    ThreadsComeBack
