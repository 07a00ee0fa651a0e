SPECIFICATION Spec
CONSTANTS
    SegmentLimit = 3
    MaxSegments = 4
    ProcessedLimit = 2
    Thumbnails = TRUE
    Interval = 3
    AtomicWrites = TRUE
    FaultLimit = 0
    EventLimit = 20
    InitFile = InitFile
    Playlist = Playlist
    None = None
INVARIANTS
    NoDuplicateProcessing
