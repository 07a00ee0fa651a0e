SPECIFICATION FairSpec
CONSTANTS
    SegmentLimit = 4
    MaxSegments = 2
    ProcessedLimit = 2
    Thumbnails = TRUE
    Interval = 4
    AtomicWrites = FALSE
    FaultLimit = 1
    EventLimit = 3
    InitFile = InitFile
    Playlist = Playlist
    None = None
INVARIANTS
    DirectoryInv
    ThumbnailIsOwn
    WindowSlides
    ListedWereQueued
    InitBeforePlaylist
    NumberedAsProduced
PROPERTIES
    EverySegmentQueued
    DirectoryDrains
