SPECIFICATION Spec
CONSTANTS
    FileLimit = 2
    Vod = Vod
    Master = Master
    None = None
INVARIANTS
    VodHasAllSegments
