SPECIFICATION FairSpec
CONSTANTS
    FileLimit = 4
    Vod = Vod
    Master = Master
    None = None
INVARIANTS
    ReplayInv
    VodHasSettled
PROPERTIES
    ReplaySettles
