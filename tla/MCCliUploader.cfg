SPECIFICATION FairSpec
CONSTANTS
    Jobs <- MCJobs
    Keys <- MCKeys
    KeyOf <- MCKeyOf
    Workers = 2
    MaxRetries = 1
    TempNames <- MCTempNames
    FineClock = TRUE
    None = None
    Partial = Partial
INVARIANTS
    SemaphoreInv
    UploadingHasOwner
    ObjectOfOwnKey
PROPERTIES
    SettledNeverLands
    EveryUploadSettles
    ImplementsSafety
