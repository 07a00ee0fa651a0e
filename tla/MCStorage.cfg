SPECIFICATION MCSpec
CONSTANTS
    Jobs <- MCJobs
    Keys <- MCKeys
    KeyOf <- MCKeyOf
    Workers = 2
    MaxRetries = 1
    None = None
    Streams = {s1, s2}
    Names = {1, 2, 3, 4}
    Sizes = {1, 2}
    MaxBytes = 5
    MaxSegments = 3
    MaxCalls = 6
INVARIANTS
    SlotsInv
    PendingIsTrue
    BufferInv
    KeepsLatest
PROPERTIES
    EveryUploadSettles
    ImplementsSafety
