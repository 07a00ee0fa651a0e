SPECIFICATION Spec
CONSTANTS
    Feeders = {f1}
    Controllers = {c1}
    Encoders = {"parsed", "manual", "plain"}
    MaxSegments = 2
    MaxCalls = 10
    None = None
INVARIANTS
    ChunklistInv
    FilesInOrder
    LastIsLatest
    PartsNumbered
CHECK_DEADLOCK FALSE
