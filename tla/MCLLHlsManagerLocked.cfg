SPECIFICATION FairSpec
CONSTANTS
    Feeders = {f1}
    Controllers = {c1}
    Encoders = {"parsed"}
    MaxSegments = 2
    MaxCalls = 3
    None = None
PROPERTIES
    CallsEnd
CHECK_DEADLOCK FALSE
