SPECIFICATION Spec
CONSTANTS
    MaxSecretLength = 2
    OverlapFloor = 1
    OverlapCeil = 2
    MaxBuffer = 6
    ClampMax = 6
    HeaderCap = 5
    MethodProbe = 2
    MaxChunk = 4
    MaxReplies = 1
    Requests <- MCRequests
INVARIANTS
    HeadersGated
CHECK_DEADLOCK FALSE
