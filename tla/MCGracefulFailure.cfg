SPECIFICATION Spec
CONSTANTS
    Exchanges <- MCExchanges
    ClampMax = 2
    MaxReplies = 1
INVARIANTS
    GracefulFailure
CHECK_DEADLOCK FALSE
