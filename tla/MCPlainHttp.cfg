SPECIFICATION Spec
CONSTANTS
    Exchanges <- MCExchanges
    ClampMax = 2
    MaxReplies = 1
INVARIANTS
    TypeOK
    EveryPartReported
    
PROPERTIES
    GateSpec
    RequestHandled
CHECK_DEADLOCK FALSE
