CONSTANTS
    t1 = t1
    t2 = t2
    t3 = t3
    zero = zero
    null = null
    Targets <- MC_Targets
    InEnvelope <- MC_InEnvelope
    Origin = zero
    Null = null
    IterationsModulus = 256
    MaxMoves = 5

SPECIFICATION Spec

CHECK_DEADLOCK FALSE

INVARIANTS
    TypeOK
    IdentitySingleSegment

PROPERTIES
    MoveReturns
