CONSTANTS
    t1 = t1
    t2 = t2
    t3 = t3
    zero = zero
    Targets <- MC_Targets
    FlatTargets <- MC_FlatTargets
    InEnvelope <- MC_InEnvelope
    Origin = zero
    MaxSegments = 5
    MaxErrSteps = 3
    MaxMoves = 3

SPECIFICATION Spec

INVARIANT
    IdentityMovePassesThrough
