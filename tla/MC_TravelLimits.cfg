CONSTANTS
    x = x
    z = z
    ok = ok
    jout = jout
    cout = cout
    Axes <- MC_Axes
    SoftLimits <- MC_Axes
    Pts <- MC_Pts
    JointOut <- MC_JointOut
    CartOut <- MC_CartOut
    BisectionIterations = 3

SPECIFICATION Spec

\* the call returns: a terminated clip has no further step
CHECK_DEADLOCK FALSE

INVARIANTS
    TypeOK
    ClipKeepsValid
    ClipNearBoundary
PROPERTY
    ImplementsJogClip
