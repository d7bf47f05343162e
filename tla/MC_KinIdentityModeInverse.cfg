\* The spec's claim IdentityModeInverse, checked against transform_from_cartesian
CONSTANTS
    Coords <- MC_Coords
    Angles <- MC_Angles
    Cfgs <- MC_Cfgs
    Tlos <- MC_Tlos
SPECIFICATION Spec
INVARIANT IdentityModeInverse
