CONSTANTS
    NAxis = 3
    MaxTravel <- MC_MaxTravel
    Pulloff <- MC_Pulloff
    StepsPerMm <- MC_StepsPerMm
    Loaded <- MC_Cartesian

SPECIFICATION Spec

INVARIANTS
    HomeCoherent

