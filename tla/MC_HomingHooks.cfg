CONSTANTS
    NAxis = 3
    MaxTravel <- MC_MaxTravel
    Pulloff <- MC_Pulloff
    StepsPerMm <- MC_StepsPerMm
    Loaded <- MC_Rtcp

SPECIFICATION Spec

INVARIANTS
    TypeOK
    HomeCoherent

PROPERTIES
    HomingKeepsOtherAxes
