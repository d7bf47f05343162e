\* Cache transparency and the inverse/forward round trip of rtcp.c
CONSTANTS
    Coords <- MC_Coords
    Angles <- MC_Angles
    Cfgs <- MC_Cfgs
    Tlos <- MC_Tlos
SPECIFICATION Spec
INVARIANTS
    TypeOK
    CacheTransparent
    RoundTrip
