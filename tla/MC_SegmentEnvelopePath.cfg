\* Every joint point planned for an RTCP move stays inside the envelope.
CONSTANTS
    Coords <- MC_Coords
    Angles <- MC_Angles
    Cfgs <- MC_Cfgs
    Tlos <- MC_Tlos
    EnvMin <- MC_EnvMin
    EnvMax <- MC_EnvMax
    Homed <- MC_Homed
    MaxSegments = 2
    MaxMoves = 2
SPECIFICATION Spec
\* the host waits for a further block once MaxMoves have run
CHECK_DEADLOCK FALSE
INVARIANT
    SegmentsInEnvelope
