----------------------- MODULE MC_CartesianKinematics -----------------------
(* A small instance of CartesianKinematics for TLC: three targets, one of  *)
(* them outside the soft limits, an 8-bit counter and four motion blocks.  *)
EXTENDS CartesianKinematics

CONSTANTS t1, t2, t3, zero, null

MC_Targets == {t1, t2, t3}
MC_InEnvelope == {t1, t2}
=============================================================================
