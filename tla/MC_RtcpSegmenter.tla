------------------------- MODULE MC_RtcpSegmenter -------------------------
(* A small instance of RtcpSegmenter for TLC: three targets (one on        *)
(* A = C = 0, one outside the travel envelope), a clamp of 5 segments that *)
(* the chord estimate 3 (6 segments) exceeds and the estimate 2 (4) does   *)
(* not, and three motion blocks.                                           *)
EXTENDS RtcpSegmenter

CONSTANTS t1, t2, t3, zero

MC_Targets == {t1, t2, t3}
MC_FlatTargets == {t1}
MC_InEnvelope == {t1, t2}
=============================================================================
