--------------------------- MODULE MC_HomingHooks ---------------------------
(* A small instance of HomingHooks for TLC: three axes, half-millimetre    *)
(* pulloffs and odd step rates so that lroundf meets exact halves, and     *)
(* negative max_travel as grblHAL stores it.                               *)
EXTENDS HomingHooks

MC_MaxTravel == [i \in 0..2 |-> CASE i = 0 -> -400 [] i = 1 -> -300 [] i = 2 -> -201]
MC_Pulloff == [i \in 0..2 |-> CASE i = 0 -> 2 [] i = 1 -> 3 [] i = 2 -> 1]
MC_StepsPerMm == [i \in 0..2 |-> CASE i = 0 -> 80 [] i = 1 -> 3 [] i = 2 -> 5]
MC_Rtcp == {"rtcp_5axis_init"}
MC_Cartesian == {"cartesian_init", "cartesian2_init"}
=============================================================================
