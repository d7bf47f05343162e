--------------------------- MODULE MC_TravelLimits ---------------------------
(* A jog over a 9-point grid (3 bisection iterations) on a machine with a  *)
(* Cartesian x limit and a joint z limit; a point is valid, has its joint  *)
(* image out on z (a rotating jog), or is out in Cartesian x.             *)
EXTENDS TravelLimits, TLC

CONSTANTS x, z, ok, jout, cout

MC_Axes == {x, z}
MC_Pts == {ok, jout, cout}
MC_JointOut == (ok :> {}) @@ (jout :> {z}) @@ (cout :> {})
MC_CartOut == (ok :> {}) @@ (jout :> {}) @@ (cout :> {x})
=============================================================================
