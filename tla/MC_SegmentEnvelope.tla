------------------------- MODULE MC_SegmentEnvelope -------------------------
(***************************************************************************)
(* A small instance of SegmentEnvelope: the pivot at (100,100,100) with no *)
(* axis offsets, no tool length offset, points with coordinates 0 and 100  *)
(* and quarter turns -90 and 90 of A and C, and an envelope that is        *)
(* narrower on X than the coordinates (X in [50, 200]), so that targets on *)
(* either side of its edge occur.  MaxSegments = 2 stands for the clamp of *)
(* 2000: every segmented move here has an error above the tolerance, and   *)
(* the clamp keeps its waypoints on the grid.                              *)
(***************************************************************************)
EXTENDS SegmentEnvelope, TLC

MC_Coords == {0, 100}

MC_Angles == {-90, 90}

MC_Cfgs == { [pivot_x |-> 100, pivot_y |-> 100, pivot_z |-> 100,
              axis_offset_y |-> 0, axis_offset_z |-> 0] }

MC_Tlos == {0}

MC_EnvMin == [ax \in AxisNames |-> IF ax = "x" THEN 50 ELSE -400]

MC_EnvMax == [ax \in AxisNames |-> IF ax = "x" THEN 200 ELSE 400]

MC_Homed == AxisNames

=============================================================================
