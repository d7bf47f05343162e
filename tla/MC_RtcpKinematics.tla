------------------------- MODULE MC_RtcpKinematics -------------------------
(***************************************************************************)
(* A small instance of RtcpKinematics: the pivot at (100,100,100) of the  *)
(* spec's scenarios, with and without axis offsets, tool length offsets 0 *)
(* and 50, points on and off the pivot and every quarter turn of A and C  *)
(* that the spec's range [-180, 180] contains.                            *)
(***************************************************************************)
EXTENDS RtcpKinematics, TLC

MC_Coords == {0, 100}

MC_Angles == {-90, 0, 90, 180}

MC_Cfgs ==
    { [pivot_x |-> 100, pivot_y |-> 100, pivot_z |-> 100,
       axis_offset_y |-> 0, axis_offset_z |-> 0],
      [pivot_x |-> 100, pivot_y |-> 100, pivot_z |-> 100,
       axis_offset_y |-> 20, axis_offset_z |-> 30] }

MC_Tlos == {0, 50}

=============================================================================
