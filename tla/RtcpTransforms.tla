--------------------------- MODULE RtcpTransforms ---------------------------
(***************************************************************************)
(* The kinematic transforms of src/src/grbl/kinematics/rtcp.c as          *)
(* operators: transform_from_cartesian (TCP to joints, through the        *)
(* trigonometric cache of update_trig_cache), transform_to_cartesian      *)
(* (joints to TCP, local trigonometry) and the DRO hook                   *)
(* transform_steps_to_cartesian.  RtcpKinematics puts them in a state     *)
(* machine with the cache and the events that invalidate it; the          *)
(* segmenter models use them on concrete moves.                           *)
(*                                                                         *)
(* Data abstraction.  Coordinates are integers (mm) and the rotary angles  *)
(* quarter turns, where sinf and cosf are 0 or +-1 up to float rounding;   *)
(* the formulas of the code are then evaluated exactly.  The cache         *)
(* tolerance trig_cache_tol is below 0.0012 degrees for every pivot        *)
(* (RAD_TO_DEG(0.01 / max(arm, 500))), so between quarter turns           *)
(* "|a - last_a| > tol" is "a # last_a".                                   *)
(***************************************************************************)
EXTENDS Integers

CONSTANTS
    Coords,   \* linear coordinates a point may have
    Angles,   \* rotary angles (degrees, quarter turns)
    Cfgs,     \* rtcp_settings_t values: pivot and A/C axis offsets
    Tlos      \* tool length offsets on Z (gc_state.modal.tool_length_offset)

QuarterTurns == {-270, -180, -90, 0, 90, 180, 270}

Settings == [pivot_x : Int, pivot_y : Int, pivot_z : Int,
             axis_offset_y : Int, axis_offset_z : Int]

ASSUME KinematicsAssumption ==
    /\ Coords \subseteq Int
    /\ Angles \subseteq QuarterTurns
    /\ Cfgs \subseteq Settings
    /\ Tlos \subseteq Int

\* sinf(DEG_TO_RAD(d)) and cosf(DEG_TO_RAD(d)) at a quarter turn
Sin(d) == CASE d \in {-180, 0, 180} -> 0
            [] d \in {-270, 90}      -> 1
            [] d \in {-90, 270}      -> -1
Cos(d) == CASE d \in {-270, -90, 90, 270} -> 0
            [] d = 0                      -> 1
            [] d \in {-180, 180}          -> -1

\* an N_AXIS vector X, Y, Z, A, C (Cartesian or joint)
Points == [x : Coords, y : Coords, z : Coords, a : Angles, c : Angles]

Vectors == [x : Int, y : Int, z : Int, a : QuarterTurns, c : QuarterTurns]

Caches == [cache_valid : BOOLEAN, last_a : QuarterTurns, last_c : QuarterTurns,
           sin_a : {-1, 0, 1}, cos_a : {-1, 0, 1},
           sin_c : {-1, 0, 1}, cos_c : {-1, 0, 1}]

-----------------------------------------------------------------------------
(* The transforms *)

\* |A| < 0.001 and |C| < 0.001: the identity fast path
FastPath(p) == p.a = 0 /\ p.c = 0

\* Steps 1 to 4 of transform_from_cartesian with the given sin/cos values
InverseWith(p, cf, t, sa, ca, sc, cc) ==
    LET dy    == cf.axis_offset_y
        dz    == cf.axis_offset_z + t
        px    == p.x - cf.pivot_x
        py    == p.y - cf.pivot_y
        pz    == (p.z - t) - cf.pivot_z
        xc    == px * cc - py * sc
        yc    == px * sc + py * cc
        y_rot == yc * ca - pz * sa - ca * dy + sa * dz + dy
        z_rot == yc * sa + pz * ca - sa * dy - ca * dz + dz
    IN  [x |-> xc + cf.pivot_x, y |-> y_rot + cf.pivot_y,
         z |-> z_rot + cf.pivot_z, a |-> p.a, c |-> p.c]

\* mutation: the inverse rotation of A with the old "sc * dy" term
TransformToCartesianOldDy(m, cf, t) ==
    IF FastPath(m) THEN m
    ELSE
    LET sa == Sin(m.a)  ca == Cos(m.a)  sc == Sin(m.c)  cc == Cos(m.c)
        dy == cf.axis_offset_y
        dz == cf.axis_offset_z + t
        px == m.x - cf.pivot_x
        py == m.y - dy - cf.pivot_y
        pz == m.z - dz - cf.pivot_z
        yt == ca * py + sa * pz + sc * dy
        zi == -sa * py + ca * pz + dz
        xi == cc * px + sc * yt
        yi == -sc * px + cc * yt
    IN  [x |-> xi + cf.pivot_x, y |-> yi + cf.pivot_y,
         z |-> zi + cf.pivot_z + t, a |-> m.a, c |-> m.c]

\* Steps 1 to 4 of transform_to_cartesian with the given sin/cos values
ForwardWith(m, cf, t, sa, ca, sc, cc) ==
    LET dy == cf.axis_offset_y
        dz == cf.axis_offset_z + t
        px == m.x - cf.pivot_x
        py == m.y - dy - cf.pivot_y
        pz == m.z - dz - cf.pivot_z
        yt == ca * py + sa * pz + dy
        zi == -sa * py + ca * pz + dz
        xi == cc * px + sc * yt
        yi == -sc * px + cc * yt
    IN  [x |-> xi + cf.pivot_x, y |-> yi + cf.pivot_y,
         z |-> zi + cf.pivot_z + t, a |-> m.a, c |-> m.c]

\* transform_to_cartesian: fast path, else the inverse rotations computed
\* with local sin/cos (never the cache), TLO restored on Z
transform_to_cartesian(m, cf, t) ==
    IF FastPath(m) THEN m
    ELSE ForwardWith(m, cf, t, Sin(m.a), Cos(m.a), Sin(m.c), Cos(m.c))

\* the inverse transform computed with the exact trigonometry of p's angles
InverseExact(p, cf, t) ==
    IF FastPath(p) THEN p
    ELSE InverseWith(p, cf, t, Sin(p.a), Cos(p.a), Sin(p.c), Cos(p.c))

-----------------------------------------------------------------------------
(* The cache *)

\* rtcp = {0} at power-up
EmptyCache == [cache_valid |-> FALSE, last_a |-> 0, last_c |-> 0,
               sin_a |-> 0, cos_a |-> 0, sin_c |-> 0, cos_c |-> 0]

\* invalidate_cache
invalidate_cache(k) == [k EXCEPT !.cache_valid = FALSE]

\* mutation: the cache is refreshed on a change of A only
UpdateTrigCacheAOnly(k, a, c) ==
    IF ~k.cache_valid \/ a # k.last_a
    THEN [cache_valid |-> TRUE, last_a |-> a, last_c |-> c,
          sin_a |-> Sin(a), cos_a |-> Cos(a), sin_c |-> Sin(c), cos_c |-> Cos(c)]
    ELSE k

\* update_trig_cache: recompute unless valid and both angles unchanged
update_trig_cache(k, a, c) ==
    IF ~k.cache_valid \/ a # k.last_a \/ c # k.last_c
    THEN [cache_valid |-> TRUE, last_a |-> a, last_c |-> c,
          sin_a |-> Sin(a), cos_a |-> Cos(a), sin_c |-> Sin(c), cos_c |-> Cos(c)]
    ELSE k

\* transform_from_cartesian through the cache k: the cache after the call
TrigCacheAfter(p, k) ==
    IF FastPath(p) THEN k ELSE update_trig_cache(k, p.a, p.c)

\* transform_from_cartesian: fast path, else update_trig_cache and steps 1
\* to 4 computed with the cached sin/cos
transform_from_cartesian(p, k, cf, t) ==
    IF FastPath(p) THEN p
    ELSE LET u == update_trig_cache(k, p.a, p.c)
         IN  InverseWith(p, cf, t, u.sin_a, u.cos_a, u.sin_c, u.cos_c)

\* transform_steps_to_cartesian once the steps are in mm: identity when RTCP
\* is off, else the forward transform
transform_steps_to_cartesian(m, on, cf, t) ==
    IF ~on THEN m ELSE transform_to_cartesian(m, cf, t)

=============================================================================
