--------------------------- MODULE SegmentEnvelope ---------------------------
(***************************************************************************)
(* The RTCP branch of rtcp_segment_line (src/src/grbl/kinematics/rtcp.c)   *)
(* on concrete moves: the init call (validity of the joint image of the    *)
(* target, the forward transform of the current joints, the chord-error    *)
(* test at the TCP midpoint, delta and the iteration count) and the        *)
(* produce calls that hand each waypoint's joint image to the planner,     *)
(* all computed with the transforms of RtcpTransforms and the joint-frame  *)
(* check of rtcp_check_travel_limits.  The joint path between two planned  *)
(* points is a straight line of the motors, inside the box-shaped envelope *)
(* whenever both ends are; whether the motors stay inside the envelope is  *)
(* therefore whether every planned point does.                             *)
(*                                                                         *)
(* Data abstraction.  Only moves whose midpoint and waypoints lie on the   *)
(* integer / quarter-turn grid are taken (the guard Exact), so that every  *)
(* sum, halving and division by the iteration count of the code is exact.  *)
(* The iteration clamp is the constant MaxSegments.  The feed-rate         *)
(* compensation and jog_cancel do not affect the points planned and are    *)
(* left to RtcpSegmenter.                                                  *)
(***************************************************************************)
EXTENDS RtcpTransforms

CONSTANTS
    EnvMin,       \* sys.work_envelope.min, per axis
    EnvMax,       \* sys.work_envelope.max, per axis
    Homed,        \* the axes in sys.homed.mask
    MaxSegments,  \* the iteration clamp of rtcp_segment_line (2000)
    MaxMoves      \* motion blocks started in one behaviour

AxisNames == {"x", "y", "z", "a", "c"}

Linear == {"x", "y", "z"}

ASSUME EnvelopeAssumption ==
    /\ EnvMin \in [AxisNames -> Int]
    /\ EnvMax \in [AxisNames -> Int]
    /\ Homed \subseteq AxisNames
    /\ MaxSegments \in Nat \ {0}
    /\ MaxMoves \in Nat

VARIABLES
    cfg,             \* rtcp.cfg
    tlo,             \* the tool length offset on Z
    cache,           \* the trigonometric cache
    iterations,      \* static uint_fast16_t iterations
    segmented,       \* static bool segmented
    delta,           \* static coord_data_t delta
    segment_target,  \* static coord_data_t segment_target (TCP)
    final_target,    \* static coord_data_t final_target (TCP)
    mpos,            \* static coord_data_t mpos (joints)
    phase,           \* mc_line: "idle" or "segmenting"
    position,        \* joints of the last point handed to the planner
    moves            \* blocks started so far

vars == <<cfg, tlo, cache, iterations, segmented, delta, segment_target,
          final_target, mpos, phase, position, moves>>

-----------------------------------------------------------------------------
\* rtcp_check_travel_limits(q, axes, false, envelope) with RTCP on: the
\* joints q (memcpy branch) against the envelope on every homed axis of the
\* mask; the native Cartesian check is skipped for a joint point
rtcp_check_travel_limits(q, axes) ==
    \A ax \in Homed \cap axes : EnvMin[ax] <= q[ax] /\ q[ax] <= EnvMax[ax]

\* grbl.check_travel_limits(mpos.values, sys.soft_limits, false, ...)
JointValid(q) == rtcp_check_travel_limits(q, AxisNames)

\* mutation: init validates the Cartesian target instead of its joints
InitCheckTarget(t, q) == JointValid(t)

\* the end-point validation of init: the joints of the target
InitCheck(t, q) == JointValid(q)

\* component-wise a + b and a - b of two N_AXIS vectors
Plus(p, d)  == [x |-> p.x + d.x, y |-> p.y + d.y, z |-> p.z + d.z,
                a |-> p.a + d.a, c |-> p.c + d.c]
Minus(p, q) == [x |-> p.x - q.x, y |-> p.y - q.y, z |-> p.z - q.z,
                a |-> p.a - q.a, c |-> p.c - q.c]

\* "delta.values[idx] /= (float)iterations" on every axis
DivideBy(d, n) == [x |-> d.x \div n, y |-> d.y \div n, z |-> d.z \div n,
                   a |-> d.a \div n, c |-> d.c \div n]

\* the TCP midpoint (segment_target + final_target) * 0.5f
Midpoint(p, q) == DivideBy(Plus(p, q), 2)

\* every coordinate of d divides by n onto the integer / quarter-turn grid
Exact(d, n) == /\ \A ax \in Linear : d[ax] % n = 0
               /\ \A ax \in {"a", "c"} : d[ax] % (90 * n) = 0

AbsVal(v) == IF v < 0 THEN -v ELSE v

\* 4 * err_sq: the squared distance, over X, Y and Z, between twice the true
\* joint midpoint and the sum of the start and end joints
FourErrSq(mreal, qs, qe) ==
    LET dd(ax) == 2 * mreal[ax] - (qs[ax] + qe[ax]) IN
    dd("x") * dd("x") + dd("y") * dd("y") + dd("z") * dd("z")

\* the chord tolerance in hundredths of a millimetre: MAX_CHORD_ERROR_G0_MM
\* (0.5) for G0, MAX_CHORD_ERROR_MM (0.01) otherwise
TolHundredths(rapid) == IF rapid THEN 50 ELSE 1

\* "err_sq > tol * tol ? ceilf(sqrtf(err / tol)) * 2 : 1" with e4 = 4 err_sq;
\* err_sq > tol^2 is e4 > 4 T^2 / 10^4, and ceilf(sqrtf(err / tol)) is the
\* least m with T^2 m^4 >= 2500 e4, sought up to the clamp (beyond it any
\* value is clamped alike); both sides are divided out to stay in 32 bits
ChordIterations(e4, rapid) ==
    LET T  == TolHundredths(rapid)
        ms == {m \in 1..MaxSegments : e4 <= (T * T * m * m * m * m) \div 2500}
    IN  IF e4 <= (4 * T * T) \div 10000 THEN 1
        ELSE IF ms = {} THEN 2 * MaxSegments
        ELSE 2 * (CHOOSE m \in ms : \A k \in ms : m <= k)

\* the safety clamp to [1, 2000]
ClampIterations(n) ==
    IF n < 1 THEN 1 ELSE IF n > MaxSegments THEN MaxSegments ELSE n

-----------------------------------------------------------------------------
Origin == [x |-> 0, y |-> 0, z |-> 0, a |-> 0, c |-> 0]

\* coord_data_t delta: the per-segment step; a rotating move of one segment
\* steps by the whole difference of two angles, which is no quarter turn
Steps == [x : Int, y : Int, z : Int, a : Int, c : Int]

TypeOK ==
    /\ cfg \in Cfgs
    /\ tlo \in Tlos
    /\ cache \in Caches
    /\ iterations \in 0..(MaxSegments + 1)
    /\ segmented \in BOOLEAN
    /\ delta \in Steps
    /\ segment_target \in Vectors
    /\ final_target \in Vectors
    /\ mpos \in Vectors
    /\ phase \in {"idle", "segmenting"}
    /\ position \in Vectors
    /\ moves \in 0..MaxMoves

\* the machine at rest, homed, at the joints of a point inside the envelope
Init ==
    /\ cfg \in Cfgs
    /\ tlo \in Tlos
    /\ cache = EmptyCache
    /\ iterations = 0
    /\ segmented = FALSE
    /\ delta = Origin
    /\ segment_target = Origin
    /\ final_target = Origin
    /\ mpos = Origin
    /\ phase = "idle"
    /\ position \in {q \in {InverseExact(p, cfg, tlo) : p \in Points} :
                       JointValid(q)}
    /\ moves = 0

-----------------------------------------------------------------------------
(* rtcp_segment_line(t, position, pl_data, true) with RTCP on, called by   *)
(* mc_line; an invalid end point makes limits_soft_check abort the block.  *)
StartMove(t, rapid) ==
    LET qe   == transform_from_cartesian(t, cache, cfg, tlo)
        k1   == TrigCacheAfter(t, cache)
        st   == transform_to_cartesian(position, cfg, tlo)
        d    == Minus(t, st)
        seg  == AbsVal(d.a) > 0 \/ AbsVal(d.c) > 0
        mid  == Midpoint(st, t)
        mr   == transform_from_cartesian(mid, k1, cfg, tlo)
        n    == IF seg
                THEN ClampIterations(ChordIterations(FourErrSq(mr, position, qe), rapid))
                ELSE 1
    IN
    /\ phase = "idle"
    /\ moves < MaxMoves
    /\ seg => Exact(d, 2) /\ Exact(d, n)
    /\ moves' = moves + 1
    /\ final_target' = t
    /\ mpos' = qe
    /\ segmented' = seg
    /\ iterations' = n + 1
    /\ delta' = IF seg THEN DivideBy(d, n) ELSE d
    /\ segment_target' = IF seg THEN st ELSE t
    /\ cache' = IF seg THEN TrigCacheAfter(mid, k1) ELSE k1
    /\ phase' = IF InitCheck(t, qe) THEN "segmenting" ELSE "idle"
    /\ UNCHANGED <<cfg, tlo, position>>

\* mutation: NULL tested on the counter before its decrement, as in
\* carteciana.c's "iterations-- == 0"
NextSegmentPreDecrementTest ==
    LET it == iterations - 1
        st == IF segmented /\ it > 1 THEN Plus(segment_target, delta)
              ELSE final_target
        q  == transform_from_cartesian(st, cache, cfg, tlo)
    IN
    /\ phase = "segmenting"
    /\ iterations' = it
    /\ segment_target' = st
    /\ mpos' = q
    /\ cache' = TrigCacheAfter(st, cache)
    /\ IF iterations = 0
       THEN /\ phase' = "idle"
            /\ UNCHANGED position
       ELSE /\ position' = q
            /\ UNCHANGED phase
    /\ UNCHANGED <<cfg, tlo, segmented, delta, final_target, moves>>

(* rtcp_segment_line(target, NULL, pl_data, false) and, when it returns a  *)
(* point, plan_buffer_line of that point                                   *)
NextSegment ==
    LET it == iterations - 1
        st == IF segmented /\ it > 1 THEN Plus(segment_target, delta)
              ELSE final_target
        q  == transform_from_cartesian(st, cache, cfg, tlo)
    IN
    /\ phase = "segmenting"
    /\ iterations' = it
    /\ segment_target' = st
    /\ mpos' = q
    /\ cache' = TrigCacheAfter(st, cache)
    /\ IF it = 0
       THEN /\ phase' = "idle"
            /\ UNCHANGED position
       ELSE /\ position' = q
            /\ UNCHANGED phase
    /\ UNCHANGED <<cfg, tlo, segmented, delta, final_target, moves>>

Next ==
    \/ \E t \in Points, rapid \in BOOLEAN : StartMove(t, rapid)
    \/ NextSegment

Spec == Init /\ [][Next]_vars /\ WF_vars(NextSegment)

-----------------------------------------------------------------------------
(* Properties *)

\* The end point validation of init (rtcp.c 1116-1120) is about the point
\* the last produce call plans: whenever mc_line is between blocks, the
\* joints the machine was driven to lie inside the envelope.
EndsInEnvelope == phase = "idle" => JointValid(position)

\* Every joint point a move hands to the planner lies inside the envelope,
\* so that soft limits hold along the whole move, not only at its end.
SegmentsInEnvelope == JointValid(position)

=============================================================================
