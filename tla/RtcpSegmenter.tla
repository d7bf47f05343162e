--------------------------- MODULE RtcpSegmenter ---------------------------
(***************************************************************************)
(* The line segmenter of the 5-axis RTCP kinematics (rtcp_segment_line in  *)
(* src/src/grbl/kinematics/rtcp.c) together with the state it shares with  *)
(* the rest of the module: the RTCP mode flag switched by M450/M451 and    *)
(* the jog-cancel flag set asynchronously by on_jog_cancel_handler.        *)
(*                                                                         *)
(* The host side (grblHAL's mc_line: one init call, then produce calls     *)
(* until NULL, each returned point handed to the planner) is not in this   *)
(* repository; it is modelled from the loop documented in rtcp.c's header  *)
(* and from the spec.                                                      *)
(*                                                                         *)
(* Data abstraction.  Coordinates are not computed.  A Cartesian (TCP)     *)
(* point is a requested target, the power-up zero vector Origin, or the    *)
(* k-th accumulated waypoint of move m (segment_target after k additions   *)
(* of delta), which float rounding keeps distinct from the move's target.  *)
(* A joint point is either a verbatim copy of a TCP point (the identity    *)
(* fast path or a bypass copy) or the rotated image of one.  The chord-    *)
(* error estimate is the nondeterministic value ceilf(sqrtf(err / tol)).   *)
(***************************************************************************)
EXTENDS Naturals

CONSTANTS
    Targets,       \* Cartesian targets a motion block may request
    FlatTargets,   \* targets with |A| < 0.001 and |C| < 0.001 degrees
    InEnvelope,    \* targets whose joint point passes check_travel_limits
    Origin,        \* the zero vector held by the static arrays at power-up
    MaxSegments,   \* the iteration clamp of rtcp_segment_line (2000)
    MaxErrSteps,   \* the largest ceilf(sqrtf(err / tol)) a move can produce
    MaxMoves       \* motion blocks started in one behaviour

ASSUME ConstantsAssumption ==
    /\ FlatTargets \subseteq Targets
    /\ InEnvelope \subseteq Targets
    /\ Origin \notin Targets
    /\ MaxSegments \in Nat \ {0}
    /\ MaxErrSteps \in Nat
    /\ MaxMoves \in Nat

VARIABLES
    (* module state of rtcp.c *)
    rtcp_enabled,    \* static bool rtcp_enabled
    jog_cancel,      \* static volatile bool jog_cancel
    (* static locals of rtcp_segment_line *)
    iterations,      \* segments left + 1
    segmented,       \* the move is subdivided
    distance,        \* distance > 0.0001: the TCP distance per segment is not nil
    final_target,    \* Cartesian end point of the last RTCP move
    segment_target,  \* Cartesian point of the current segment
    mpos,            \* joint point returned to the host
    last_motors,     \* joint point of the previous segment
    (* host: mc_line and the planner *)
    phase,           \* "idle" or "segmenting" (inside the while loop of mc_line)
    block,           \* the motion block mc_line is executing
    position,        \* joint position of the last planned segment
    count,           \* segments of the current block handed to the planner
    feed_comp,       \* the last planned segment had its feed rate compensated
    moves,           \* blocks started so far
    nseg             \* segments decided at init (history variable)

vars == <<rtcp_enabled, jog_cancel, iterations, segmented, distance,
          final_target, segment_target, mpos, last_motors, phase, block,
          position, count, feed_comp, moves, nseg>>

-----------------------------------------------------------------------------
(* Points *)

MoveIds == 0..MaxMoves

\* segment_target after k additions of delta during move m
Waypoint(m, k) == [move |-> m, k |-> k]

Waypoints == [move : MoveIds, k : Nat]

\* an accumulated waypoint is never a requested target nor the zero vector:
\* the targets are the blocks' programmed points, the waypoints their
\* rounded accumulations
ASSUME WaypointsFresh == (Targets \cup {Origin}) \cap Waypoints = {}

TcpPoints == Targets \cup {Origin} \cup Waypoints

\* |A| < 0.001 and |C| < 0.001: a waypoint lies on a rotating move
IsFlat(p) == p \in FlatTargets \cup {Origin}

\* a joint point whose coordinates are those of the TCP point p
Raw(p) == [raw |-> p]

JointPoints == [raw : TcpPoints] \cup [tcp : TcpPoints]

\* transform_from_cartesian: identity fast path, else pivot rotation
transform_from_cartesian(p) == IF IsFlat(p) THEN Raw(p) ELSE [tcp |-> p]

Blocks == [id : MoveIds, target : Targets \cup {Origin}, jog : BOOLEAN,
           rapid : BOOLEAN, rtcp : BOOLEAN, valid : BOOLEAN]

-----------------------------------------------------------------------------
(* The chord-error segment count *)

\* iterations = ceilf(sqrtf(err / tol)) * 2 when err > tol, else 1;
\* e = 0 stands for err <= tol, and err > tol gives ceilf(sqrtf(..)) >= 2
ChordIterations(e) == IF e = 0 THEN 1 ELSE 2 * e

ErrSteps == {0} \cup (2..MaxErrSteps)

\* mutation: the clamp without its upper bound
ClampIterationsNoUpper(n) == IF n < 1 THEN 1 ELSE n

\* the safety clamp to [1, 2000]
ClampIterations(n) ==
    IF n < 1 THEN 1 ELSE IF n > MaxSegments THEN MaxSegments ELSE n

\* the move's start and end both lie on A = C = 0: max_rot <= 0.001
NoRotation(t) ==
    /\ IsFlat(t)
    /\ position \in {Raw(p) : p \in FlatTargets \cup {Origin}}

-----------------------------------------------------------------------------
TypeOK ==
    /\ rtcp_enabled \in BOOLEAN
    /\ jog_cancel \in BOOLEAN
    /\ iterations \in Nat
    /\ segmented \in BOOLEAN
    /\ distance \in BOOLEAN
    /\ final_target \in Targets \cup {Origin}
    /\ segment_target \in TcpPoints
    /\ mpos \in JointPoints
    /\ last_motors \in JointPoints
    /\ phase \in {"idle", "segmenting"}
    /\ block \in Blocks
    /\ position \in JointPoints
    /\ count \in Nat
    /\ feed_comp \in BOOLEAN
    /\ moves \in MoveIds
    /\ nseg \in Nat

Init ==
    /\ rtcp_enabled = FALSE
    /\ jog_cancel = FALSE
    /\ iterations = 0
    /\ segmented = FALSE
    /\ distance = FALSE
    /\ final_target = Origin
    /\ segment_target = Origin
    /\ mpos = Raw(Origin)
    /\ last_motors = Raw(Origin)
    /\ phase = "idle"
    /\ block = [id |-> 0, target |-> Origin, jog |-> FALSE,
                rapid |-> FALSE, rtcp |-> FALSE, valid |-> FALSE]
    /\ position = Raw(Origin)
    /\ count = 0
    /\ feed_comp = FALSE
    /\ moves = 0
    /\ nseg = 0

-----------------------------------------------------------------------------
(* rtcp_segment_line(target, position, pl_data, true), called by mc_line.  *)
(* pre_valid is pl_data->condition.target_validated set by the caller (it  *)
(* then also set target_valid); otherwise the segmenter validates the end  *)
(* point and mc_line's limits_soft_check aborts an invalid move.           *)

\* mutation: the bypass hands back the Cartesian target instead of a joint copy
InitBypassCopyTarget(t) ==
    /\ ~rtcp_enabled
    /\ mpos' = t
    /\ iterations' = 2
    /\ segmented' = FALSE
    /\ nseg' = 1
    /\ UNCHANGED <<distance, final_target, segment_target, last_motors>>

\* the bypass branch: identity copy of the target, two iterations
InitBypass(t) ==
    /\ ~rtcp_enabled
    /\ mpos' = Raw(t)
    /\ iterations' = 2
    /\ segmented' = FALSE
    /\ nseg' = 1
    /\ UNCHANGED <<distance, final_target, segment_target, last_motors>>

\* the RTCP branch: transform, chord-error segmentation, pre-increment
InitRtcp(t, m) ==
    /\ rtcp_enabled
    /\ final_target' = t
    /\ mpos' = transform_from_cartesian(t)
    /\ last_motors' = position
    /\ distance' \in IF position = transform_from_cartesian(t)
                     THEN {FALSE} ELSE BOOLEAN
    /\ \E seg \in IF NoRotation(t) THEN {FALSE} ELSE BOOLEAN :
          /\ segmented' = seg
          /\ IF seg
             THEN \E e \in ErrSteps :
                    LET n == ClampIterations(ChordIterations(e)) IN
                    /\ iterations' = n + 1
                    /\ nseg' = n
                    /\ segment_target' = Waypoint(m, 0)
             ELSE /\ iterations' = 1 + 1
                  /\ nseg' = 1
                  /\ segment_target' = t

\* mutation: init does not clear a cancel left over from an earlier jog
StartMoveKeepCancel(t, jog, rapid, pre_valid) ==
    /\ phase = "idle"
    /\ moves < MaxMoves
    /\ moves' = moves + 1
    /\ UNCHANGED jog_cancel
    /\ \/ InitBypass(t)
       \/ InitRtcp(t, moves + 1)
    /\ block' = [id |-> moves + 1, target |-> t, jog |-> jog, rapid |-> rapid,
                 rtcp |-> rtcp_enabled, valid |-> pre_valid \/ t \in InEnvelope]
    /\ phase' = IF block'.valid THEN "segmenting" ELSE "idle"
    /\ count' = 0
    /\ UNCHANGED <<rtcp_enabled, position, feed_comp>>

StartMove(t, jog, rapid, pre_valid) ==
    /\ phase = "idle"
    /\ moves < MaxMoves
    /\ moves' = moves + 1
    /\ jog_cancel' = FALSE
    /\ \/ InitBypass(t)
       \/ InitRtcp(t, moves + 1)
    /\ block' = [id |-> moves + 1, target |-> t, jog |-> jog, rapid |-> rapid,
                 rtcp |-> rtcp_enabled, valid |-> pre_valid \/ t \in InEnvelope]
    /\ phase' = IF block'.valid THEN "segmenting" ELSE "idle"
    /\ count' = 0
    /\ UNCHANGED <<rtcp_enabled, position, feed_comp>>

\* mutation: the last segment still advances the waypoint
NextSegmentAdvanceLast ==
    LET it   == iterations - 1
        st   == IF segmented /\ it > 0
                THEN Waypoint(segment_target.move, segment_target.k + 1)
                ELSE final_target
        q    == transform_from_cartesian(st)
        comp == ~block.rapid /\ distance
    IN
    /\ phase = "segmenting"
    /\ iterations' = it
    /\ segment_target' = st
    /\ mpos' = q
    /\ last_motors' = q
    /\ IF it = 0 \/ jog_cancel
       THEN /\ phase' = "idle"
            /\ UNCHANGED <<position, count, feed_comp>>
       ELSE /\ position' = q
            /\ count' = count + 1
            /\ feed_comp' = comp
            /\ UNCHANGED phase
    /\ UNCHANGED <<rtcp_enabled, jog_cancel, segmented, distance,
                   final_target, block, moves, nseg>>

\* mutation: the produce call does not test jog_cancel
NextSegmentIgnoreCancel ==
    LET it   == iterations - 1
        st   == IF segmented /\ it > 1
                THEN Waypoint(segment_target.move, segment_target.k + 1)
                ELSE final_target
        q    == transform_from_cartesian(st)
        comp == ~block.rapid /\ distance
    IN
    /\ phase = "segmenting"
    /\ iterations' = it
    /\ segment_target' = st
    /\ mpos' = q
    /\ last_motors' = q
    /\ IF it = 0
       THEN /\ phase' = "idle"
            /\ UNCHANGED <<position, count, feed_comp>>
       ELSE /\ position' = q
            /\ count' = count + 1
            /\ feed_comp' = comp
            /\ UNCHANGED phase
    /\ UNCHANGED <<rtcp_enabled, jog_cancel, segmented, distance,
                   final_target, block, moves, nseg>>

\* mutation: the loop ends one call early
NextSegmentStopEarly ==
    LET it   == iterations - 1
        st   == IF segmented /\ it > 1
                THEN Waypoint(segment_target.move, segment_target.k + 1)
                ELSE final_target
        q    == transform_from_cartesian(st)
        comp == ~block.rapid /\ distance
    IN
    /\ phase = "segmenting"
    /\ iterations' = it
    /\ segment_target' = st
    /\ mpos' = q
    /\ last_motors' = q
    /\ IF it <= 1 \/ jog_cancel
       THEN /\ phase' = "idle"
            /\ UNCHANGED <<position, count, feed_comp>>
       ELSE /\ position' = q
            /\ count' = count + 1
            /\ feed_comp' = comp
            /\ UNCHANGED phase
    /\ UNCHANGED <<rtcp_enabled, jog_cancel, segmented, distance,
                   final_target, block, moves, nseg>>

(* rtcp_segment_line(target, NULL, pl_data, false) and, when it returns a  *)
(* point, plan_buffer_line of that point with the compensated feed rate.   *)
NextSegment ==
    LET it   == iterations - 1
        st   == IF segmented /\ it > 1
                THEN Waypoint(segment_target.move, segment_target.k + 1)
                ELSE final_target
        q    == transform_from_cartesian(st)
        comp == ~block.rapid /\ distance
    IN
    /\ phase = "segmenting"
    /\ iterations' = it
    /\ segment_target' = st
    /\ mpos' = q
    /\ last_motors' = q
    /\ IF it = 0 \/ jog_cancel
       THEN /\ phase' = "idle"
            /\ UNCHANGED <<position, count, feed_comp>>
       ELSE /\ position' = q
            /\ count' = count + 1
            /\ feed_comp' = comp
            /\ UNCHANGED phase
    /\ UNCHANGED <<rtcp_enabled, jog_cancel, segmented, distance,
                   final_target, block, moves, nseg>>

\* mutation: the cancel flag is also raised while a G-code move runs
JogCancelUnguarded ==
    /\ jog_cancel' = TRUE
    /\ UNCHANGED <<rtcp_enabled, iterations, segmented, distance,
                   final_target, segment_target, mpos, last_motors, phase,
                   block, position, count, feed_comp, moves, nseg>>

\* on_jog_cancel_handler: only while a jog is the active motion
JogCancel ==
    /\ block.jog
    /\ jog_cancel' = TRUE
    /\ UNCHANGED <<rtcp_enabled, iterations, segmented, distance,
                   final_target, segment_target, mpos, last_motors, phase,
                   block, position, count, feed_comp, moves, nseg>>

(* rtcp_mcode_execute; user_mcode_sync makes the parser wait for an empty  *)
(* buffer, so a mode change never falls inside mc_line's loop.             *)
M450 ==
    /\ phase = "idle"
    /\ rtcp_enabled' = FALSE
    /\ UNCHANGED <<jog_cancel, iterations, segmented, distance, final_target,
                   segment_target, mpos, last_motors, phase, block, position,
                   count, feed_comp, moves, nseg>>

M451 ==
    /\ phase = "idle"
    /\ rtcp_enabled' = TRUE
    /\ UNCHANGED <<jog_cancel, iterations, segmented, distance, final_target,
                   segment_target, mpos, last_motors, phase, block, position,
                   count, feed_comp, moves, nseg>>

Next ==
    \/ \E t \in Targets, jog, rapid, pre_valid \in BOOLEAN :
          StartMove(t, jog, rapid, pre_valid)
    \/ NextSegment
    \/ JogCancel
    \/ M450
    \/ M451

\* mc_line keeps calling segment_line until it returns NULL
Spec == Init /\ [][Next]_vars /\ WF_vars(NextSegment)

-----------------------------------------------------------------------------
(* Properties *)

\* The clamp of rtcp_segment_line bounds every move, whatever the chord-error
\* estimate: mc_line never plans more than MaxSegments segments for a block.
SegmentBound ==
    /\ nseg <= MaxSegments
    /\ count <= nseg

\* During an RTCP move the k-th segment handed to the planner is the joint
\* image of the k-th accumulated waypoint, and the last one (k = nseg) is the
\* image of the programmed target itself, not of the rounded accumulation.
RtcpSegmentsOnPath ==
    block.rtcp /\ count > 0 =>
        position = transform_from_cartesian(IF count = nseg
                                            THEN block.target
                                            ELSE Waypoint(block.id, count))

\* An accepted RTCP move that mc_line finished without a jog cancel has
\* planned all its segments and left the machine at the joint image of the
\* target (the pre-increment of iterations makes the last one happen).
RtcpMoveEndsAtTarget ==
    block.rtcp /\ block.valid /\ phase = "idle" /\ ~jog_cancel =>
        /\ count = nseg
        /\ position = transform_from_cartesian(block.target)

\* Once on_jog_cancel_handler has set jog_cancel, the next segment_line call
\* returns NULL: no further segment of the move reaches the planner.
CancelHonoured ==
    [][phase = "segmenting" /\ jog_cancel => UNCHANGED <<position, count>>]_vars

\* Every accepted RTCP G-code move (no jog, so nothing cancels it) is
\* eventually planned up to its target, given that mc_line keeps calling.
RtcpMoveCompletes ==
    (phase = "segmenting" /\ block.rtcp /\ ~block.jog)
        ~> (position = transform_from_cartesian(block.target))

\* What mc_line obtains from rtcp_segment_line for each block, with the
\* statics of the segmenter hidden: an RTCP block is planned through its
\* waypoints' images in order and ends on its exact target's image within
\* the clamp, a bypass block is one segment, and the loop ends only on
\* arrival or a jog cancel.
Contract == INSTANCE MoveContract WITH
    Points <- Targets \cup {Origin},
    JointPts <- JointPoints,
    Image <- transform_from_cartesian,
    Way <- Waypoint

\* rtcp_segment_line and mc_line's loop implement MoveContract
ImplementsMoveContract == Contract!Spec

\* With RTCP off the segmenter is the identity: the one segment of a move is
\* the target itself, at the programmed feed rate (spec 4.4 and 8.3).
IdentityMovePassesThrough ==
    ~block.rtcp /\ count > 0 => position = Raw(block.target) /\ ~feed_comp

=============================================================================
