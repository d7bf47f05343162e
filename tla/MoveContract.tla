---------------------------- MODULE MoveContract ----------------------------
(***************************************************************************)
(* What mc_line obtains from kinematics.segment_line for one motion block, *)
(* seen only through the joint positions it hands to the planner: an RTCP *)
(* block is planned as the images of its waypoints, in order, then the     *)
(* image of its exact target, in at most MaxSegments segments; a block     *)
(* started with RTCP off is planned as one segment; the loop ends only     *)
(* once the block has arrived or a jog cancel was raised.  The statics of  *)
(* the segmenter (iterations, segmented, final_target, segment_target ...) *)
(* do not appear: they are how the segmenter keeps these promises.        *)
(***************************************************************************)
EXTENDS Naturals

CONSTANTS
    Targets,       \* Cartesian targets a motion block may request
    InEnvelope,    \* targets whose joint point passes the travel-limit check
    Points,        \* every Cartesian point a block can name
    JointPts,      \* joint points
    MaxSegments,   \* segments a block may take at most
    MaxMoves,      \* motion blocks started in one behaviour
    Image(_),      \* the joint point of a Cartesian point with RTCP on
    Way(_, _)      \* Way(m, k): the k-th intermediate point of block m

VARIABLES
    rtcp_enabled,  \* the RTCP mode (M450/M451)
    jog_cancel,    \* a jog cancel was raised during the current block
    block,         \* the block mc_line is executing
    phase,         \* "idle" or "segmenting"
    position,      \* joint position of the last planned segment
    count,         \* segments of the block planned so far
    moves          \* blocks started so far

vars == <<rtcp_enabled, jog_cancel, block, phase, position, count, moves>>

Blocks == [id : 0..MaxMoves, target : Points, jog : BOOLEAN,
           rapid : BOOLEAN, rtcp : BOOLEAN, valid : BOOLEAN]

\* the block has planned all it will plan: its target's image, or its one
\* bypass segment
Arrived ==
    IF block.rtcp THEN count > 0 /\ position = Image(block.target)
    ELSE count = 1

Init ==
    /\ rtcp_enabled = FALSE
    /\ jog_cancel = FALSE
    /\ block \in Blocks /\ ~block.valid
    /\ phase = "idle"
    /\ position \in JointPts
    /\ count = 0
    /\ moves = 0

\* a block is accepted when the caller validated it, and always when its
\* target is inside the envelope; the mode is the one at the block's start
Start(t, jog, rapid, valid) ==
    /\ phase = "idle"
    /\ moves < MaxMoves
    /\ t \in InEnvelope => valid
    /\ moves' = moves + 1
    /\ jog_cancel' = FALSE
    /\ block' = [id |-> moves + 1, target |-> t, jog |-> jog, rapid |-> rapid,
                 rtcp |-> rtcp_enabled, valid |-> valid]
    /\ phase' = IF valid THEN "segmenting" ELSE "idle"
    /\ count' = 0
    /\ UNCHANGED <<rtcp_enabled, position>>

\* the next intermediate point of an RTCP block, leaving room for the target
PlanWaypoint ==
    /\ phase = "segmenting" /\ ~jog_cancel /\ block.rtcp /\ ~Arrived
    /\ count + 1 < MaxSegments
    /\ position' = Image(Way(block.id, count + 1))
    /\ count' = count + 1
    /\ UNCHANGED <<rtcp_enabled, jog_cancel, block, phase, moves>>

\* the exact target of an RTCP block, as its last segment
PlanTarget ==
    /\ phase = "segmenting" /\ ~jog_cancel /\ block.rtcp /\ ~Arrived
    /\ count < MaxSegments
    /\ position' = Image(block.target)
    /\ count' = count + 1
    /\ UNCHANGED <<rtcp_enabled, jog_cancel, block, phase, moves>>

\* the one segment of a block started with RTCP off, to some joint point
PlanBypass ==
    /\ phase = "segmenting" /\ ~jog_cancel /\ ~block.rtcp /\ count = 0
    /\ position' \in JointPts
    /\ count' = 1
    /\ UNCHANGED <<rtcp_enabled, jog_cancel, block, phase, moves>>

\* the loop of mc_line ends: the block arrived, or a jog was cancelled
Finish ==
    /\ phase = "segmenting"
    /\ jog_cancel \/ Arrived
    /\ phase' = "idle"
    /\ UNCHANGED <<rtcp_enabled, jog_cancel, block, position, count, moves>>

Cancel ==
    /\ block.jog
    /\ jog_cancel' = TRUE
    /\ UNCHANGED <<rtcp_enabled, block, phase, position, count, moves>>

\* M450 / M451, only between blocks
SetMode(on) ==
    /\ phase = "idle"
    /\ rtcp_enabled' = on
    /\ UNCHANGED <<jog_cancel, block, phase, position, count, moves>>

Next ==
    \/ \E t \in Targets, jog, rapid, valid \in BOOLEAN : Start(t, jog, rapid, valid)
    \/ PlanWaypoint \/ PlanTarget \/ PlanBypass \/ Finish \/ Cancel
    \/ \E on \in BOOLEAN : SetMode(on)

Spec == Init /\ [][Next]_vars

=============================================================================
