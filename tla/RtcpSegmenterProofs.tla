------------------------ MODULE RtcpSegmenterProofs ------------------------
(***************************************************************************)
(* Proofs, for every value of the constants, of the type invariant and of  *)
(* the segment invariants of RtcpSegmenter that MC_RtcpSegmenter checks on *)
(* a small instance.                                                       *)
(***************************************************************************)
EXTENDS RtcpSegmenter, TLAPS

\* The type invariant strengthened by the two facts NextSegment needs to
\* stay well typed: inside mc_line's loop iterations has not reached 0
\* (so iterations - 1 is a natural number), and while a subdivided move has
\* segments to advance, segment_target is a waypoint (so .k exists).
TypeInv ==
    /\ TypeOK
    /\ phase = "segmenting" => iterations >= 1
    /\ segmented /\ iterations > 1 => segment_target \in Waypoints

\* Inside mc_line's loop the segments planned so far plus the iterations
\* left add up to nseg + 1: the pre-increment of iterations at init.
CountInv == phase = "segmenting" => count + iterations = nseg + 1

\* every accepted block was given at least one segment at init
NsegInv == block.valid => 1 <= nseg

\* During an RTCP move the statics of rtcp_segment_line still describe the
\* host's block: the saved final target is the block's target, and while a
\* subdivided move has segments to advance segment_target is the waypoint
\* of the last planned segment.
RtcpStaticsInv ==
    phase = "segmenting" /\ block.rtcp =>
        /\ final_target = block.target
        /\ segmented /\ iterations > 1 => segment_target = Waypoint(block.id, count)
        /\ ~segmented => nseg = 1

\* a block the loop left without a cancel planned all its segments
DoneInv == phase = "idle" /\ block.valid /\ ~jog_cancel => count = nseg

\* mc_line only loops over an accepted block
LoopValid == block.valid \/ phase = "idle"

\* The inductive invariant behind SegmentBound, RtcpSegmentsOnPath and
\* RtcpMoveEndsAtTarget.
IInv ==
    /\ TypeInv
    /\ CountInv
    /\ NsegInv
    /\ SegmentBound
    /\ RtcpStaticsInv
    /\ DoneInv
    /\ LoopValid
    /\ RtcpSegmentsOnPath

-----------------------------------------------------------------------------
USE ConstantsAssumption

\* the facts about points every step needs
LEMMA PointTypes ==
    /\ \A p \in TcpPoints : transform_from_cartesian(p) \in JointPoints
    /\ \A p \in TcpPoints : Raw(p) \in JointPoints
    /\ \A m \in MoveIds, k \in Nat : Waypoint(m, k) \in Waypoints
    /\ Waypoints \subseteq TcpPoints
    /\ Targets \cup {Origin} \subseteq TcpPoints
BY DEF transform_from_cartesian, Raw, JointPoints, Waypoint, Waypoints,
       TcpPoints

\* the segment counts the chord heuristic and the clamp can produce
LEMMA ClampRange ==
    \A e \in ErrSteps : ClampIterations(ChordIterations(e)) \in 1..MaxSegments
BY DEF ClampIterations, ChordIterations, ErrSteps

\* the power-up values of rtcp.c's statics are well typed
LEMMA InitTypeInv == Init => TypeInv
<1>1. Raw(Origin) \in JointPoints /\ Origin \in TcpPoints
  BY PointTypes
<1>2. [id |-> 0, target |-> Origin, jog |-> FALSE, rapid |-> FALSE,
       rtcp |-> FALSE, valid |-> FALSE] \in Blocks
  BY DEF Blocks, MoveIds
<1>3. ASSUME Init PROVE TypeOK
  <2>1. /\ rtcp_enabled \in BOOLEAN /\ jog_cancel \in BOOLEAN
        /\ segmented \in BOOLEAN /\ distance \in BOOLEAN /\ feed_comp \in BOOLEAN
    BY <1>3 DEF Init
  <2>2. /\ iterations \in Nat /\ count \in Nat /\ nseg \in Nat
        /\ moves \in MoveIds
    BY <1>3 DEF Init, MoveIds
  <2>3. /\ final_target \in Targets \cup {Origin} /\ segment_target \in TcpPoints
        /\ mpos \in JointPoints /\ last_motors \in JointPoints
        /\ position \in JointPoints
    BY <1>1, <1>3 DEF Init
  <2>4. phase \in {"idle", "segmenting"} /\ block \in Blocks
    BY <1>2, <1>3 DEF Init
  <2>. QED
    BY <2>1, <2>2, <2>3, <2>4 DEF TypeOK
<1>. QED
  BY <1>3 DEF Init, TypeInv

\* No step of mc_line's loop, of the M-codes or of the jog-cancel handler
\* leaves the types of rtcp.c's statics.
LEMMA TypeInvStep == TypeInv /\ [Next]_vars => TypeInv'
<1> SUFFICES ASSUME TypeInv, [Next]_vars PROVE TypeInv'
  OBVIOUS
<1>1. ASSUME NEW t \in Targets, NEW jog \in BOOLEAN, NEW rapid \in BOOLEAN,
             NEW pre_valid \in BOOLEAN,
             StartMove(t, jog, rapid, pre_valid)
      PROVE TypeInv'
  <2>1. moves' \in MoveIds
    BY <1>1 DEF StartMove, TypeInv, TypeOK, MoveIds
  <2>2. block' \in Blocks
    <3>1. moves + 1 \in MoveIds
      BY <1>1 DEF StartMove, TypeInv, TypeOK, MoveIds
    <3>2. (pre_valid \/ t \in InEnvelope) \in BOOLEAN /\ rtcp_enabled \in BOOLEAN
      BY DEF TypeInv, TypeOK
    <3>. QED
      BY <1>1, <3>1, <3>2, Zenon DEF StartMove, Blocks
  <2>3. /\ phase' \in {"idle", "segmenting"}
        /\ count' \in Nat
        /\ jog_cancel' \in BOOLEAN
    BY <1>1 DEF StartMove
  <2>4. CASE InitBypass(t)
    <3>0. t \in TcpPoints
      BY PointTypes
    <3>a. mpos' \in JointPoints
      BY <2>4, <3>0, PointTypes DEF InitBypass
    <3>b. iterations' \in Nat /\ nseg' \in Nat /\ segmented' \in BOOLEAN
      BY <2>4 DEF InitBypass
    <3>c. UNCHANGED <<distance, final_target, segment_target, last_motors>>
      BY <2>4 DEF InitBypass
    <3>d. (phase' = "segmenting" => iterations' >= 1)
          /\ ~(segmented' /\ iterations' > 1)
      BY <2>4 DEF InitBypass
    <3>1. /\ mpos' \in JointPoints
          /\ iterations' \in Nat /\ nseg' \in Nat /\ segmented' \in BOOLEAN
          /\ UNCHANGED <<distance, final_target, segment_target, last_motors>>
          /\ (phase' = "segmenting" => iterations' >= 1)
          /\ ~(segmented' /\ iterations' > 1)
      BY <3>a, <3>b, <3>c, <3>d
    <3>. QED
      BY <1>1, <2>1, <2>2, <2>3, <3>1 DEF StartMove, TypeInv, TypeOK
  <2>5. CASE InitRtcp(t, moves + 1)
    <3>1. moves + 1 \in MoveIds
      BY <1>1 DEF StartMove, TypeInv, TypeOK, MoveIds
    <3>2. /\ iterations' \in Nat /\ nseg' \in Nat /\ segmented' \in BOOLEAN
          /\ segment_target' \in TcpPoints
          /\ (segmented' /\ iterations' > 1 => segment_target' \in Waypoints)
          /\ iterations' >= 1
      <4>1. PICK seg \in IF NoRotation(t) THEN {FALSE} ELSE BOOLEAN :
              /\ segmented' = seg
              /\ IF seg
                 THEN \E e \in ErrSteps :
                        LET n == ClampIterations(ChordIterations(e)) IN
                        /\ iterations' = n + 1
                        /\ nseg' = n
                        /\ segment_target' = Waypoint(moves + 1, 0)
                 ELSE /\ iterations' = 1 + 1
                      /\ nseg' = 1
                      /\ segment_target' = t
        BY <2>5 DEF InitRtcp
      <4>2. seg \in BOOLEAN
        BY <4>1
      <4>3. CASE seg
        <5>1. PICK e \in ErrSteps :
                /\ iterations' = ClampIterations(ChordIterations(e)) + 1
                /\ nseg' = ClampIterations(ChordIterations(e))
                /\ segment_target' = Waypoint(moves + 1, 0)
          BY <4>1, <4>3
        <5>2. ClampIterations(ChordIterations(e)) \in 1..MaxSegments
          BY ClampRange
        <5>3. segment_target' \in Waypoints
          BY <5>1, <3>1, PointTypes
        <5>. QED
          BY <4>1, <4>2, <5>1, <5>2, <5>3, PointTypes
      <4>4. CASE ~seg
        <5>1. t \in TcpPoints
          BY PointTypes
        <5>. QED
          BY <4>1, <4>2, <4>4, <5>1
      <4>. QED
        BY <4>3, <4>4
    <3>3. /\ final_target' \in Targets \cup {Origin}
          /\ mpos' \in JointPoints /\ last_motors' \in JointPoints
          /\ distance' \in BOOLEAN
      BY <2>5, PointTypes DEF InitRtcp, TypeInv, TypeOK
    <3>4. phase' = "segmenting" => iterations' >= 1
      BY <3>2
    <3>. QED
      BY <1>1, <2>1, <2>2, <2>3, <3>2, <3>3, <3>4 DEF StartMove, TypeInv, TypeOK
  <2>. QED
    BY <1>1, <2>4, <2>5 DEF StartMove
<1>2. CASE NextSegment
  <2>. DEFINE it == iterations - 1
              st == IF segmented /\ it > 1
                    THEN Waypoint(segment_target.move, segment_target.k + 1)
                    ELSE final_target
  <2>1. it \in Nat
    BY <1>2 DEF NextSegment, TypeInv, TypeOK
  <2>2. st \in TcpPoints /\ (segmented /\ it > 1 => st \in Waypoints)
    <3>1. CASE segmented /\ it > 1
      <4>1. segment_target \in Waypoints
        BY <3>1 DEF TypeInv, TypeOK
      <4>2. segment_target.move \in MoveIds /\ segment_target.k + 1 \in Nat
        BY <4>1 DEF Waypoints
      <4>3. Waypoint(segment_target.move, segment_target.k + 1) \in Waypoints
        BY <4>2, PointTypes
      <4>. QED
        BY <3>1, <4>3, PointTypes
    <3>2. CASE ~(segmented /\ it > 1)
      BY <3>2, PointTypes DEF TypeInv, TypeOK
    <3>. QED
      BY <3>1, <3>2
  <2>3. /\ iterations' = it /\ segment_target' = st
        /\ mpos' = transform_from_cartesian(st)
        /\ last_motors' = transform_from_cartesian(st)
        /\ UNCHANGED <<rtcp_enabled, jog_cancel, segmented, distance,
                       final_target, block, moves, nseg>>
    BY <1>2 DEF NextSegment
  <2>4. /\ phase' \in {"idle", "segmenting"}
        /\ position' \in JointPoints
        /\ count' \in Nat
        /\ feed_comp' \in BOOLEAN
        /\ (phase' = "segmenting" => it >= 1)
    BY <1>2, <2>2, PointTypes DEF NextSegment, TypeInv, TypeOK
  <2>. QED
    BY <2>1, <2>2, <2>3, <2>4, PointTypes DEF TypeInv, TypeOK
<1>3. CASE JogCancel
  BY <1>3 DEF JogCancel, TypeInv, TypeOK
<1>4. CASE M450
  BY <1>4 DEF M450, TypeInv, TypeOK
<1>5. CASE M451
  BY <1>5 DEF M451, TypeInv, TypeOK
<1>6. CASE UNCHANGED vars
  BY <1>6 DEF vars, TypeInv, TypeOK
<1>. QED
  BY <1>1, <1>2, <1>3, <1>4, <1>5, <1>6 DEF Next

\* Type correctness of the segmenter and its host, from the strengthened
\* invariant TypeInv: no step of mc_line's loop, of the M-codes or of the
\* jog-cancel handler leaves the types of rtcp.c's statics.
THEOREM TypeCorrect == Spec => []TypeOK
<1>1. Init => TypeInv
  BY InitTypeInv
<1>2. TypeInv /\ [Next]_vars => TypeInv'
  BY TypeInvStep
<1>3. TypeInv => TypeOK
  BY DEF TypeInv
<1>. QED
  BY <1>1, <1>2, <1>3, PTL DEF Spec

-----------------------------------------------------------------------------
\* the init call leaves the statics describing the new block: its segment
\* count, the iterations left and, on the RTCP path, its target and start
LEMMA StartMoveStatics ==
    ASSUME TypeInv, NEW t \in Targets, NEW jog \in BOOLEAN,
           NEW rapid \in BOOLEAN, NEW pre_valid \in BOOLEAN,
           StartMove(t, jog, rapid, pre_valid)
    PROVE  /\ nseg' \in 1..MaxSegments
           /\ iterations' = nseg' + 1
           /\ block'.rtcp =>
                 /\ final_target' = t
                 /\ segmented' => segment_target' = Waypoint(moves + 1, 0)
                 /\ ~segmented' => nseg' = 1
<1>1. CASE InitBypass(t)
  <2>1. block'.rtcp = FALSE
    BY <1>1 DEF StartMove, InitBypass
  <2>2. nseg' = 1 /\ iterations' = 2
    BY <1>1 DEF InitBypass
  <2>. QED
    BY <2>1, <2>2
<1>2. CASE InitRtcp(t, moves + 1)
  <2>1. PICK seg \in IF NoRotation(t) THEN {FALSE} ELSE BOOLEAN :
          /\ segmented' = seg
          /\ IF seg
             THEN \E e \in ErrSteps :
                    LET n == ClampIterations(ChordIterations(e)) IN
                    /\ iterations' = n + 1
                    /\ nseg' = n
                    /\ segment_target' = Waypoint(moves + 1, 0)
             ELSE /\ iterations' = 1 + 1
                  /\ nseg' = 1
                  /\ segment_target' = t
    BY <1>2 DEF InitRtcp
  <2>2. final_target' = t
    BY <1>2 DEF InitRtcp
  <2>3. CASE seg
    <3>1. PICK e \in ErrSteps :
            /\ iterations' = ClampIterations(ChordIterations(e)) + 1
            /\ nseg' = ClampIterations(ChordIterations(e))
            /\ segment_target' = Waypoint(moves + 1, 0)
      BY <2>1, <2>3
    <3>2. ClampIterations(ChordIterations(e)) \in 1..MaxSegments
      BY ClampRange
    <3>. QED
      BY <2>1, <2>2, <2>3, <3>1, <3>2
  <2>4. CASE ~seg
    BY <2>1, <2>2, <2>4
  <2>. QED
    BY <2>3, <2>4
<1>. QED
  BY <1>1, <1>2 DEF StartMove

\* Init establishes the inductive invariant.
LEMMA InitIInv == Init => IInv
<1> SUFFICES ASSUME Init PROVE IInv
  OBVIOUS
<1>1. TypeInv
  BY InitTypeInv
<1>2. count = 0 /\ nseg = 0 /\ phase = "idle" /\ ~block.valid /\ ~block.rtcp
  BY DEF Init
<1>. QED
  BY <1>1, <1>2 DEF IInv, CountInv, NsegInv, SegmentBound, RtcpStaticsInv,
                    DoneInv, LoopValid, RtcpSegmentsOnPath

\* Every step of mc_line, of the produce calls, of the M-codes and of the
\* jog-cancel handler preserves the inductive invariant.
LEMMA IInvStep == IInv /\ [Next]_vars => IInv'
<1> SUFFICES ASSUME IInv, [Next]_vars PROVE IInv'
  OBVIOUS
<1>0. TypeInv'
  BY TypeInvStep DEF IInv
<1>1. ASSUME NEW t \in Targets, NEW jog \in BOOLEAN, NEW rapid \in BOOLEAN,
             NEW pre_valid \in BOOLEAN,
             StartMove(t, jog, rapid, pre_valid)
      PROVE IInv'
  <2>1. /\ nseg' \in 1..MaxSegments
        /\ iterations' = nseg' + 1
        /\ block'.rtcp =>
              /\ final_target' = t
              /\ segmented' => segment_target' = Waypoint(moves + 1, 0)
              /\ ~segmented' => nseg' = 1
    BY <1>1, StartMoveStatics DEF IInv
  <2>2. /\ count' = 0
        /\ block'.id = moves + 1 /\ block'.target = t
        /\ phase' = IF block'.valid THEN "segmenting" ELSE "idle"
    BY <1>1 DEF StartMove
  <2>3. CountInv' /\ NsegInv' /\ SegmentBound' /\ LoopValid'
    BY <2>1, <2>2 DEF CountInv, NsegInv, SegmentBound, LoopValid
  <2>4. RtcpStaticsInv'
    BY <2>1, <2>2 DEF RtcpStaticsInv
  <2>5. DoneInv' /\ RtcpSegmentsOnPath'
    BY <2>2 DEF DoneInv, RtcpSegmentsOnPath
  <2>. QED
    BY <1>0, <2>3, <2>4, <2>5 DEF IInv
<1>2. CASE NextSegment
  <2>. DEFINE it == iterations - 1
              st == IF segmented /\ it > 1
                    THEN Waypoint(segment_target.move, segment_target.k + 1)
                    ELSE final_target
  <2>1. /\ phase = "segmenting"
        /\ iterations' = it /\ segment_target' = st
        /\ UNCHANGED <<jog_cancel, segmented, final_target, block, nseg>>
    BY <1>2 DEF NextSegment
  <2>2. /\ iterations \in Nat /\ count \in Nat /\ nseg \in Nat
        /\ iterations >= 1
        /\ count + iterations = nseg + 1
        /\ block.valid
    BY <2>1 DEF IInv, TypeInv, TypeOK, CountInv, LoopValid
  <2>3. CASE it = 0 \/ jog_cancel
    <3>1. phase' = "idle" /\ UNCHANGED <<position, count>>
      BY <1>2, <2>3 DEF NextSegment
    <3>2. jog_cancel = FALSE => count = nseg
      BY <2>2, <2>3
    <3>3. CountInv' /\ RtcpStaticsInv' /\ LoopValid'
      BY <3>1 DEF CountInv, RtcpStaticsInv, LoopValid
    <3>4. NsegInv' /\ SegmentBound' /\ DoneInv'
      BY <2>1, <2>2, <3>1, <3>2 DEF IInv, NsegInv, SegmentBound, DoneInv
    <3>5. RtcpSegmentsOnPath'
      BY <2>1, <3>1 DEF IInv, RtcpSegmentsOnPath
    <3>. QED
      BY <1>0, <3>3, <3>4, <3>5 DEF IInv
  <2>4. CASE ~(it = 0 \/ jog_cancel)
    <3>1. /\ phase' = "segmenting"
          /\ position' = transform_from_cartesian(st)
          /\ count' = count + 1
      BY <1>2, <2>4 DEF NextSegment
    <3>2. it >= 1 /\ count + 1 + it = nseg + 1
      BY <2>2, <2>4
    <3>3. CountInv' /\ SegmentBound' /\ NsegInv' /\ DoneInv' /\ LoopValid'
      BY <2>1, <2>2, <3>1, <3>2 DEF IInv, CountInv, SegmentBound, NsegInv,
                                    DoneInv, LoopValid
    \* the waypoint the produce call advances to is the next one of the block
    <3>4. block.rtcp /\ segmented /\ it > 1 => st = Waypoint(block.id, count + 1)
      <4>1. block.rtcp /\ segmented /\ it > 1 =>
              segment_target = Waypoint(block.id, count)
        BY <2>1, <2>2 DEF IInv, RtcpStaticsInv
      <4>. QED
        BY <4>1 DEF Waypoint
    <3>5. block.rtcp /\ ~(segmented /\ it > 1) =>
            /\ st = block.target
            /\ count + 1 = nseg
      <4>1. block.rtcp => final_target = block.target /\ (~segmented => nseg = 1)
        BY <2>1 DEF IInv, RtcpStaticsInv
      <4>. QED
        BY <2>2, <3>2, <4>1
    <3>6. RtcpStaticsInv'
      <4>. SUFFICES ASSUME block.rtcp
                    PROVE  /\ final_target = block.target
                           /\ segmented /\ it > 1 => st = Waypoint(block.id, count + 1)
                           /\ ~segmented => nseg = 1
        BY <2>1, <3>1 DEF RtcpStaticsInv
      <4>1. final_target = block.target /\ (~segmented => nseg = 1)
        BY <2>1 DEF IInv, RtcpStaticsInv
      <4>. QED
        BY <3>4, <4>1
    <3>7. RtcpSegmentsOnPath'
      <4>. SUFFICES ASSUME block.rtcp
                    PROVE  transform_from_cartesian(st) =
                             transform_from_cartesian(IF count + 1 = nseg
                                                      THEN block.target
                                                      ELSE Waypoint(block.id, count + 1))
        BY <2>1, <3>1 DEF RtcpSegmentsOnPath
      <4>1. CASE segmented /\ it > 1
        <5>1. st = Waypoint(block.id, count + 1) /\ count + 1 # nseg
          BY <2>2, <3>2, <3>4, <4>1
        <5>. QED
          BY <5>1
      <4>2. CASE ~(segmented /\ it > 1)
        <5>1. st = block.target /\ count + 1 = nseg
          BY <3>5, <4>2
        <5>. QED
          BY <5>1
      <4>. QED
        BY <4>1, <4>2
    <3>. QED
      BY <1>0, <3>3, <3>6, <3>7 DEF IInv
  <2>. QED
    BY <2>3, <2>4
<1>3. CASE JogCancel
  BY <1>0, <1>3 DEF JogCancel, IInv, CountInv, NsegInv, SegmentBound,
                    RtcpStaticsInv, DoneInv, LoopValid, RtcpSegmentsOnPath
<1>4. CASE M450
  BY <1>0, <1>4 DEF M450, IInv, CountInv, NsegInv, SegmentBound,
                    RtcpStaticsInv, DoneInv, LoopValid, RtcpSegmentsOnPath
<1>5. CASE M451
  BY <1>0, <1>5 DEF M451, IInv, CountInv, NsegInv, SegmentBound,
                    RtcpStaticsInv, DoneInv, LoopValid, RtcpSegmentsOnPath
<1>6. CASE UNCHANGED vars
  BY <1>0, <1>6 DEF vars, IInv, CountInv, NsegInv, SegmentBound,
                    RtcpStaticsInv, DoneInv, LoopValid, RtcpSegmentsOnPath
<1>. QED
  BY <1>1, <1>2, <1>3, <1>4, <1>5, <1>6 DEF Next

\* The segment invariants of mc_line's loop over rtcp_segment_line hold for
\* every value of the constants: the clamp bounds every block, every planned
\* segment of an RTCP move is the image of its waypoint and the last one of
\* the target, and a finished uncancelled RTCP move stands at its target.
THEOREM SegmentSafety ==
    Spec => [](SegmentBound /\ RtcpSegmentsOnPath /\ RtcpMoveEndsAtTarget)
<1>1. IInv => SegmentBound /\ RtcpSegmentsOnPath /\ RtcpMoveEndsAtTarget
  <2> SUFFICES ASSUME IInv PROVE RtcpMoveEndsAtTarget
    BY DEF IInv
  <2> SUFFICES ASSUME block.rtcp, block.valid, phase = "idle", ~jog_cancel
               PROVE  count = nseg /\ position = transform_from_cartesian(block.target)
    BY DEF RtcpMoveEndsAtTarget
  <2>1. count \in Nat /\ nseg \in Nat
    BY DEF IInv, TypeInv, TypeOK
  <2>2. count = nseg /\ 1 <= nseg
    BY DEF IInv, DoneInv, NsegInv
  <2>3. count > 0
    BY <2>1, <2>2
  <2>. QED
    BY <2>2, <2>3 DEF IInv, RtcpSegmentsOnPath
<1>2. Init => IInv
  BY InitIInv
<1>3. IInv /\ [Next]_vars => IInv'
  BY IInvStep
<1>. QED
  BY <1>1, <1>2, <1>3, PTL DEF Spec

\* Once on_jog_cancel_handler has set jog_cancel during mc_line's loop, no
\* step plans a further segment: the produce call returns NULL, and nothing
\* else moves the planned position.  No invariant is needed.
THEOREM CancelStopsPlanning == Spec => CancelHonoured
<1>1. [Next]_vars => [phase = "segmenting" /\ jog_cancel
                        => UNCHANGED <<position, count>>]_vars
  <2> SUFFICES ASSUME [Next]_vars, phase = "segmenting", jog_cancel
               PROVE  UNCHANGED <<position, count>>
    OBVIOUS
  <2>1. CASE \E t \in Targets, jog, rapid, pre_valid \in BOOLEAN :
                StartMove(t, jog, rapid, pre_valid)
    BY <2>1 DEF StartMove
  <2>2. CASE NextSegment
    BY <2>2 DEF NextSegment
  <2>3. CASE JogCancel \/ M450 \/ M451 \/ UNCHANGED vars
    BY <2>3 DEF JogCancel, M450, M451, vars
  <2>. QED
    BY <2>1, <2>2, <2>3 DEF Next
<1>. QED
  BY <1>1, PTL DEF Spec, CancelHonoured

-----------------------------------------------------------------------------
(* Refinement of MoveContract *)

\* a block started with RTCP off is given one segment at init
BypassInv == phase = "segmenting" /\ ~block.rtcp => nseg = 1

\* the invariant the refinement mapping needs
RefInv == IInv /\ BypassInv

\* the joint image of a waypoint is never the joint image of a target:
\* a waypoint is not flat, so it is rotated, and it is no target
LEMMA WaypointImageFresh ==
    ASSUME NEW m \in MoveIds, NEW k \in Nat, NEW p \in Targets \cup {Origin}
    PROVE  transform_from_cartesian(Waypoint(m, k)) # transform_from_cartesian(p)
<1>1. Waypoint(m, k) \in Waypoints
  BY PointTypes
<1>2. Waypoint(m, k) \notin Targets \cup {Origin}
  BY <1>1, WaypointsFresh
<1>3. transform_from_cartesian(Waypoint(m, k)) = [tcp |-> Waypoint(m, k)]
  BY <1>2 DEF transform_from_cartesian, IsFlat
<1>. QED
  BY <1>2, <1>3 DEF transform_from_cartesian, Raw

LEMMA InitRefInv == Init => RefInv
BY InitIInv DEF Init, RefInv, BypassInv

LEMMA RefInvStep == RefInv /\ [Next]_vars => RefInv'
<1> SUFFICES ASSUME RefInv, [Next]_vars PROVE RefInv'
  OBVIOUS
<1>1. IInv'
  BY IInvStep DEF RefInv
<1>2. ASSUME NEW t \in Targets, NEW jog \in BOOLEAN, NEW rapid \in BOOLEAN,
             NEW pre_valid \in BOOLEAN,
             StartMove(t, jog, rapid, pre_valid)
      PROVE BypassInv'
  <2>1. block'.rtcp = rtcp_enabled
    BY <1>2 DEF StartMove
  <2>2. CASE InitBypass(t)
    BY <2>2 DEF InitBypass, BypassInv
  <2>3. CASE InitRtcp(t, moves + 1)
    BY <2>1, <2>3 DEF InitRtcp, BypassInv
  <2>. QED
    BY <1>2, <2>2, <2>3 DEF StartMove
<1>3. ASSUME NextSegment PROVE BypassInv'
  BY <1>3 DEF NextSegment, RefInv, BypassInv
<1>4. ASSUME JogCancel \/ M450 \/ M451 \/ UNCHANGED vars PROVE BypassInv'
  BY <1>4 DEF JogCancel, M450, M451, vars, RefInv, BypassInv
<1>. QED
  BY <1>1, <1>2, <1>3, <1>4 DEF Next, RefInv

\* the power-up state is an initial state of the contract
LEMMA InitRefines == Init => Contract!Init
<1> SUFFICES ASSUME Init PROVE Contract!Init
  OBVIOUS
<1>1. block \in Contract!Blocks
  BY DEF Init, Contract!Blocks
<1>2. position \in JointPoints
  BY PointTypes DEF Init
<1>. QED
  BY <1>1, <1>2 DEF Init, Contract!Init

\* every step of mc_line, the segmenter, the cancel handler and the M-codes
\* is a step of the contract or leaves its variables alone
LEMMA StepRefines == RefInv /\ [Next]_vars => [Contract!Next]_Contract!vars
<1> SUFFICES ASSUME RefInv, [Next]_vars PROVE [Contract!Next]_Contract!vars
  OBVIOUS
<1>. USE DEF RefInv, IInv
<1>1. ASSUME NEW t \in Targets, NEW jog \in BOOLEAN, NEW rapid \in BOOLEAN,
             NEW pre_valid \in BOOLEAN,
             StartMove(t, jog, rapid, pre_valid)
      PROVE Contract!Next
  <2>1. Contract!Start(t, jog, rapid, pre_valid \/ t \in InEnvelope)
    BY <1>1 DEF StartMove, Contract!Start
  <2>. QED
    BY <2>1 DEF Contract!Next
<1>2. CASE NextSegment
  <2>1. PICK st :
          /\ st = IF segmented /\ iterations - 1 > 1
                  THEN Waypoint(segment_target.move, segment_target.k + 1)
                  ELSE final_target
          /\ phase = "segmenting"
          /\ IF iterations - 1 = 0 \/ jog_cancel
             THEN phase' = "idle" /\ UNCHANGED <<position, count>>
             ELSE /\ position' = transform_from_cartesian(st)
                  /\ count' = count + 1
                  /\ phase' = phase
          /\ UNCHANGED <<rtcp_enabled, jog_cancel, block, moves>>
    BY <1>2 DEF NextSegment
  <2>2. /\ count + iterations = nseg + 1 /\ iterations >= 1
        /\ count \in Nat /\ nseg \in Nat /\ iterations \in Nat
        /\ nseg <= MaxSegments /\ block.valid /\ 1 <= nseg
    BY <2>1 DEF CountInv, TypeInv, TypeOK, SegmentBound, LoopValid, NsegInv
  <2>3. CASE iterations - 1 = 0 \/ jog_cancel
    <3>1. jog_cancel \/ Contract!Arrived
      <4>1. CASE ~jog_cancel
        <5>1. count = nseg /\ count > 0
          BY <2>2, <2>3, <4>1
        <5>2. block.rtcp => position = transform_from_cartesian(block.target)
          BY <5>1 DEF RtcpSegmentsOnPath
        <5>3. ~block.rtcp => count = 1
          BY <2>1, <5>1 DEF BypassInv
        <5>. QED
          BY <5>2, <5>3, <5>1 DEF Contract!Arrived
      <4>. QED
        BY <4>1
    <3>2. Contract!Finish
      BY <2>1, <2>3, <3>1 DEF Contract!Finish
    <3>. QED
      BY <3>2 DEF Contract!Next
  <2>4. CASE ~(iterations - 1 = 0 \/ jog_cancel)
    <3>1. /\ position' = transform_from_cartesian(st) /\ count' = count + 1
          /\ phase' = phase /\ ~jog_cancel
          /\ count < nseg /\ iterations >= 2
      BY <2>1, <2>2, <2>4
    <3>2. CASE block.rtcp
      <4>1. ~Contract!Arrived
        <5>1. CASE count = 0
          BY <5>1 DEF Contract!Arrived
        <5>2. CASE count # 0
          <6>1. position = transform_from_cartesian(Waypoint(block.id, count))
            BY <2>2, <3>1, <3>2, <5>2 DEF RtcpSegmentsOnPath
          <6>2. block.id \in MoveIds /\ block.target \in Targets \cup {Origin}
            BY DEF TypeInv, TypeOK, Blocks
          <6>3. transform_from_cartesian(Waypoint(block.id, count))
                  # transform_from_cartesian(block.target)
            BY <2>2, <6>2, WaypointImageFresh
          <6>. QED
            BY <3>2, <6>1, <6>3 DEF Contract!Arrived
        <5>. QED
          BY <5>1, <5>2
      <4>2. final_target = block.target
        BY <2>1, <3>2 DEF RtcpStaticsInv
      <4>3. CASE segmented /\ iterations - 1 > 1
        <5>1. segment_target = Waypoint(block.id, count)
          BY <2>1, <2>2, <3>2, <4>3 DEF RtcpStaticsInv
        <5>2. st = Waypoint(block.id, count + 1)
          BY <2>1, <4>3, <5>1 DEF Waypoint
        <5>3. count + 1 < MaxSegments
          BY <2>2, <4>3
        <5>4. Contract!PlanWaypoint
          BY <2>1, <3>1, <3>2, <4>1, <5>2, <5>3 DEF Contract!PlanWaypoint
        <5>. QED
          BY <5>4 DEF Contract!Next
      <4>4. CASE ~(segmented /\ iterations - 1 > 1)
        <5>1. st = block.target
          BY <2>1, <4>2, <4>4
        <5>2. count < MaxSegments
          BY <2>2, <3>1
        <5>3. Contract!PlanTarget
          BY <2>1, <3>1, <3>2, <4>1, <5>1, <5>2 DEF Contract!PlanTarget
        <5>. QED
          BY <5>3 DEF Contract!Next
      <4>. QED
        BY <4>3, <4>4
    <3>3. CASE ~block.rtcp
      <4>1. count = 0
        BY <2>1, <2>2, <3>1, <3>3 DEF BypassInv
      <4>2. st = final_target
        BY <2>1, <2>2, <3>1, <3>3, <4>1 DEF BypassInv
      <4>3. transform_from_cartesian(st) \in JointPoints
        BY <4>2, PointTypes DEF TypeInv, TypeOK
      <4>4. Contract!PlanBypass
        BY <2>1, <3>1, <3>3, <4>1, <4>3 DEF Contract!PlanBypass
      <4>. QED
        BY <4>4 DEF Contract!Next
    <3>. QED
      BY <3>2, <3>3
  <2>. QED
    BY <2>3, <2>4
<1>3. CASE JogCancel
  BY <1>3 DEF JogCancel, Contract!Cancel, Contract!Next
<1>4. CASE M450
  <2>1. Contract!SetMode(FALSE)
    BY <1>4 DEF M450, Contract!SetMode
  <2>. QED
    BY <2>1 DEF Contract!Next
<1>5. CASE M451
  <2>1. Contract!SetMode(TRUE)
    BY <1>5 DEF M451, Contract!SetMode
  <2>. QED
    BY <2>1 DEF Contract!Next
<1>6. CASE UNCHANGED vars
  BY <1>6 DEF vars, Contract!vars
<1>. QED
  BY <1>1, <1>2, <1>3, <1>4, <1>5, <1>6 DEF Next

\* rtcp_segment_line and mc_line's loop implement MoveContract for every
\* value of the constants: whatever the chord estimate, the clamp and the
\* interleaving of jog cancels and M-codes, the points planned for a block
\* are those of the contract, with the statics of the segmenter hidden.
THEOREM SegmenterRefinement == Spec => ImplementsMoveContract
<1>1. Spec => []RefInv
  BY InitRefInv, RefInvStep, PTL DEF Spec
<1>. QED
  BY <1>1, InitRefines, StepRefines, PTL DEF Spec, ImplementsMoveContract,
     Contract!Spec

=============================================================================
