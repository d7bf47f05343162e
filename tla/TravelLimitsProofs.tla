------------------------- MODULE TravelLimitsProofs -------------------------
(***************************************************************************)
(* Proofs, for every number of bisection iterations, every axis set and    *)
(* every geometry of the jog, that rtcp_apply_travel_limits stays within   *)
(* the jog's grid and never hands an invalid destination to a jog that     *)
(* starts from a valid position.                                           *)
(***************************************************************************)
EXTENDS TravelLimits, TLAPS

USE TravelAssumption, SpanPositive

\* The loop invariant of the bisection: best is the lower bound, which is
\* the (valid) position or a midpoint found valid; a returned clip leaves a
\* valid destination whenever the position is valid.
ClipInv ==
    /\ TypeOK
    /\ pc = "loop" => /\ best = start
                      /\ start = 0 \/ Valid(start)
    /\ pc = "done" /\ has_position /\ Valid(0) => Valid(target)

-----------------------------------------------------------------------------
\* the midpoint of two grid positions is a grid position
LEMMA MidInGrid ==
    ASSUME NEW s \in Grid, NEW e \in Grid
    PROVE  (s + e) \div 2 \in Grid
BY DEF Grid

\* with no axis homed every point passes the check
LEMMA NothingHomedValid ==
    ASSUME homed = {}, NEW g
    PROVE  Valid(g)
BY DEF Valid, rtcp_check_travel_limits, orig_check_travel_limits

LEMMA InitClipInv == Init => ClipInv
<1> SUFFICES ASSUME Init PROVE ClipInv
  OBVIOUS
<1>1. path \in [Grid -> Pts]
  BY DEF Init
<1>2. TypeOK
  BY <1>1 DEF Init, TypeOK, Grid
<1>. QED
  BY <1>2 DEF Init, ClipInv

LEMMA ClipInvStep == ClipInv /\ [Next]_vars => ClipInv'
<1> SUFFICES ASSUME ClipInv, [Next]_vars PROVE ClipInv'
  OBVIOUS
<1>1. CASE ApplyCall
  <2>1. UNCHANGED <<rtcp_enabled, homed, path, has_position, target>>
    BY <1>1 DEF ApplyCall
  <2>2. CASE homed = {} \/ ~has_position \/ Valid(target)
    <3>1. pc' = "done" /\ UNCHANGED <<start, end, best, i>>
      BY <1>1, <2>2 DEF ApplyCall
    <3>2. has_position /\ Valid(0) => Valid(target)
      BY <2>2, NothingHomedValid
    <3>3. Valid(target)' = Valid(target)
      BY <2>1 DEF Valid, rtcp_check_travel_limits, orig_check_travel_limits
    <3>4. Valid(0)' = Valid(0)
      BY <2>1 DEF Valid, rtcp_check_travel_limits, orig_check_travel_limits
    <3>. QED
      BY <2>1, <3>1, <3>2, <3>3, <3>4 DEF ClipInv, TypeOK
  <2>3. CASE ~(homed = {} \/ ~has_position \/ Valid(target))
    <3>1. start' = 0 /\ end' = target /\ best' = 0 /\ i' = 0 /\ pc' = "loop"
      BY <1>1, <2>3 DEF ApplyCall
    <3>. QED
      BY <2>1, <3>1 DEF ClipInv, TypeOK, Grid
  <2>. QED
    BY <2>2, <2>3
<1>2. CASE BisectStep
  <2>. DEFINE mid == (start + end) \div 2
  <2>1. /\ pc = "loop" /\ i < BisectionIterations /\ i' = i + 1
        /\ UNCHANGED <<rtcp_enabled, homed, path, has_position, target, pc>>
    BY <1>2 DEF BisectStep
  <2>2. mid \in Grid
    BY MidInGrid DEF ClipInv, TypeOK
  <2>3. CASE Valid(mid)
    <3>1. best' = mid /\ start' = mid /\ end' = end
      BY <1>2, <2>3 DEF BisectStep
    <3>2. Valid(start)'
      BY <2>1, <2>3, <3>1 DEF Valid, rtcp_check_travel_limits, orig_check_travel_limits
    <3>. QED
      BY <2>1, <2>2, <3>1, <3>2 DEF ClipInv, TypeOK
  <2>4. CASE ~Valid(mid)
    <3>1. end' = mid /\ start' = start /\ best' = best
      BY <1>2, <2>4 DEF BisectStep
    <3>2. Valid(start)' = Valid(start)
      BY <2>1, <3>1 DEF Valid, rtcp_check_travel_limits, orig_check_travel_limits
    <3>. QED
      BY <2>1, <2>2, <3>1, <3>2 DEF ClipInv, TypeOK
  <2>. QED
    BY <2>3, <2>4
<1>3. CASE ApplyFinish
  <2>1. /\ pc = "loop" /\ target' = best /\ pc' = "done"
        /\ UNCHANGED <<rtcp_enabled, homed, path, has_position, start, end, best, i>>
    BY <1>3 DEF ApplyFinish
  <2>2. Valid(best)' = Valid(best) /\ Valid(0)' = Valid(0)
    BY <2>1 DEF Valid, rtcp_check_travel_limits, orig_check_travel_limits
  <2>3. Valid(0) => Valid(best)
    BY <2>1 DEF ClipInv
  <2>. QED
    BY <2>1, <2>2, <2>3 DEF ClipInv, TypeOK
<1>4. CASE UNCHANGED vars
  <2>1. Valid(target)' = Valid(target) /\ Valid(0)' = Valid(0)
        /\ Valid(start)' = Valid(start)
    BY <1>4 DEF vars, Valid, rtcp_check_travel_limits, orig_check_travel_limits
  <2>. QED
    BY <1>4, <2>1 DEF vars, ClipInv, TypeOK
<1>. QED
  BY <1>1, <1>2, <1>3, <1>4 DEF Next

\* For every number of iterations, every axis configuration and every
\* geometry of the jog, rtcp_apply_travel_limits keeps its bounds on the
\* jog's grid and clips a jog that starts from a valid position to a valid
\* destination (spec 8.7, first half).
THEOREM ClipSafety == Spec => [](TypeOK /\ ClipKeepsValid)
<1>1. ClipInv => TypeOK /\ ClipKeepsValid
  BY DEF ClipInv, ClipKeepsValid
<1>. QED
  BY <1>1, InitClipInv, ClipInvStep, PTL DEF Spec

-----------------------------------------------------------------------------
(* Refinement of the JogClip contract *)

\* ClipInv with the bracket of the loop: the loop only runs on an enforced
\* check of an invalid destination, and the lower bound stays strictly
\* before the destination, so the clip moves the destination back.
RefInv ==
    /\ ClipInv
    /\ pc = "call" => target = Span
    /\ pc = "loop" => /\ homed # {} /\ has_position /\ ~Valid(target)
                      /\ start <= end /\ end <= target /\ start < target

\* the validity of a point depends only on state the clip never changes
LEMMA ValidFrame ==
    ASSUME NEW g, UNCHANGED <<rtcp_enabled, homed, path>>
    PROVE  Valid(g)' = Valid(g)
BY DEF Valid, rtcp_check_travel_limits, orig_check_travel_limits

LEMMA InitRefInv == Init => RefInv
BY InitClipInv DEF Init, RefInv

LEMMA RefInvStep == RefInv /\ [Next]_vars => RefInv'
<1> SUFFICES ASSUME RefInv, [Next]_vars PROVE RefInv'
  OBVIOUS
<1>0. ClipInv'
  BY ClipInvStep DEF RefInv
<1>1. CASE ApplyCall
  <2>1. UNCHANGED <<rtcp_enabled, homed, path, has_position, target>>
    BY <1>1 DEF ApplyCall
  <2>2. Valid(target)' = Valid(target)
    BY <2>1, ValidFrame
  <2>3. CASE homed = {} \/ ~has_position \/ Valid(target)
    BY <1>0, <1>1, <2>3 DEF ApplyCall, RefInv
  <2>4. CASE ~(homed = {} \/ ~has_position \/ Valid(target))
    <3>1. start' = 0 /\ end' = target /\ pc' = "loop"
      BY <1>1, <2>4 DEF ApplyCall
    <3>2. target = Span /\ Span \in Nat \ {0}
      BY <1>1, SpanPositive DEF ApplyCall, RefInv
    <3>. QED
      BY <1>0, <2>1, <2>2, <2>4, <3>1, <3>2 DEF RefInv
  <2>. QED
    BY <2>3, <2>4
<1>2. CASE BisectStep
  <2> DEFINE mid == (start + end) \div 2
  <2>1. /\ pc = "loop" /\ pc' = "loop"
        /\ UNCHANGED <<rtcp_enabled, homed, path, has_position, target>>
    BY <1>2 DEF BisectStep
  <2>2. Valid(target)' = Valid(target)
    BY <2>1, ValidFrame
  <2>3. start \in Nat /\ end \in Nat /\ target \in Nat
    BY DEF RefInv, ClipInv, TypeOK, Grid
  <2>4. start <= end /\ end <= target /\ start < target
    BY <2>1 DEF RefInv
  <2>5. start <= mid /\ mid <= end /\ mid < target
    BY <2>3, <2>4
  <2>6. \/ start' = mid /\ end' = end
        \/ start' = start /\ end' = mid
    BY <1>2 DEF BisectStep
  <2>7. start' <= end' /\ end' <= target' /\ start' < target'
    BY <2>1, <2>3, <2>4, <2>5, <2>6
  <2>8. homed' # {} /\ has_position' /\ ~Valid(target)'
    BY <2>1, <2>2 DEF RefInv
  <2>. QED
    BY <1>0, <2>1, <2>7, <2>8 DEF RefInv
<1>3. CASE ApplyFinish
  BY <1>0, <1>3 DEF ApplyFinish, RefInv
<1>4. CASE UNCHANGED vars
  <2>1. Valid(target)' = Valid(target)
    BY <1>4, ValidFrame DEF vars
  <2>. QED
    BY <1>0, <1>4, <2>1 DEF vars, RefInv
<1>. QED
  BY <1>1, <1>2, <1>3, <1>4 DEF Next

\* the clip's state seen through the refinement mapping
LEMMA OkFrame ==
    ASSUME UNCHANGED <<rtcp_enabled, homed, path>>
    PROVE  [g \in Grid |-> Valid(g)]' = [g \in Grid |-> Valid(g)]
BY ValidFrame

LEMMA InitRefines == Init => JC!Init
<1> SUFFICES ASSUME Init PROVE JC!Init
  OBVIOUS
<1>1. [g \in Grid |-> Valid(g)] \in [0..Span -> BOOLEAN]
  BY DEF Grid, Valid, rtcp_check_travel_limits, orig_check_travel_limits
<1>. QED
  BY <1>1 DEF Init, JC!Init

LEMMA StepRefines == RefInv /\ [Next]_vars => [JC!Clip]_JC!vars
<1> SUFFICES ASSUME RefInv, [Next]_vars PROVE [JC!Clip]_JC!vars
  OBVIOUS
<1>1. CASE ApplyCall
  <2>1. UNCHANGED <<rtcp_enabled, homed, path, has_position, target>>
    BY <1>1 DEF ApplyCall
  <2>2. [g \in Grid |-> Valid(g)]' = [g \in Grid |-> Valid(g)]
    BY <2>1, OkFrame
  <2>3. CASE homed = {} \/ ~has_position \/ Valid(target)
    <3>1. pc = "call" /\ pc' = "done"
      BY <1>1, <2>3 DEF ApplyCall
    <3>2. target \in Grid
      BY DEF RefInv, ClipInv, TypeOK
    <3>3. ~(homed # {} /\ has_position) \/ [g \in Grid |-> Valid(g)][target]
      BY <2>3, <3>2
    <3>. QED
      BY <2>1, <2>2, <3>1, <3>3 DEF JC!Clip
  <2>4. CASE ~(homed = {} \/ ~has_position \/ Valid(target))
    <3>1. pc = "call" /\ pc' = "loop"
      BY <1>1, <2>4 DEF ApplyCall
    <3>. QED
      BY <2>1, <2>2, <3>1 DEF JC!vars
  <2>. QED
    BY <2>3, <2>4
<1>2. CASE BisectStep
  <2>1. /\ pc = "loop" /\ pc' = "loop"
        /\ UNCHANGED <<rtcp_enabled, homed, path, has_position, target>>
    BY <1>2 DEF BisectStep
  <2>2. [g \in Grid |-> Valid(g)]' = [g \in Grid |-> Valid(g)]
    BY <2>1, OkFrame
  <2>. QED
    BY <2>1, <2>2 DEF JC!vars
<1>3. CASE ApplyFinish
  <2>1. /\ pc = "loop" /\ target' = best /\ pc' = "done"
        /\ UNCHANGED <<rtcp_enabled, homed, path, has_position>>
    BY <1>3 DEF ApplyFinish
  <2>2. [g \in Grid |-> Valid(g)]' = [g \in Grid |-> Valid(g)]
    BY <2>1, OkFrame
  <2>3. /\ homed # {} /\ has_position /\ ~Valid(target)
        /\ best = start /\ start < target /\ start \in Grid /\ target \in Grid
        /\ (start = 0 \/ Valid(start))
    BY <2>1 DEF RefInv, ClipInv, TypeOK
  <2>4. 0 \in Grid
    BY SpanPositive DEF Grid
  <2>5. best \in {h \in 0..(target - 1) :
                    [g \in Grid |-> Valid(g)][0] => [g \in Grid |-> Valid(g)][h]}
    BY <2>3, <2>4 DEF Grid
  <2>6. ~(~(homed # {} /\ has_position) \/ [g \in Grid |-> Valid(g)][target])
    BY <2>3
  <2>. QED
    BY <2>1, <2>2, <2>5, <2>6 DEF JC!Clip
<1>4. CASE UNCHANGED vars
  <2>1. [g \in Grid |-> Valid(g)]' = [g \in Grid |-> Valid(g)]
    BY <1>4, OkFrame DEF vars
  <2>. QED
    BY <1>4, <2>1 DEF vars, JC!vars
<1>. QED
  BY <1>1, <1>2, <1>3, <1>4 DEF Next

\* rtcp_apply_travel_limits implements the contract of apply_travel_limits
\* for every number of iterations, axis set and jog geometry: the bisection,
\* seen only at its return, keeps a destination that passes or is not
\* checked and otherwise moves it strictly back along the jog to a point that
\* passes whenever the position does.
THEOREM ClipRefinement == Spec => ImplementsJogClip
<1>1. Spec => []RefInv
  BY InitRefInv, RefInvStep, PTL DEF Spec
<1>. QED
  BY <1>1, InitRefines, StepRefines, PTL DEF Spec, ImplementsJogClip, JC!Spec

-----------------------------------------------------------------------------
(* The clip lands next to the boundary *)

\* RefInv with the bracket's width: from a valid position the loop keeps
\* a valid lower bound and an invalid upper bound 2^(BISECTION_ITERATIONS
\* - i) grid steps apart, so after the last iteration they are neighbours.
NearInv ==
    /\ RefInv
    /\ pc = "loop" /\ Valid(0) =>
           /\ Valid(start) /\ ~Valid(end)
           /\ end - start = 2^(BisectionIterations - i)
    /\ pc = "done" /\ has_position /\ homed # {} /\ Valid(0) =>
           (target < Span => ~Valid(target + 1))

\* one halving of a bracket of width 2^k, k >= 1: the midpoint splits it
\* into two brackets of width 2^(k-1)
LEMMA Halving ==
    ASSUME NEW s \in Nat, NEW e \in Nat, NEW k \in 1..BisectionIterations,
           e - s = 2^k
    PROVE  /\ e - (s + e) \div 2 = 2^(k - 1)
           /\ (s + e) \div 2 - s = 2^(k - 1)
<1>1. 2^(k - 1) \in Nat /\ e - s = 2 * 2^(k - 1)
  BY PowersOfTwo
<1>. QED
  BY <1>1

LEMMA InitNearInv == Init => NearInv
BY InitRefInv DEF Init, NearInv

LEMMA NearInvStep == NearInv /\ [Next]_vars => NearInv'
<1> SUFFICES ASSUME NearInv, [Next]_vars PROVE NearInv'
  OBVIOUS
<1>1. RefInv'
  BY RefInvStep DEF NearInv
<1>2. UNCHANGED <<rtcp_enabled, homed, path, has_position>>
  BY DEF Next, ApplyCall, BisectStep, ApplyFinish, vars
<1>3. Valid(0)' = Valid(0)
  BY <1>2, ValidFrame
<1>4. CASE ApplyCall
  <2>1. target = Span /\ target' = target
    BY <1>4 DEF ApplyCall, NearInv, RefInv
  <2>2. CASE homed = {} \/ ~has_position \/ Valid(target)
    <3>1. pc' = "done"
      BY <1>4, <2>2 DEF ApplyCall
    <3>. QED
      BY <1>1, <1>2, <1>3, <2>1, <2>2, <3>1 DEF NearInv
  <2>3. CASE ~(homed = {} \/ ~has_position \/ Valid(target))
    <3>1. start' = 0 /\ end' = target /\ i' = 0 /\ pc' = "loop"
      BY <1>4, <2>3 DEF ApplyCall
    <3>2. Valid(end)' = Valid(target)
      BY <1>2, <2>1, <3>1 DEF Valid, rtcp_check_travel_limits, orig_check_travel_limits
    <3>3. Span = 2^(BisectionIterations - 0)
      BY DEF Span
    <3>. QED
      BY <1>1, <1>3, <2>1, <2>3, <3>1, <3>2, <3>3 DEF NearInv
  <2>. QED
    BY <2>2, <2>3
<1>5. CASE BisectStep
  <2>1. PICK mid : mid = (start + end) \div 2
    OBVIOUS
  <2>2. /\ pc = "loop" /\ i < BisectionIterations /\ i' = i + 1 /\ pc' = pc
        /\ IF Valid(mid)
           THEN best' = mid /\ start' = mid /\ end' = end
           ELSE end' = mid /\ start' = start /\ best' = best
    BY <1>5, <2>1 DEF BisectStep
  <2>3. SUFFICES ASSUME Valid(0)
                 PROVE  /\ Valid(start)' /\ ~Valid(end)'
                        /\ end' - start' = 2^(BisectionIterations - i')
    BY <1>1, <1>3, <2>2 DEF NearInv
  <2>4. /\ Valid(start) /\ ~Valid(end)
        /\ end - start = 2^(BisectionIterations - i)
        /\ start \in Nat /\ end \in Nat /\ i \in 0..BisectionIterations
    BY <2>2, <2>3 DEF NearInv, RefInv, ClipInv, TypeOK, Grid
  <2>5. /\ end - mid = 2^(BisectionIterations - i')
        /\ mid - start = 2^(BisectionIterations - i')
    <3>1. BisectionIterations - i \in 1..BisectionIterations
      BY <2>2, <2>4
    <3>2. BisectionIterations - i - 1 = BisectionIterations - i'
      BY <2>2, <2>4
    <3>3. /\ end - mid = 2^((BisectionIterations - i) - 1)
          /\ mid - start = 2^((BisectionIterations - i) - 1)
      BY <2>1, <2>4, <3>1, Halving
    <3>. QED
      BY <3>2, <3>3
  <2>6. /\ Valid(start)' = Valid(start') /\ Valid(end)' = Valid(end')
    BY <1>2 DEF Valid, rtcp_check_travel_limits, orig_check_travel_limits
  <2>. QED
    BY <2>1, <2>2, <2>4, <2>5, <2>6
<1>6. CASE ApplyFinish
  <2>1. /\ pc = "loop" /\ i = BisectionIterations /\ target' = best
        /\ pc' = "done"
    BY <1>6 DEF ApplyFinish
  <2>2. SUFFICES ASSUME Valid(0), has_position, homed # {}
                 PROVE  (~Valid(target + 1))'
    BY <1>1, <1>2, <1>3, <2>1 DEF NearInv
  <2>3. /\ ~Valid(end) /\ end - start = 1 /\ best = start
        /\ start \in Nat /\ end \in Nat
    BY <2>1, <2>2, PowersOfTwo DEF NearInv, RefInv, ClipInv, TypeOK, Grid
  <2>4. target' + 1 = end
    BY <2>1, <2>3
  <2>. QED
    BY <1>2, <2>3, <2>4 DEF Valid, rtcp_check_travel_limits, orig_check_travel_limits
<1>7. CASE UNCHANGED vars
  <2>1. /\ Valid(start)' = Valid(start) /\ Valid(end)' = Valid(end)
        /\ Valid(target + 1)' = Valid(target + 1)
    BY <1>7 DEF vars, Valid, rtcp_check_travel_limits, orig_check_travel_limits
  <2>2. UNCHANGED <<pc, i, start, end, target, has_position, homed>>
    BY <1>7 DEF vars
  <2>3. (pc = "loop" /\ Valid(0) =>
           /\ Valid(start) /\ ~Valid(end)
           /\ end - start = 2^(BisectionIterations - i))'
    BY <1>3, <2>1, <2>2 DEF NearInv
  <2>4. (pc = "done" /\ has_position /\ homed # {} /\ Valid(0) =>
           (target < Span => ~Valid(target + 1)))'
    BY <1>3, <2>1, <2>2 DEF NearInv
  <2>. QED
    BY <1>1, <2>3, <2>4 DEF NearInv
<1>. QED
  BY <1>4, <1>5, <1>6, <1>7 DEF Next

\* For every number of bisection iterations, axis set and jog geometry
\* with validity monotone along the jog: a jog from a valid position that
\* rtcp_apply_travel_limits clips stops at a valid grid point whose
\* successor fails the check, one Span-th of the jog from the boundary
\* (spec 8.7, second half).
THEOREM ClipNearBoundaryHolds == Spec => []ClipNearBoundary
<1>1. NearInv => ClipNearBoundary
  BY DEF NearInv, RefInv, ClipInv, ClipNearBoundary
<1>. QED
  BY <1>1, InitNearInv, NearInvStep, PTL DEF Spec

=============================================================================
