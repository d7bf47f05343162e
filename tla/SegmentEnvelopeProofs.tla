------------------------ MODULE SegmentEnvelopeProofs ------------------------
(***************************************************************************)
(* EndsInEnvelope for every pivot, axis offset, tool length offset,        *)
(* envelope, homed mask and iteration clamp: the end-point validation of   *)
(* rtcp_segment_line's init call covers the point its last produce call    *)
(* plans, although the cache has been used for every waypoint in between.  *)
(***************************************************************************)
EXTENDS SegmentEnvelope, RtcpTransformsProofs, WellFoundedInduction

\* the joints of the block's target, computed with fresh trigonometry
TargetJoints == InverseExact(final_target, cfg, tlo)

\* The inductive invariant behind EndsInEnvelope.  Inside mc_line's loop
\* the target's joints passed the check of init and at least one produce
\* call is left; once only the NULL call is left (iterations = 1) the point
\* planned last is the target's joints.  The cache stays coherent, which is
\* what makes the produce call's transform of final_target the one init
\* validated.
EInv ==
    /\ Coherent(cache)
    /\ cfg \in Cfgs /\ tlo \in Tlos
    /\ final_target \in Vectors
    /\ iterations \in Nat
    /\ phase \in {"idle", "segmenting"}
    /\ phase = "segmenting" =>
           /\ iterations >= 1
           /\ JointValid(TargetJoints)
           /\ iterations = 1 => position = TargetJoints
    /\ phase = "idle" => JointValid(position)

-----------------------------------------------------------------------------
USE EnvelopeAssumption, KinematicsAssumption

\* a non-empty set of naturals has a least element
LEMMA LeastExists ==
    \A T \in SUBSET Nat : T # {} => \E x \in T : \A y \in T : x <= y
<1>. SUFFICES ASSUME NEW T \in SUBSET Nat, T # {}
              PROVE  \E x \in T : \A y \in T : x <= y
  OBVIOUS
<1>1. PICK x \in T : \A y \in T : ~(<<y, x>> \in OpToRel(<, Nat))
  BY NatLessThanWellFounded, WFMin
<1>2. ASSUME NEW y \in T PROVE x <= y
  <2>1. ~(<<y, x>> \in OpToRel(<, Nat))
    BY <1>1
  <2>2. <<y, x>> \in Nat \X Nat
    OBVIOUS
  <2>3. ~(y < x)
    BY <2>1, <2>2 DEF OpToRel
  <2>. QED
    BY <2>3
<1>. QED
  BY <1>2

\* so the least m that ChordIterations chooses is one of its candidates
LEMMA LeastIn ==
    \A S \in SUBSET Nat : S # {} => (CHOOSE m \in S : \A k \in S : m <= k) \in S
BY LeastExists

\* "ceilf(sqrtf(err / tol)) * 2" is an integer for every error and feed mode
LEMMA ChordInt ==
    ASSUME NEW e, NEW r
    PROVE  ChordIterations(e, r) \in Int
<1>1. PICK ms : ms = {m \in 1..MaxSegments :
                       e <= (TolHundredths(r) * TolHundredths(r) * m * m * m * m) \div 2500}
  OBVIOUS
<1>2. PICK c : c = CHOOSE m \in ms : \A k \in ms : m <= k
  OBVIOUS
<1>3. ms # {} => c \in Int
  BY <1>1, <1>2, LeastIn
<1>4. ChordIterations(e, r) =
        IF e <= (4 * TolHundredths(r) * TolHundredths(r)) \div 10000 THEN 1
        ELSE IF ms = {} THEN 2 * MaxSegments
        ELSE 2 * c
  BY <1>1, <1>2 DEF ChordIterations
<1>. QED
  BY <1>3, <1>4

\* the safety clamp of rtcp_segment_line yields 1 .. 2000 segments
LEMMA ClampRange ==
    ASSUME NEW x \in Int
    PROVE  ClampIterations(x) \in 1..MaxSegments
BY DEF ClampIterations

\* "delta.values[idx] /= (float)iterations" is exact on the grid: a
\* difference that n divides is n times its quotient
LEMMA DivExact ==
    ASSUME NEW x \in Int, NEW n \in Nat \ {0}, x % n = 0
    PROVE  n * (x \div n) = x
<1>1. x = n * (x \div n) + (x % n)
  OBVIOUS
<1>. QED
  BY <1>1

\* an angle difference that 90 n divides leaves a step of whole quarter
\* turns
LEMMA DivQuarter ==
    ASSUME NEW x \in Int, NEW n \in Nat \ {0}, x % (90 * n) = 0
    PROVE  /\ x % n = 0
           /\ (x \div n) % 90 = 0
<1>1. PICK q \in Int : x = (90 * n) * q
  <2>1. x = (90 * n) * (x \div (90 * n)) + (x % (90 * n))
    OBVIOUS
  <2>2. x \div (90 * n) \in Int /\ x = (90 * n) * (x \div (90 * n))
    BY <2>1
  <2>. QED
    BY <2>2
<1>2. x = n * (90 * q) + 0
  BY <1>1
<1>3. x % n = 0 /\ x \div n = 90 * q
  <2>1. 90 * q \in Int
    OBVIOUS
  <2>. QED
    BY <1>2, <2>1
<1>. QED
  BY <1>3

\* the midpoint of two quarter turns an even number of quarter turns apart
\* is a quarter turn
LEMMA MidQuarter ==
    ASSUME NEW s \in QuarterTurns, NEW t \in QuarterTurns, (t - s) % 180 = 0
    PROVE  (s + t) \div 2 \in QuarterTurns
BY DEF QuarterTurns

\* a step of whole quarter turns from s towards f = s + j * d, j >= 1, does
\* not overshoot f, so it stays on the quarter turns between them
LEMMA StepQuarter ==
    ASSUME NEW s \in QuarterTurns, NEW f \in QuarterTurns, NEW d \in Int,
           NEW j \in Nat, j >= 1, d % 90 = 0, f = s + j * d
    PROVE  s + d \in QuarterTurns
<1>1. j * d - d = (j - 1) * d
  OBVIOUS
<1>2. d >= 0 => (j - 1) * d >= 0
  OBVIOUS
<1>3. d < 0 => (j - 1) * d <= 0
  OBVIOUS
<1>4. -270 <= s + d /\ s + d <= 270
  BY <1>1, <1>2, <1>3 DEF QuarterTurns
<1>5. (s + d) % 90 = 0
  BY DEF QuarterTurns
<1>. QED
  BY <1>4, <1>5 DEF QuarterTurns

-----------------------------------------------------------------------------
LEMMA InitEInv == Init => EInv
<1>. SUFFICES ASSUME Init PROVE EInv
  OBVIOUS
<1>1. Coherent(cache) /\ final_target \in Vectors
  BY DEF Init, EmptyCache, Coherent, Origin, Vectors, QuarterTurns
<1>2. JointValid(position)
  BY DEF Init
<1>. QED
  BY <1>1, <1>2 DEF Init, EInv

\* what the init call leaves for the invariant: the target saved, a
\* coherent cache, at least two produce calls to come, and the loop
\* entered exactly when the joints of the target pass the check
LEMMA StartMoveEffect ==
    ASSUME EInv, NEW t \in Points, NEW rapid \in BOOLEAN, StartMove(t, rapid)
    PROVE  /\ phase = "idle"
           /\ final_target' = t
           /\ UNCHANGED <<cfg, tlo, position>>
           /\ Coherent(cache')
           /\ iterations' \in Nat /\ iterations' >= 2
           /\ phase' = IF JointValid(transform_from_cartesian(t, cache, cfg, tlo))
                       THEN "segmenting" ELSE "idle"
<1>1. /\ phase = "idle" /\ final_target' = t /\ UNCHANGED <<cfg, tlo, position>>
      /\ phase' = IF JointValid(transform_from_cartesian(t, cache, cfg, tlo))
                  THEN "segmenting" ELSE "idle"
  BY DEF StartMove, InitCheck
<1>2. Coherent(cache')
  <2>1. Coherent(TrigCacheAfter(t, cache))
    BY TrigCacheAfterCoherent DEF EInv
  <2>2. \/ cache' = TrigCacheAfter(t, cache)
        \/ \E m : cache' = TrigCacheAfter(m, TrigCacheAfter(t, cache))
    BY DEF StartMove
  <2>. QED
    BY <2>1, <2>2, TrigCacheAfterCoherent
<1>3. iterations' \in Nat /\ iterations' >= 2
  <2>1. \/ iterations' = 2
        \/ \E e : iterations' = ClampIterations(ChordIterations(e, rapid)) + 1
    BY DEF StartMove
  <2>2. ASSUME NEW e PROVE ClampIterations(ChordIterations(e, rapid)) \in 1..MaxSegments
    BY ChordInt, ClampRange
  <2>. QED
    BY <2>1, <2>2
<1>. QED
  BY <1>1, <1>2, <1>3

LEMMA EInvStep == EInv /\ [Next]_vars => EInv'
<1>. SUFFICES ASSUME EInv, [Next]_vars PROVE EInv'
  OBVIOUS
<1>1. ASSUME NEW t \in Points, NEW rapid \in BOOLEAN, StartMove(t, rapid)
      PROVE  EInv'
  <2>1. /\ phase = "idle"
        /\ final_target' = t
        /\ UNCHANGED <<cfg, tlo, position>>
        /\ Coherent(cache')
        /\ iterations' \in Nat /\ iterations' >= 2
        /\ phase' = IF JointValid(transform_from_cartesian(t, cache, cfg, tlo))
                    THEN "segmenting" ELSE "idle"
    BY <1>1, StartMoveEffect
  <2>2. transform_from_cartesian(t, cache, cfg, tlo) = InverseExact(t, cfg, tlo)
    BY CoherentInverseExact DEF EInv
  <2>3. t \in Vectors
    BY PointsAreVectors
  <2>. QED
    BY <2>1, <2>2, <2>3 DEF EInv, TargetJoints
<1>2. ASSUME NextSegment PROVE EInv'
  <2>1. PICK st : /\ cache' = TrigCacheAfter(st, cache)
                  /\ iterations' = iterations - 1
                  /\ phase = "segmenting"
                  /\ UNCHANGED <<cfg, tlo, final_target>>
                  /\ iterations - 1 > 1 \/ st = final_target
                  /\ IF iterations - 1 = 0
                        THEN phase' = "idle" /\ UNCHANGED position
                        ELSE /\ position' = transform_from_cartesian(st, cache, cfg, tlo)
                             /\ phase' = phase
    BY <1>2 DEF NextSegment
  <2>2. Coherent(cache')
    BY <2>1, TrigCacheAfterCoherent DEF EInv
  <2>3. CASE iterations = 1
    BY <2>1, <2>2, <2>3 DEF EInv, TargetJoints
  <2>4. CASE iterations = 2
    <3>1. position' = InverseExact(final_target, cfg, tlo)
      BY <2>1, <2>4, CoherentInverseExact DEF EInv
    <3>. QED
      BY <2>1, <2>2, <2>4, <3>1 DEF EInv, TargetJoints
  <2>5. CASE iterations > 2
    BY <2>1, <2>2, <2>5 DEF EInv, TargetJoints
  <2>. QED
    BY <2>1, <2>3, <2>4, <2>5 DEF EInv
<1>3. CASE UNCHANGED vars
  BY <1>3 DEF EInv, TargetJoints, vars
<1>. QED
  BY <1>1, <1>2, <1>3 DEF Next

\* EndsInEnvelope for every instance of the constants: whenever mc_line is
\* not inside its produce loop, the last joint position it planned is
\* inside the envelope of every homed joint, so a move that ran its last
\* produce call never ends outside the limits init validated
THEOREM EnvelopeAtRest == Spec => []EndsInEnvelope
<1>1. EInv => EndsInEnvelope
  BY DEF EInv, EndsInEnvelope
<1>. QED
  BY InitEInv, EInvStep, <1>1, PTL DEF Spec

-----------------------------------------------------------------------------
(* TypeOK *)

\* Inside a subdivided move the target lies a whole number of steps of
\* delta beyond segment_target, one per produce call still to plan a
\* waypoint, and the angle steps are whole quarter turns: what keeps
\* every waypoint's angles on the quarter turns between start and target.
WayInv ==
    phase = "segmenting" /\ segmented =>
        /\ \A ax \in AxisNames :
               final_target[ax] = segment_target[ax] + (iterations - 1) * delta[ax]
        /\ delta.a % 90 = 0 /\ delta.c % 90 = 0

\* the inductive invariant behind TypeOK
TInv == EInv /\ TypeOK /\ WayInv

\* transform_from_cartesian of a point leaves a well-typed cache
LEMMA CacheAfterType ==
    ASSUME NEW k \in Caches, Coherent(k), NEW p \in Vectors
    PROVE  TrigCacheAfter(p, k) \in Caches
<1>1. CASE FastPath(p)
  BY <1>1 DEF TrigCacheAfter
<1>2. CASE ~FastPath(p)
  <2>1. p.a \in QuarterTurns /\ p.c \in QuarterTurns
    BY DEF Vectors
  <2>. QED
    BY <1>2, <2>1, UpdateCoherent DEF TrigCacheAfter
<1>. QED
  BY <1>1, <1>2

\* the TCP midpoint of a move that halves exactly is a point of the grid
LEMMA MidVector ==
    ASSUME NEW s \in Vectors, NEW t \in Vectors, Exact(Minus(t, s), 2)
    PROVE  Midpoint(s, t) \in Vectors
<1>1. (t.a - s.a) % 180 = 0 /\ (t.c - s.c) % 180 = 0
  BY DEF Exact, Minus, Vectors
<1>2. (s.a + t.a) \div 2 \in QuarterTurns /\ (s.c + t.c) \div 2 \in QuarterTurns
  BY <1>1, MidQuarter DEF Vectors
<1>. QED
  BY <1>2 DEF Midpoint, DivideBy, Plus, Vectors

\* the next waypoint segment_target + delta of a subdivided move that has
\* j >= 1 steps left is a point of the grid
LEMMA WaypointVector ==
    ASSUME NEW s \in Vectors, NEW f \in Vectors, NEW d \in Steps,
           NEW j \in Nat, j >= 1, d.a % 90 = 0, d.c % 90 = 0,
           \A ax \in AxisNames : f[ax] = s[ax] + j * d[ax]
    PROVE  Plus(s, d) \in Vectors
<1>1. s.a + d.a \in QuarterTurns
  <2>1. f.a = s.a + j * d.a
    BY DEF AxisNames
  <2>. QED
    BY <2>1, StepQuarter DEF Vectors, Steps
<1>2. s.c + d.c \in QuarterTurns
  <2>1. f.c = s.c + j * d.c
    BY DEF AxisNames
  <2>. QED
    BY <2>1, StepQuarter DEF Vectors, Steps
<1>. QED
  BY <1>1, <1>2 DEF Plus, Vectors, Steps

\* "delta.values[idx] /= (float)iterations" divides every axis
LEMMA DivideByAxis ==
    ASSUME NEW d, NEW n, NEW ax \in AxisNames
    PROVE  DivideBy(d, n)[ax] = d[ax] \div n
BY DEF DivideBy, AxisNames

\* what the init call leaves for the types: the saved target, the joints
\* of the target, a well-typed cache and step, and the target reached
\* after n steps of delta from the forward transform of the joints
LEMMA StartMoveTypes ==
    ASSUME TInv, NEW t \in Points, NEW rapid \in BOOLEAN, StartMove(t, rapid)
    PROVE  TypeOK' /\ WayInv'
<1>. PICK st, d, seg, mid, k1, qe, n :
        /\ st = transform_to_cartesian(position, cfg, tlo)
        /\ d = Minus(t, st)
        /\ seg = (AbsVal(d.a) > 0 \/ AbsVal(d.c) > 0)
        /\ mid = Midpoint(st, t)
        /\ k1 = TrigCacheAfter(t, cache)
        /\ qe = transform_from_cartesian(t, cache, cfg, tlo)
        /\ n = IF seg
               THEN ClampIterations(ChordIterations(
                        FourErrSq(transform_from_cartesian(mid, k1, cfg, tlo),
                                  position, qe), rapid))
               ELSE 1
        /\ seg => Exact(d, 2) /\ Exact(d, n)
        /\ moves < MaxMoves /\ moves' = moves + 1
        /\ final_target' = t
        /\ mpos' = qe
        /\ segmented' = seg
        /\ iterations' = n + 1
        /\ delta' = IF seg THEN DivideBy(d, n) ELSE d
        /\ segment_target' = IF seg THEN st ELSE t
        /\ cache' = IF seg THEN TrigCacheAfter(mid, k1) ELSE k1
        /\ phase' \in {"idle", "segmenting"}
        /\ UNCHANGED <<cfg, tlo, position>>
  BY DEF StartMove
<1>1. /\ t \in Vectors /\ cfg \in Settings /\ tlo \in Int /\ position \in Vectors
      /\ cache \in Caches /\ Coherent(cache) /\ moves \in 0..MaxMoves
  BY PointsAreVectors DEF TInv, EInv, TypeOK
<1>2. st \in Vectors
  BY <1>1, ForwardType
<1>3. d \in Steps
  BY <1>1, <1>2 DEF Minus, Steps, Vectors, QuarterTurns
<1>4. n \in 1..MaxSegments
  BY ChordInt, ClampRange
<1>5. qe \in Vectors
  BY <1>1, CoherentInverseExact, InverseExactType
<1>6. k1 \in Caches /\ Coherent(k1)
  BY <1>1, CacheAfterType, TrigCacheAfterCoherent
<1>7. cache' \in Caches
  <2>1. CASE seg
    <3>1. mid \in Vectors
      BY <1>1, <1>2, <2>1, MidVector
    <3>. QED
      BY <1>6, <2>1, <3>1, CacheAfterType
  <2>2. CASE ~seg
    BY <1>6, <2>2
  <2>. QED
    BY <2>1, <2>2
<1>8. delta' \in Steps
  BY <1>3, <1>4 DEF DivideBy, Steps
<1>9. TypeOK'
  BY <1>1, <1>2, <1>4, <1>5, <1>7, <1>8 DEF TypeOK, TInv
<1>10. WayInv'
  <2>1. CASE ~seg
    <3>1. segmented' = FALSE
      BY <2>1
    <3>. QED
      BY <3>1 DEF WayInv
  <2>2. CASE seg
    <3>1. /\ \A ax \in Linear : d[ax] % n = 0
          /\ d.a % (90 * n) = 0 /\ d.c % (90 * n) = 0
      BY <2>2 DEF Exact
    <3>2. /\ d.a % n = 0 /\ (d.a \div n) % 90 = 0
          /\ d.c % n = 0 /\ (d.c \div n) % 90 = 0
      BY <1>3, <1>4, <3>1, DivQuarter DEF Steps
    <3>3. /\ final_target' = t /\ segment_target' = st
          /\ delta' = DivideBy(d, n) /\ iterations' - 1 = n
      BY <1>4, <2>2
    <3>4. delta'.a % 90 = 0 /\ delta'.c % 90 = 0
      <4>1. delta'.a = d.a \div n /\ delta'.c = d.c \div n
        <5>1. "a" \in AxisNames /\ "c" \in AxisNames
          BY DEF AxisNames
        <5>. QED
          BY <3>3, <5>1, DivideByAxis
      <4>. QED
        BY <3>2, <4>1
    <3>5. ASSUME NEW ax \in AxisNames
          PROVE  final_target'[ax] = segment_target'[ax] + (iterations' - 1) * delta'[ax]
      <4>1. d[ax] \in Int /\ d[ax] % n = 0
        BY <1>3, <3>1, <3>2 DEF Steps, AxisNames, Linear
      <4>2. n * (d[ax] \div n) = d[ax]
        <5>1. n \in Nat \ {0}
          BY <1>4
        <5>. QED
          BY <5>1, <4>1, DivExact
      <4>3. d[ax] = t[ax] - st[ax] /\ t[ax] \in Int /\ st[ax] \in Int
        BY <1>1, <1>2 DEF Minus, AxisNames, Vectors, QuarterTurns
      <4>4. delta'[ax] = d[ax] \div n
        BY <3>3, DivideByAxis
      <4>. QED
        BY <3>3, <4>2, <4>3, <4>4
    <3>. QED
      BY <3>4, <3>5 DEF WayInv
  <2>. QED
    BY <2>1, <2>2
<1>. QED
  BY <1>9, <1>10

\* a produce call that does not end the loop has one more call to come:
\* the count it leaves is 1 .. m
LEMMA CountDown ==
    ASSUME NEW m \in Nat, NEW i \in 0..m, i # 0
    PROVE  /\ i \in Nat /\ i >= 1
           /\ i > 1 \/ i = 1
OBVIOUS

\* what a produce call leaves for the types: its point is the next
\* waypoint, still on the grid, or the target, and the steps left shrink by
\* one together with iterations
LEMMA NextSegmentTypes ==
    ASSUME TInv, NextSegment
    PROVE  TypeOK' /\ WayInv'
<1>. PICK it, st :
        /\ it = iterations - 1
        /\ st = IF segmented /\ it > 1 THEN Plus(segment_target, delta)
                ELSE final_target
        /\ phase = "segmenting"
        /\ iterations' = it
        /\ segment_target' = st
        /\ mpos' = transform_from_cartesian(st, cache, cfg, tlo)
        /\ cache' = TrigCacheAfter(st, cache)
        /\ phase' \in {"idle", "segmenting"}
        /\ phase' = "segmenting" => it # 0
        /\ position' \in {position, transform_from_cartesian(st, cache, cfg, tlo)}
        /\ UNCHANGED <<cfg, tlo, segmented, delta, final_target, moves>>
  BY DEF NextSegment
<1>1. /\ TypeOK /\ iterations >= 1 /\ Coherent(cache)
      /\ cfg \in Settings /\ tlo \in Int
  BY DEF TInv, EInv, TypeOK
<1>2. it \in 0..MaxSegments
  BY <1>1 DEF TypeOK
<1>3. st \in Vectors
  <2>1. CASE segmented /\ it > 1
    <3>1. /\ \A ax \in AxisNames :
                 final_target[ax] = segment_target[ax] + it * delta[ax]
          /\ delta.a % 90 = 0 /\ delta.c % 90 = 0
      BY <2>1 DEF TInv, WayInv
    <3>2. it \in Nat /\ it >= 1
      BY <1>2, <2>1
    <3>. QED
      BY <1>1, <2>1, <3>1, <3>2, WaypointVector DEF TypeOK
  <2>2. CASE ~(segmented /\ it > 1)
    BY <1>1, <2>2 DEF TypeOK
  <2>. QED
    BY <2>1, <2>2
<1>4. transform_from_cartesian(st, cache, cfg, tlo) \in Vectors
  BY <1>1, <1>3, CoherentInverseExact, InverseExactType
<1>5. cache' \in Caches
  BY <1>1, <1>3, CacheAfterType DEF TypeOK
<1>6. TypeOK'
  BY <1>1, <1>2, <1>3, <1>4, <1>5 DEF TypeOK
<1>7. WayInv'
  <2>. SUFFICES ASSUME phase' = "segmenting", segmented = TRUE
                PROVE  /\ \A ax \in AxisNames :
                              final_target[ax] = st[ax] + (it - 1) * delta[ax]
                       /\ delta.a % 90 = 0 /\ delta.c % 90 = 0
    BY DEF WayInv
  <2>1. /\ \A ax \in AxisNames :
               final_target[ax] = segment_target[ax] + it * delta[ax]
        /\ delta.a % 90 = 0 /\ delta.c % 90 = 0
    BY DEF TInv, WayInv
  <2>2. it \in Nat /\ it >= 1
    <3>1. it # 0
      OBVIOUS
    <3>. QED
      BY <1>2, <3>1, CountDown
  <2>3. ASSUME NEW ax \in AxisNames
        PROVE  final_target[ax] = st[ax] + (it - 1) * delta[ax]
    <3>1. /\ final_target[ax] \in Int /\ segment_target[ax] \in Int
          /\ delta[ax] \in Int
      BY <1>1 DEF TypeOK, Vectors, Steps, QuarterTurns, AxisNames
    <3>2. CASE it > 1
      <4>1. st[ax] = segment_target[ax] + delta[ax]
        BY <3>2 DEF Plus, AxisNames
      <4>. QED
        BY <2>1, <3>1, <4>1, <1>2
    <3>3. CASE it = 1
      BY <3>1, <3>3
    <3>4. it > 1 \/ it = 1
      BY <1>2, <2>2, CountDown
    <3>. QED
      BY <3>2, <3>3, <3>4
  <2>. QED
    BY <2>1, <2>3
<1>. QED
  BY <1>6, <1>7

LEMMA InitTInv == Init => TInv
<1>. SUFFICES ASSUME Init PROVE TInv
  OBVIOUS
<1>1. EInv
  BY InitEInv
<1>2. position \in Vectors
  <2>1. PICK p \in Points : position = InverseExact(p, cfg, tlo)
    BY DEF Init
  <2>. QED
    BY <2>1, PointsAreVectors, InverseExactType DEF Init
<1>3. EmptyCache \in Caches
  BY DEF EmptyCache, Caches, QuarterTurns
<1>4. Origin \in Vectors /\ Origin \in Steps
  BY DEF Origin, Vectors, Steps, QuarterTurns
<1>5. /\ cfg \in Cfgs /\ tlo \in Tlos /\ cache = EmptyCache
      /\ iterations = 0 /\ segmented = FALSE /\ delta = Origin
      /\ segment_target = Origin /\ final_target = Origin /\ mpos = Origin
      /\ phase = "idle" /\ moves = 0
  BY DEF Init
<1>7. iterations \in 0..(MaxSegments + 1) /\ moves \in 0..MaxMoves
  BY <1>5
<1>8. TypeOK
  BY <1>2, <1>3, <1>4, <1>5, <1>7 DEF TypeOK
<1>6. WayInv
  BY DEF Init, WayInv
<1>. QED
  BY <1>1, <1>8, <1>6 DEF TInv

LEMMA TInvStep == TInv /\ [Next]_vars => TInv'
<1>. SUFFICES ASSUME TInv, [Next]_vars PROVE TInv'
  OBVIOUS
<1>1. EInv'
  BY EInvStep DEF TInv
<1>2. CASE \E t \in Points, rapid \in BOOLEAN : StartMove(t, rapid)
  BY <1>1, <1>2, StartMoveTypes DEF TInv
<1>3. CASE NextSegment
  BY <1>1, <1>3, NextSegmentTypes DEF TInv
<1>4. CASE UNCHANGED vars
  BY <1>1, <1>4 DEF TInv, TypeOK, WayInv, vars
<1>. QED
  BY <1>2, <1>3, <1>4 DEF Next

\* TypeOK for every pivot, axis offset, tool length offset, envelope and
\* iteration clamp: every point rtcp_segment_line hands to the planner or
\* keeps in its statics (segment_target, final_target, mpos) is on the
\* grid, and the cache of transform_from_cartesian holds quarter turns and
\* their sines and cosines, because the init call's delta divides the move
\* into whole steps that never overshoot the target.
THEOREM EnvelopeTypeCorrect == Spec => []TypeOK
<1>1. TInv => TypeOK
  BY DEF TInv
<1>. QED
  BY InitTInv, TInvStep, <1>1, PTL DEF Spec

=============================================================================
