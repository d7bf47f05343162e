--------------------- MODULE CartesianKinematicsProofs ---------------------
(***************************************************************************)
(* Proofs, for every width of the counter and every set of targets, of    *)
(* the type invariant and of IdentitySingleSegment, which                  *)
(* MC_CartesianKinematics checks with an 8-bit counter.                    *)
(***************************************************************************)
EXTENDS CartesianKinematics, TLAPS

\* Inside mc_line's loop the statics of segment_line describe the block:
\* trsf holds its target, and either no produce call has run yet (counter 1)
\* or one has, and planned the target (counter 0).
LoopInv ==
    phase = "segmenting" =>
        /\ trsf = block.target
        /\ \/ iterations = 1 /\ count = 0
           \/ iterations = 0 /\ count = 1

\* The inductive invariant behind IdentitySingleSegment.
IInv ==
    /\ TypeOK
    /\ LoopInv
    /\ IdentitySingleSegment
    /\ phase = "segmenting" => block.valid
    /\ block.valid => block.target \in InEnvelope

-----------------------------------------------------------------------------
USE CartesianAssumption

\* the post-decrement of the counter on the three values the loop meets,
\* and its range
LEMMA PostDecrementValues ==
    /\ PostDecrement(2) = 1
    /\ PostDecrement(1) = 0
    /\ PostDecrement(0) = IterationsModulus - 1
    /\ \A n \in 0..(IterationsModulus - 1) :
          PostDecrement(n) \in 0..(IterationsModulus - 1)
BY SMT DEF PostDecrement

\* the three calls mc_line makes of segment_line, in either file
LEMMA SegmentLineCalls ==
    /\ \A t : segment_line(t, TRUE) = [iterations |-> 1, trsf |-> t, ret |-> t]
    /\ iterations = 1 =>
          \A t : segment_line(t, FALSE) = [iterations |-> 0, trsf |-> trsf, ret |-> trsf]
    /\ iterations = 0 =>
          \A t : segment_line(t, FALSE) =
                   [iterations |-> IterationsModulus - 1, trsf |-> trsf, ret |-> Null]
<1>1. /\ \A t : segment_line(t, TRUE) = kinematics_segment_line(t, TRUE, iterations, trsf)
      /\ \A u : segment_line(u, FALSE) = kinematics_segment_line(u, FALSE, iterations, trsf)
  BY DEF segment_line, cartesian2_segment_line
<1>2. \A t, it, tr :
        kinematics_segment_line(t, TRUE, it, tr) =
          [iterations |-> PostDecrement(2), trsf |-> t, ret |-> t]
  BY DEF kinematics_segment_line, transform_from_cartesian
<1>3. \A t, tr :
        /\ kinematics_segment_line(t, FALSE, 1, tr) =
              [iterations |-> PostDecrement(1), trsf |-> tr, ret |-> tr]
        /\ kinematics_segment_line(t, FALSE, 0, tr) =
              [iterations |-> PostDecrement(0), trsf |-> tr, ret |-> Null]
  BY DEF kinematics_segment_line
<1>4. \A t : segment_line(t, TRUE) = [iterations |-> 1, trsf |-> t, ret |-> t]
  <2>. TAKE t
  <2>1. segment_line(t, TRUE) = [iterations |-> PostDecrement(2), trsf |-> t, ret |-> t]
    BY <1>1, <1>2
  <2>. QED
    BY <2>1, PostDecrementValues
<1>5. ASSUME iterations = 1
      PROVE  \A t : segment_line(t, FALSE) = [iterations |-> 0, trsf |-> trsf, ret |-> trsf]
  <2>. TAKE t
  <2>1. segment_line(t, FALSE) = kinematics_segment_line(t, FALSE, 1, trsf)
    BY <1>1, <1>5
  <2>2. segment_line(t, FALSE) = [iterations |-> PostDecrement(1), trsf |-> trsf, ret |-> trsf]
    BY <1>3, <2>1
  <2>. QED
    BY <2>2, PostDecrementValues
<1>6. ASSUME iterations = 0
      PROVE  \A t : segment_line(t, FALSE) =
                      [iterations |-> IterationsModulus - 1, trsf |-> trsf, ret |-> Null]
  <2>. TAKE t
  <2>1. segment_line(t, FALSE) = kinematics_segment_line(t, FALSE, 0, trsf)
    BY <1>1, <1>6
  <2>2. segment_line(t, FALSE) = [iterations |-> PostDecrement(0), trsf |-> trsf, ret |-> Null]
    BY <1>3, <2>1
  <2>. QED
    BY <2>2, PostDecrementValues
<1>. QED
  BY <1>4, <1>5, <1>6

LEMMA InitIInv == Init => IInv
BY DEF Init, IInv, TypeOK, Blocks, LoopInv, IdentitySingleSegment

LEMMA IInvStep == IInv /\ [Next]_vars => IInv'
<1>. SUFFICES ASSUME IInv, [Next]_vars PROVE IInv'
  OBVIOUS
<1>1. ASSUME NEW t \in Targets, StartMove(t) PROVE IInv'
  <2>1. t # Null /\ t \in Targets \cup {Origin} /\ InEnvelope \subseteq Targets
    BY DEF CartesianAssumption
  <2>2. PICK r : r = segment_line(t, TRUE)
    OBVIOUS
  <2>3. r.iterations = 1 /\ r.trsf = t /\ r.ret = t
    <3>1. r = [iterations |-> 1, trsf |-> t, ret |-> t]
      BY <2>2, SegmentLineCalls
    <3>. QED
      BY <3>1
  <2>4. /\ iterations' = 1 /\ trsf' = t /\ count' = 0
        /\ moves' = moves + 1 /\ moves < MaxMoves
        /\ UNCHANGED <<plugin, position>>
    BY <1>1, <2>2, <2>3 DEF StartMove
  <2>5. /\ block'.id = moves + 1 /\ block'.target = t
        /\ (block'.valid <=> t \in InEnvelope)
    BY <1>1, <2>1, <2>2, <2>3 DEF StartMove
  <2>6. phase' = IF t \in InEnvelope THEN "segmenting" ELSE "idle"
    BY <1>1, <2>5 DEF StartMove
  <2>7. moves' \in 0..MaxMoves
    BY <2>4 DEF IInv, TypeOK
  <2>8. block' \in Blocks
    BY <1>1, <2>1, <2>7 DEF StartMove, Blocks
  <2>9. TypeOK'
    BY <2>1, <2>4, <2>6, <2>7, <2>8, PostDecrementValues DEF IInv, TypeOK
  <2>. QED
    BY <2>4, <2>5, <2>6, <2>9 DEF IInv, LoopInv, IdentitySingleSegment
<1>2. CASE NextSegment
  <2>1. /\ phase = "segmenting" /\ block.valid /\ trsf = block.target
        /\ block.target \in Targets /\ block.target # Null
    BY <1>2 DEF NextSegment, IInv, LoopInv, CartesianAssumption, TypeOK, Blocks
  <2>2. PICK r : r = segment_line(block.target, FALSE)
    OBVIOUS
  <2>3. /\ iterations' = r.iterations /\ trsf' = r.trsf
        /\ UNCHANGED <<plugin, block, moves>>
        /\ r.ret = Null => phase' = "idle" /\ UNCHANGED <<position, count>>
        /\ r.ret # Null => /\ position' = r.ret /\ phase' = phase
                           /\ count' = IF count < 2 THEN count + 1 ELSE 2
    BY <1>2, <2>2 DEF NextSegment
  <2>4. CASE iterations = 1
    <3>1. count = 0
      BY <2>1, <2>4 DEF IInv, LoopInv
    <3>2. r.iterations = 0 /\ r.trsf = trsf /\ r.ret = trsf
      <4>1. r = [iterations |-> 0, trsf |-> trsf, ret |-> trsf]
        BY <2>2, <2>4, SegmentLineCalls
      <4>. QED
        BY <4>1
    <3>3. /\ iterations' = 0 /\ trsf' = trsf /\ position' = trsf
          /\ count' = 1 /\ phase' = phase /\ UNCHANGED <<plugin, block, moves>>
      BY <2>1, <2>3, <3>1, <3>2
    <3>. QED
      BY <2>1, <3>3 DEF IInv, TypeOK, Blocks, LoopInv, IdentitySingleSegment
  <2>5. CASE iterations = 0
    <3>1. count = 1
      BY <2>1, <2>5 DEF IInv, LoopInv
    <3>2. r.iterations = IterationsModulus - 1 /\ r.trsf = trsf /\ r.ret = Null
      <4>1. r = [iterations |-> IterationsModulus - 1, trsf |-> trsf, ret |-> Null]
        BY <2>2, <2>5, SegmentLineCalls
      <4>. QED
        BY <4>1
    <3>3. /\ iterations' = IterationsModulus - 1 /\ trsf' = trsf
          /\ phase' = "idle" /\ UNCHANGED <<position, count, plugin, block, moves>>
      BY <2>3, <3>2
    <3>4. IterationsModulus - 1 \in 0..(IterationsModulus - 1)
      BY DEF CartesianAssumption
    <3>. QED
      BY <2>1, <3>1, <3>3, <3>4 DEF IInv, TypeOK, LoopInv, IdentitySingleSegment
  <2>. QED
    BY <2>1, <2>4, <2>5 DEF IInv, LoopInv
<1>3. CASE UNCHANGED vars
  BY <1>3 DEF vars, IInv, TypeOK, LoopInv, IdentitySingleSegment
<1>. QED
  BY <1>1, <1>2, <1>3 DEF Next

\* Spec 8.3 for both identity kinematics, for every width of the
\* counter and every set of targets: an accepted block plans exactly
\* one point, its target, and the next produce call ends the loop (the
\* wrap of the counter on that call is harmless because init reloads it).
THEOREM SingleSegment == Spec => [](TypeOK /\ IdentitySingleSegment)
<1>1. Init => IInv
  BY InitIInv
<1>2. IInv /\ [Next]_vars => IInv'
  BY IInvStep
<1>3. IInv => TypeOK /\ IdentitySingleSegment
  BY DEF IInv
<1>. QED
  BY <1>1, <1>2, <1>3, PTL DEF Spec

=============================================================================
