----------------------- MODULE RtcpKinematicsProofs -----------------------
(***************************************************************************)
(* Proofs about RtcpKinematics for every pivot, axis offset, tool length  *)
(* offset and point: the inverse and forward transforms of rtcp.c are      *)
(* inverse to each other at every quarter turn, and the trigonometric      *)
(* cache never changes what transform_from_cartesian returns.             *)
(***************************************************************************)
EXTENDS RtcpKinematics, RtcpTransformsProofs

USE KinematicsAssumption

\* The inductive invariant: the types, a coherent cache, and the last
\* inverse call equal to the uncached transform.
KInv == TypeOK /\ Coherent(cache) /\ CacheTransparent

LEMMA InitKInv == Init => KInv
<1> SUFFICES ASSUME Init PROVE KInv
  OBVIOUS
<1>1. Origin \in Vectors
  BY DEF Origin, Vectors, QuarterTurns
<1>2. cfg \in Settings /\ tlo \in Int
  BY DEF Init
<1>3. EmptyCache \in Caches
  BY DEF EmptyCache, Caches, QuarterTurns
<1>. QED  BY <1>1, <1>2, <1>3 DEF Init, KInv, TypeOK, Calls, Coherent,
                                   EmptyCache, CacheTransparent

LEMMA KInvStep == KInv /\ [Next]_vars => KInv'
<1> SUFFICES ASSUME KInv, [Next]_vars PROVE KInv'
  OBVIOUS
<1> USE DEF KInv, TypeOK
<1>0. cfg \in Settings /\ tlo \in Int
  OBVIOUS
<1>1. ASSUME NEW p \in Points, InverseCall(p) PROVE KInv'
  <2>1. p \in Vectors
    BY PointsAreVectors
  <2>2. cache' \in Caches /\ Coherent(cache')
    <3>1. CASE FastPath(p)
      BY <1>1, <3>1 DEF InverseCall, TrigCacheAfter
    <3>2. CASE ~FastPath(p)
      BY <1>1, <3>2, <2>1, UpdateCoherent DEF InverseCall, TrigCacheAfter, Vectors
    <3>. QED  BY <3>1, <3>2
  <2>3. call'.out = InverseExact(p, cfg, tlo)
    BY <1>1, <1>0, <2>1, CachedInverseExact DEF InverseCall
  <2>4. InverseExact(p, cfg, tlo) \in Vectors
    BY <1>0, <2>1, InverseExactType
  <2>5. call' \in Calls
    BY <1>1, <1>0, <2>1, <2>3, <2>4 DEF InverseCall, Calls
  <2>6. CacheTransparent'
    BY <1>1, <2>3 DEF InverseCall, CacheTransparent
  <2>. QED  BY <1>1, <2>2, <2>5, <2>6 DEF InverseCall
<1>2. ASSUME NEW m \in Points, DroCall(m) PROVE KInv'
  <2>1. m \in Vectors
    BY PointsAreVectors
  <2>2. transform_steps_to_cartesian(m, rtcp_enabled, cfg, tlo) \in Vectors
    BY <1>0, <2>1, ForwardType DEF transform_steps_to_cartesian
  <2>. QED  BY <1>2, <1>0, <2>1, <2>2 DEF DroCall, Calls, CacheTransparent
<1>3. ASSUME NEW cf \in Cfgs, SettingsChanged(cf) PROVE KInv'
  BY <1>3 DEF SettingsChanged, invalidate_cache, Caches, Coherent,
              CacheTransparent
<1>4. ASSUME NEW t \in Tlos, ToolLengthOffset(t) PROVE KInv'
  BY <1>4 DEF ToolLengthOffset, Coherent, CacheTransparent
<1>5. CASE HomingDone
  BY <1>5 DEF HomingDone, invalidate_cache, Caches, Coherent, CacheTransparent
<1>6. CASE M450
  BY <1>6 DEF M450, invalidate_cache, Caches, Coherent, CacheTransparent
<1>7. CASE M451
  BY <1>7 DEF M451, invalidate_cache, Caches, Coherent, CacheTransparent
<1>8. CASE UNCHANGED vars
  BY <1>8 DEF vars, Coherent, CacheTransparent
<1>. QED  BY <1>1, <1>2, <1>3, <1>4, <1>5, <1>6, <1>7, <1>8 DEF Next

\* The trigonometric cache is transparent and the transforms are inverse to
\* each other: for every pivot, axis offsets, tool length offset and point
\* at quarter turns, and whatever sequence of calls, settings changes,
\* homings and M450/M451 came before, transform_from_cartesian returns the
\* uncached inverse transform and transform_to_cartesian maps it back to
\* the requested point (spec 8.8 and 8.1).
THEOREM KinematicsSafety == Spec => [](TypeOK /\ CacheTransparent /\ RoundTrip)
<1>1. KInv => RoundTrip
  <2> SUFFICES ASSUME KInv, call.kind = "inverse"
               PROVE  transform_to_cartesian(call.out, call.cfg, call.tlo) = call.in
    BY DEF RoundTrip
  <2>1. call.in \in Vectors /\ call.cfg \in Settings /\ call.tlo \in Int
    BY DEF KInv, TypeOK, Calls
  <2>2. call.out = InverseExact(call.in, call.cfg, call.tlo)
    BY DEF KInv, CacheTransparent
  <2>. QED  BY <2>1, <2>2, RoundTripExact
<1>2. KInv => TypeOK /\ CacheTransparent
  BY DEF KInv
<1>. QED  BY <1>1, <1>2, InitKInv, KInvStep, PTL DEF Spec

=============================================================================
