--------------------------- MODULE RtcpTransformsProofs ---------------------------
(***************************************************************************)
(* Lemmas about the transforms and the trigonometric cache of rtcp.c, for  *)
(* every pivot, axis offset, tool length offset and quarter-turn point:    *)
(* transform_to_cartesian undoes transform_from_cartesian, and a coherent  *)
(* cache gives the same inverse as fresh trigonometry.  RtcpKinematics-    *)
(* Proofs and SegmentEnvelopeProofs build on them.                         *)
(***************************************************************************)
EXTENDS RtcpTransforms, TLAPS

USE KinematicsAssumption

\* the (sin, cos) pairs of the quarter turns
Unit == {<<0, 1>>, <<1, 0>>, <<0, -1>>, <<-1, 0>>}

\* sin and cos of a quarter turn are one of the four unit pairs
LEMMA TrigUnit ==
    ASSUME NEW d \in QuarterTurns
    PROVE  <<Sin(d), Cos(d)>> \in Unit
BY DEF QuarterTurns, Sin, Cos, Unit

\* the rotation of steps 1 to 4 of transform_from_cartesian is undone by
\* the one of transform_to_cartesian, for any unit pairs of A and C
LEMMA RotationsInverse ==
    ASSUME NEW p \in Vectors, NEW cf \in Settings, NEW t \in Int,
           NEW sa, NEW ca, NEW sc, NEW cc,
           <<sa, ca>> \in Unit, <<sc, cc>> \in Unit
    PROVE  ForwardWith(InverseWith(p, cf, t, sa, ca, sc, cc), cf, t,
                       sa, ca, sc, cc) = p
<1> DEFINE q == InverseWith(p, cf, t, sa, ca, sc, cc)
           r == ForwardWith(q, cf, t, sa, ca, sc, cc)
<1>r. r = [x |-> r.x, y |-> r.y, z |-> r.z, a |-> p.a, c |-> p.c]
  BY DEF ForwardWith, InverseWith
<1>0. p = [x |-> p.x, y |-> p.y, z |-> p.z, a |-> p.a, c |-> p.c]
  BY DEF Vectors
<1>1. CASE sa = 0 /\ ca = 1
  <2>1. CASE sc = 0 /\ cc = 1
    BY <1>0, <1>1, <2>1 DEF ForwardWith, InverseWith, Vectors, Settings
  <2>2. CASE sc = 1 /\ cc = 0
    BY <1>0, <1>1, <2>2 DEF ForwardWith, InverseWith, Vectors, Settings
  <2>3. CASE sc = 0 /\ cc = -1
    BY <1>0, <1>1, <2>3 DEF ForwardWith, InverseWith, Vectors, Settings
  <2>4. CASE sc = -1 /\ cc = 0
    BY <1>0, <1>1, <2>4 DEF ForwardWith, InverseWith, Vectors, Settings
  <2>. QED  BY <2>1, <2>2, <2>3, <2>4 DEF Unit
<1>2. CASE sa = 1 /\ ca = 0
  <2>1. CASE sc = 0 /\ cc = 1
    BY <1>0, <1>2, <2>1 DEF ForwardWith, InverseWith, Vectors, Settings
  <2>2. CASE sc = 1 /\ cc = 0
    BY <1>0, <1>2, <2>2 DEF ForwardWith, InverseWith, Vectors, Settings
  <2>3. CASE sc = 0 /\ cc = -1
    BY <1>0, <1>2, <2>3 DEF ForwardWith, InverseWith, Vectors, Settings
  <2>4. CASE sc = -1 /\ cc = 0
    BY <1>0, <1>2, <2>4 DEF ForwardWith, InverseWith, Vectors, Settings
  <2>. QED  BY <2>1, <2>2, <2>3, <2>4 DEF Unit
<1>3. CASE sa = 0 /\ ca = -1
  <2>1. CASE sc = 0 /\ cc = 1
    BY <1>0, <1>3, <2>1 DEF ForwardWith, InverseWith, Vectors, Settings
  <2>2. CASE sc = 1 /\ cc = 0
    <3>1. r.x = p.x
      BY <1>0, <1>3, <2>2 DEF ForwardWith, InverseWith, Vectors, Settings
    <3>2. r.y = p.y
      BY <1>0, <1>3, <2>2 DEF ForwardWith, InverseWith, Vectors, Settings
    <3>3. r.z = p.z
      BY <1>0, <1>3, <2>2 DEF ForwardWith, InverseWith, Vectors, Settings
    <3>. QED  BY <1>0, <1>r, <3>1, <3>2, <3>3
  <2>3. CASE sc = 0 /\ cc = -1
    BY <1>0, <1>3, <2>3 DEF ForwardWith, InverseWith, Vectors, Settings
  <2>4. CASE sc = -1 /\ cc = 0
    BY <1>0, <1>3, <2>4 DEF ForwardWith, InverseWith, Vectors, Settings
  <2>. QED  BY <2>1, <2>2, <2>3, <2>4 DEF Unit
<1>4. CASE sa = -1 /\ ca = 0
  <2>1. CASE sc = 0 /\ cc = 1
    BY <1>0, <1>4, <2>1 DEF ForwardWith, InverseWith, Vectors, Settings
  <2>2. CASE sc = 1 /\ cc = 0
    BY <1>0, <1>4, <2>2 DEF ForwardWith, InverseWith, Vectors, Settings
  <2>3. CASE sc = 0 /\ cc = -1
    <3>1. r.x = p.x
      BY <1>0, <1>4, <2>3 DEF ForwardWith, InverseWith, Vectors, Settings
    <3>2. r.y = p.y
      BY <1>0, <1>4, <2>3 DEF ForwardWith, InverseWith, Vectors, Settings
    <3>3. r.z = p.z
      BY <1>0, <1>4, <2>3 DEF ForwardWith, InverseWith, Vectors, Settings
    <3>. QED  BY <1>0, <1>r, <3>1, <3>2, <3>3
  <2>4. CASE sc = -1 /\ cc = 0
    BY <1>0, <1>4, <2>4 DEF ForwardWith, InverseWith, Vectors, Settings
  <2>. QED  BY <2>1, <2>2, <2>3, <2>4 DEF Unit
<1>. QED  BY <1>1, <1>2, <1>3, <1>4 DEF Unit

\* the inverse transform followed by the forward one is the identity, at
\* every quarter turn (and on the fast path)
LEMMA RoundTripExact ==
    ASSUME NEW p \in Vectors, NEW cf \in Settings, NEW t \in Int
    PROVE  transform_to_cartesian(InverseExact(p, cf, t), cf, t) = p
<1>1. CASE FastPath(p)
  BY <1>1 DEF InverseExact, transform_to_cartesian
<1>2. CASE ~FastPath(p)
  <2> DEFINE q == InverseWith(p, cf, t, Sin(p.a), Cos(p.a), Sin(p.c), Cos(p.c))
  <2>1. InverseExact(p, cf, t) = q
    BY <1>2 DEF InverseExact
  <2>2. q.a = p.a /\ q.c = p.c
    BY DEF InverseWith
  <2>3. ~FastPath(q)
    BY <1>2, <2>2 DEF FastPath
  <2>4. transform_to_cartesian(q, cf, t) =
          ForwardWith(q, cf, t, Sin(p.a), Cos(p.a), Sin(p.c), Cos(p.c))
    BY <2>2, <2>3 DEF transform_to_cartesian
  <2>5. /\ <<Sin(p.a), Cos(p.a)>> \in Unit
        /\ <<Sin(p.c), Cos(p.c)>> \in Unit
    BY TrigUnit DEF Vectors
  <2>. QED  BY <2>1, <2>4, <2>5, RotationsInverse
<1>. QED  BY <1>1, <1>2

\* the cache holds the sin and cos of the angles it was computed for
Coherent(k) ==
    k.cache_valid =>
        /\ k.sin_a = Sin(k.last_a) /\ k.cos_a = Cos(k.last_a)
        /\ k.sin_c = Sin(k.last_c) /\ k.cos_c = Cos(k.last_c)

\* sin and cos of a quarter turn are -1, 0 or 1
LEMMA TrigRange ==
    ASSUME NEW d \in QuarterTurns
    PROVE  Sin(d) \in {-1, 0, 1} /\ Cos(d) \in {-1, 0, 1}
BY TrigUnit DEF Unit

\* after update_trig_cache the cache is valid, keyed on the angles of the
\* call and coherent
LEMMA UpdateCoherent ==
    ASSUME NEW k \in Caches, Coherent(k),
           NEW a \in QuarterTurns, NEW c \in QuarterTurns
    PROVE  LET u == update_trig_cache(k, a, c)
           IN  /\ u \in Caches /\ Coherent(u)
               /\ u.cache_valid /\ u.last_a = a /\ u.last_c = c
<1>1. Sin(a) \in {-1, 0, 1} /\ Cos(a) \in {-1, 0, 1}
      /\ Sin(c) \in {-1, 0, 1} /\ Cos(c) \in {-1, 0, 1}
  BY TrigRange
<1>2. CASE ~k.cache_valid \/ a # k.last_a \/ c # k.last_c
  BY <1>1, <1>2 DEF update_trig_cache, Caches, Coherent
<1>3. CASE ~(~k.cache_valid \/ a # k.last_a \/ c # k.last_c)
  BY <1>3 DEF update_trig_cache, Coherent
<1>. QED  BY <1>2, <1>3

\* the inverse transform read through a coherent cache is the one computed
\* with fresh trigonometry
LEMMA CachedInverseExact ==
    ASSUME NEW k \in Caches, Coherent(k),
           NEW p \in Vectors, NEW cf \in Settings, NEW t \in Int
    PROVE  transform_from_cartesian(p, k, cf, t) = InverseExact(p, cf, t)
<1>1. CASE FastPath(p)
  BY <1>1 DEF transform_from_cartesian, InverseExact
<1>2. CASE ~FastPath(p)
  <2> DEFINE u == update_trig_cache(k, p.a, p.c)
  <2>1. u.cache_valid /\ u.last_a = p.a /\ u.last_c = p.c /\ Coherent(u)
    BY UpdateCoherent DEF Vectors
  <2>2. /\ u.sin_a = Sin(p.a) /\ u.cos_a = Cos(p.a)
        /\ u.sin_c = Sin(p.c) /\ u.cos_c = Cos(p.c)
    BY <2>1 DEF Coherent
  <2>. QED  BY <1>2, <2>2 DEF transform_from_cartesian, InverseExact
<1>. QED  BY <1>1, <1>2

\* the output of step 4 of transform_from_cartesian is a vector
LEMMA InverseWithType ==
    ASSUME NEW p \in Vectors, NEW cf \in Settings, NEW t \in Int,
           NEW sa \in Int, NEW ca \in Int, NEW sc \in Int, NEW cc \in Int
    PROVE  InverseWith(p, cf, t, sa, ca, sc, cc) \in Vectors
BY DEF InverseWith, Vectors, Settings

\* the output of transform_to_cartesian is a vector
LEMMA ForwardType ==
    ASSUME NEW m \in Vectors, NEW cf \in Settings, NEW t \in Int
    PROVE  transform_to_cartesian(m, cf, t) \in Vectors
<1>1. /\ Sin(m.a) \in Int /\ Cos(m.a) \in Int
      /\ Sin(m.c) \in Int /\ Cos(m.c) \in Int
  BY TrigRange DEF Vectors
<1>. QED  BY <1>1 DEF transform_to_cartesian, ForwardWith, Vectors, Settings

\* the exact inverse transform of a vector is a vector
LEMMA InverseExactType ==
    ASSUME NEW p \in Vectors, NEW cf \in Settings, NEW t \in Int
    PROVE  InverseExact(p, cf, t) \in Vectors
<1>1. /\ Sin(p.a) \in Int /\ Cos(p.a) \in Int
      /\ Sin(p.c) \in Int /\ Cos(p.c) \in Int
  BY TrigRange DEF Vectors
<1>. QED  BY <1>1, InverseWithType DEF InverseExact

\* every point a model enumerates is a vector
LEMMA PointsAreVectors == Points \subseteq Vectors
BY DEF Points, Vectors

\* a call of transform_from_cartesian, whatever its point, leaves a coherent
\* cache coherent: update_trig_cache either keeps the cache or stores the
\* sin and cos of the very angles it records
LEMMA TrigCacheAfterCoherent ==
    ASSUME NEW k, Coherent(k), NEW p
    PROVE  Coherent(TrigCacheAfter(p, k))
<1>1. CASE FastPath(p)
  BY <1>1 DEF TrigCacheAfter
<1>2. CASE ~FastPath(p) /\ (~k.cache_valid \/ p.a # k.last_a \/ p.c # k.last_c)
  BY <1>2 DEF TrigCacheAfter, update_trig_cache, Coherent
<1>3. CASE ~FastPath(p) /\ ~(~k.cache_valid \/ p.a # k.last_a \/ p.c # k.last_c)
  BY <1>3 DEF TrigCacheAfter, update_trig_cache
<1>. QED  BY <1>1, <1>2, <1>3

\* the inverse read through any coherent cache (typed or not) is the one
\* computed with fresh trigonometry
LEMMA CoherentInverseExact ==
    ASSUME NEW k, Coherent(k), NEW p, NEW cf, NEW t
    PROVE  transform_from_cartesian(p, k, cf, t) = InverseExact(p, cf, t)
<1>1. CASE FastPath(p)
  BY <1>1 DEF transform_from_cartesian, InverseExact
<1>2. CASE ~FastPath(p)
  <2> DEFINE u == update_trig_cache(k, p.a, p.c)
  <2>1. /\ u.sin_a = Sin(p.a) /\ u.cos_a = Cos(p.a)
        /\ u.sin_c = Sin(p.c) /\ u.cos_c = Cos(p.c)
    BY DEF update_trig_cache, Coherent
  <2>. QED  BY <1>2, <2>1 DEF transform_from_cartesian, InverseExact
<1>. QED  BY <1>1, <1>2

=============================================================================
