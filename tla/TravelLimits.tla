---------------------------- MODULE TravelLimits ----------------------------
(***************************************************************************)
(* The travel-limit hooks of src/src/grbl/kinematics/rtcp.c: the validity  *)
(* check rtcp_check_travel_limits and the jog clip rtcp_apply_travel_limits *)
(* that bisects between the current position and an invalid destination.  *)
(*                                                                         *)
(* Data abstraction.  The bisection only ever evaluates points of the      *)
(* dyadic grid g / Span (Span = 2^BisectionIterations) of the straight     *)
(* Cartesian segment from the current position (g = 0) to the destination *)
(* (g = Span): 0.5f * (start + end) is exact on it.  Which kind of point   *)
(* lies at each grid position is the geometry of the jog, chosen in Init: *)
(* a point kind p says on which axes its joint image leaves the envelope   *)
(* (JointOut[p]) and on which its Cartesian coordinates do (CartOut[p]).  *)
(***************************************************************************)
EXTENDS Naturals

CONSTANTS
    Axes,                \* the machine axes
    SoftLimits,          \* sys.soft_limits: the axis mask passed by the clip
    Pts,                 \* kinds of Cartesian point
    JointOut,            \* JointOut[p]: axes where the joint image of p is out
    CartOut,             \* CartOut[p]: axes where p itself is out
    BisectionIterations  \* BISECTION_ITERATIONS (16)

ASSUME TravelAssumption ==
    /\ SoftLimits \subseteq Axes
    /\ JointOut \in [Pts -> SUBSET Axes]
    /\ CartOut \in [Pts -> SUBSET Axes]
    /\ BisectionIterations \in Nat

Span == 2 ^ BisectionIterations

\* 2^n is a positive natural number (TLC evaluates it; the provers have no
\* induction over ^)
ASSUME SpanPositive == Span \in Nat \ {0}

\* the recurrence of 2^k up to BISECTION_ITERATIONS, which the halving of
\* the bracket follows (TLC evaluates it; the provers know nothing of ^)
ASSUME PowersOfTwo ==
    /\ 2^0 = 1
    /\ \A k \in 0..BisectionIterations : 2^k \in Nat \ {0}
    /\ \A k \in 1..BisectionIterations : 2^k = 2 * 2^(k - 1)

Grid == 0..Span

VARIABLES
    rtcp_enabled,   \* static bool rtcp_enabled
    homed,          \* sys.homed.mask
    path,           \* the point kind at every grid position of the jog
    has_position,   \* position != NULL
    target,         \* the destination, as a grid position
    start,          \* float start[N_AXIS]
    end,            \* float end[N_AXIS]
    best,           \* float best[N_AXIS]
    i,              \* the loop counter
    pc              \* "call", "loop" or "done" (returned)

vars == <<rtcp_enabled, homed, path, has_position, target, start, end, best,
          i, pc>>

-----------------------------------------------------------------------------
\* the host's native check (machine_limits.c): only Cartesian points pass,
\* and only homed axes of the mask are compared
orig_check_travel_limits(p, axes, is_cartesian) ==
    is_cartesian /\ \A idx \in homed \cap axes : idx \notin CartOut[p]

\* rtcp_check_travel_limits: a bypass when RTCP is off, otherwise the joint
\* image checked on the homed axes of the mask and, for a Cartesian point,
\* the native check as well.  For a joint point JointOut[p] is read as the
\* axes where p itself is out (the memcpy branch).
rtcp_check_travel_limits(p, axes, is_cartesian) ==
    IF ~rtcp_enabled
    THEN orig_check_travel_limits(p, axes, is_cartesian)
    ELSE /\ \A idx \in homed \cap axes : idx \notin JointOut[p]
         /\ is_cartesian => orig_check_travel_limits(p, axes, TRUE)

\* the check the clip applies to the grid position g
Valid(g) == rtcp_check_travel_limits(path[g], SoftLimits, TRUE)

-----------------------------------------------------------------------------
TypeOK ==
    /\ rtcp_enabled \in BOOLEAN
    /\ homed \subseteq Axes
    /\ path \in [Grid -> Pts]
    /\ has_position \in BOOLEAN
    /\ target \in Grid
    /\ start \in Grid /\ end \in Grid /\ best \in Grid
    /\ i \in 0..BisectionIterations
    /\ pc \in {"call", "loop", "done"}

\* Every Cartesian coordinate is linear along the jog, so on each axis the
\* grid positions inside the box are contiguous (only the joint image of a
\* rotating jog can leave the envelope and come back).
CartesianConvex(pth) ==
    \A ax \in Axes, g, h \in Grid :
        ax \notin CartOut[pth[g]] /\ ax \notin CartOut[pth[h]] =>
            \A k \in g..h : ax \notin CartOut[pth[k]]

\* the state in which mc_jog_execute calls grbl.apply_travel_limits
Init ==
    /\ rtcp_enabled \in BOOLEAN
    /\ homed \in SUBSET Axes
    /\ path \in {pth \in [Grid -> Pts] : CartesianConvex(pth)}
    /\ has_position \in BOOLEAN
    /\ target = Span
    /\ start = 0 /\ end = 0 /\ best = 0
    /\ i = 0
    /\ pc = "call"

\* mutation: best starts at the invalid end point
ApplyCallBestAtEnd ==
    /\ pc = "call"
    /\ IF homed = {} \/ ~has_position \/ Valid(target)
       THEN /\ pc' = "done"
            /\ UNCHANGED <<start, end, best, i>>
       ELSE /\ start' = 0
            /\ end' = target
            /\ best' = target
            /\ i' = 0
            /\ pc' = "loop"
    /\ UNCHANGED <<rtcp_enabled, homed, path, has_position, target>>

\* mutation: the position != NULL test is dropped
ApplyCallNoPositionCheck ==
    /\ pc = "call"
    /\ IF homed = {} \/ Valid(target)
       THEN /\ pc' = "done"
            /\ UNCHANGED <<start, end, best, i>>
       ELSE /\ start' = 0
            /\ end' = target
            /\ best' = 0
            /\ i' = 0
            /\ pc' = "loop"
    /\ UNCHANGED <<rtcp_enabled, homed, path, has_position, target>>

\* the early returns, then start = position, end = target, best = start
ApplyCall ==
    /\ pc = "call"
    /\ IF homed = {} \/ ~has_position \/ Valid(target)
       THEN /\ pc' = "done"
            /\ UNCHANGED <<start, end, best, i>>
       ELSE /\ start' = 0
            /\ end' = target
            /\ best' = 0
            /\ i' = 0
            /\ pc' = "loop"
    /\ UNCHANGED <<rtcp_enabled, homed, path, has_position, target>>

\* mutation: a valid midpoint is recorded but the lower bound stays
BisectStepKeepStart ==
    LET mid == (start + end) \div 2 IN
    /\ pc = "loop"
    /\ i < BisectionIterations
    /\ IF Valid(mid)
       THEN /\ best' = mid
            /\ UNCHANGED <<start, end>>
       ELSE /\ end' = mid
            /\ UNCHANGED <<start, best>>
    /\ i' = i + 1
    /\ UNCHANGED <<rtcp_enabled, homed, path, has_position, target, pc>>

\* mutation: the loop runs while i <= BISECTION_ITERATIONS
BisectStepOneMore ==
    LET mid == (start + end) \div 2 IN
    /\ pc = "loop"
    /\ i <= BisectionIterations
    /\ IF Valid(mid)
       THEN /\ best' = mid
            /\ start' = mid
            /\ UNCHANGED end
       ELSE /\ end' = mid
            /\ UNCHANGED <<start, best>>
    /\ i' = i + 1
    /\ UNCHANGED <<rtcp_enabled, homed, path, has_position, target, pc>>

\* one iteration of the bisection loop
BisectStep ==
    LET mid == (start + end) \div 2 IN
    /\ pc = "loop"
    /\ i < BisectionIterations
    /\ IF Valid(mid)
       THEN /\ best' = mid
            /\ start' = mid
            /\ UNCHANGED end
       ELSE /\ end' = mid
            /\ UNCHANGED <<start, best>>
    /\ i' = i + 1
    /\ UNCHANGED <<rtcp_enabled, homed, path, has_position, target, pc>>

\* memcpy(target, best): the clipped destination
ApplyFinish ==
    /\ pc = "loop"
    /\ i = BisectionIterations
    /\ target' = best
    /\ pc' = "done"
    /\ UNCHANGED <<rtcp_enabled, homed, path, has_position, start, end, best, i>>

Next == ApplyCall \/ BisectStep \/ ApplyFinish

Spec == Init /\ [][Next]_vars

-----------------------------------------------------------------------------
(* Properties *)

\* the straight segment from the current position to grid position g
\* stays valid at every grid point
PathValidUpTo(g) == \A h \in 0..g : Valid(h)

\* validity along the jog is an interval starting at the position: the
\* joint image leaves the envelope once and never comes back
Monotone == \A g \in Grid : Valid(g) => PathValidUpTo(g)

\* After the clip, a jog from a valid position goes to a valid destination:
\* rtcp_apply_travel_limits never hands an invalid target to the jog
\* (spec 8.7, first half).
ClipKeepsValid ==
    pc = "done" /\ has_position /\ Valid(0) => Valid(target)

\* When the envelope boundary is crossed once along the jog, the clipped
\* destination is the last valid grid point before it: the error against
\* the true boundary is at most Span^-1 of the jog (spec 8.7, second half).
ClipNearBoundary ==
    pc = "done" /\ has_position /\ homed # {} /\ Valid(0) /\ Monotone
        => /\ Valid(target)
           /\ target < Span => ~Valid(target + 1)

\* Spec 8.7 read for any geometry: when the destination lies outside the
\* envelope, the clipped destination is within one grid step of the first
\* point where the jog leaves the envelope, so the straight jog to it never
\* crosses an invalid stretch.
ClipBeforeFirstExit ==
    pc = "done" /\ has_position /\ Valid(0) /\ ~Valid(Span) =>
        PathValidUpTo(target)

\* The contract of the hook: the bisection seen from mc_jog_execute, where
\* the call and the loop are one step and only the returned target shows.
JC == INSTANCE JogClip WITH
        ok <- [g \in Grid |-> Valid(g)],
        enforced <- homed # {} /\ has_position,
        pc <- IF pc = "done" THEN "done" ELSE "call"

\* rtcp_apply_travel_limits implements the contract of apply_travel_limits:
\* it keeps a destination that passes the check or is not checked, and
\* otherwise returns a point strictly before it on the jog that passes the
\* check whenever the position does (spec 4.5).
ImplementsJogClip == JC!Spec

=============================================================================
