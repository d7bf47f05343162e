------------------------- MODULE CartesianKinematics -------------------------
(***************************************************************************)
(* The identity kinematics of src/src/grbl/kinematics/carteciana.c and     *)
(* carteciano2.c driven by the host's mc_line loop.  Both files install    *)
(* the same segment_line: init copies the target into the static buffer    *)
(* trsf and sets the static uint_fast8_t counter to 2; every call returns  *)
(* "iterations-- == 0 ? NULL : trsf".  The host (grblHAL's mc_line, not in *)
(* this repository, modelled from the loop documented in rtcp.c's header)  *)
(* makes one init call, checks the returned point against the soft limits  *)
(* and then plans every point the produce calls return until NULL.         *)
(*                                                                         *)
(* Data abstraction.  A point is a model value: the copy loops of          *)
(* transform_from_cartesian are the identity on it.  The counter keeps     *)
(* its width (IterationsModulus): its post-decrement from 0 wraps.         *)
(***************************************************************************)
EXTENDS Naturals

CONSTANTS
    Targets,            \* Cartesian targets a motion block may request
    InEnvelope,         \* targets that pass the host's limits_soft_check
    Origin,             \* the zero vector the static buffer holds at power-up
    Null,               \* the NULL pointer segment_line returns at the end
    IterationsModulus,  \* 2^w for the width w of uint_fast8_t
    MaxMoves            \* motion blocks started in one behaviour

ASSUME CartesianAssumption ==
    /\ InEnvelope \subseteq Targets
    /\ Origin \notin Targets
    /\ Null \notin Targets \cup {Origin}
    /\ IterationsModulus \in Nat /\ IterationsModulus > 2
    /\ MaxMoves \in Nat

\* which init function installed the kinematics hooks at start-up
Plugins == {"cartesian_init", "cartesian2_init"}

VARIABLES
    plugin,      \* the hooks installed by cartesian_init or cartesian2_init
    iterations,  \* static uint_fast8_t iterations of segment_line
    trsf,        \* static float trsf[N_AXIS] of segment_line
    phase,       \* mc_line: "idle" or "segmenting" (inside its while loop)
    block,       \* the motion block mc_line is executing
    position,    \* the last point handed to plan_buffer_line
    count,       \* points planned for the block: 0, 1, or 2 for "two or more"
    moves        \* blocks started so far

vars == <<plugin, iterations, trsf, phase, block, position, count, moves>>

-----------------------------------------------------------------------------
\* transform_from_cartesian: copy every axis, the identity
transform_from_cartesian(p) == p

\* mutation: the counter decremented as if it were signed
PostDecrementSigned(n) == n - 1

\* "iterations--" on an unsigned counter of IterationsModulus values
PostDecrement(n) == (n + IterationsModulus - 1) % IterationsModulus

\* mutation: init reloads the counter with 3
KinematicsSegmentLineThree(t, init, it, tr) ==
    LET n   == IF init THEN 3 ELSE it
        buf == IF init THEN transform_from_cartesian(t) ELSE tr
    IN  [iterations |-> PostDecrement(n), trsf |-> buf,
         ret |-> IF n = 0 THEN Null ELSE buf]

\* mutation: the produce call does not decrement the counter
KinematicsSegmentLineNoDecrement(t, init, it, tr) ==
    LET n   == IF init THEN 2 ELSE it
        buf == IF init THEN transform_from_cartesian(t) ELSE tr
    IN  [iterations |-> IF init THEN PostDecrement(n) ELSE n, trsf |-> buf,
         ret |-> IF n = 0 THEN Null ELSE buf]

\* kinematics_segment_line of carteciana.c: the counter, the buffer and the
\* returned pointer after one call with the given counter and buffer
kinematics_segment_line(t, init, it, tr) ==
    LET n   == IF init THEN 2 ELSE it
        buf == IF init THEN transform_from_cartesian(t) ELSE tr
    IN  [iterations |-> PostDecrement(n), trsf |-> buf,
         ret |-> IF n = 0 THEN Null ELSE buf]

\* cartesian2_segment_line of carteciano2.c: the same statements
cartesian2_segment_line(t, init, it, tr) == kinematics_segment_line(t, init, it, tr)

\* kinematics.segment_line: the function the installed init put there
segment_line(t, init) ==
    IF plugin = "cartesian_init"
    THEN kinematics_segment_line(t, init, iterations, trsf)
    ELSE cartesian2_segment_line(t, init, iterations, trsf)

Blocks == [id : 0..MaxMoves, target : Targets \cup {Origin}, valid : BOOLEAN]

TypeOK ==
    /\ plugin \in Plugins
    /\ iterations \in 0..(IterationsModulus - 1)
    /\ trsf \in Targets \cup {Origin}
    /\ phase \in {"idle", "segmenting"}
    /\ block \in Blocks
    /\ position \in Targets \cup {Origin}
    /\ count \in 0..2
    /\ moves \in 0..MaxMoves

\* power-up: zeroed statics, cartesian_init or cartesian2_init installed
Init ==
    /\ plugin \in Plugins
    /\ iterations = 0
    /\ trsf = Origin
    /\ phase = "idle"
    /\ block = [id |-> 0, target |-> Origin, valid |-> FALSE]
    /\ position = Origin
    /\ count = 0
    /\ moves = 0

-----------------------------------------------------------------------------
(* mc_line: the init call, then the soft-limit check of the point it       *)
(* returns; an invalid target aborts the block before any produce call.    *)
StartMove(t) ==
    LET r == segment_line(t, TRUE) IN
    /\ phase = "idle"
    /\ moves < MaxMoves
    /\ moves' = moves + 1
    /\ iterations' = r.iterations
    /\ trsf' = r.trsf
    /\ block' = [id |-> moves + 1, target |-> t,
                 valid |-> r.ret # Null /\ r.ret \in InEnvelope]
    /\ phase' = IF block'.valid THEN "segmenting" ELSE "idle"
    /\ count' = 0
    /\ UNCHANGED <<plugin, position>>

(* one produce call of mc_line's while loop and, when it returns a point,  *)
(* plan_buffer_line of that point                                          *)
NextSegment ==
    LET r == segment_line(block.target, FALSE) IN
    /\ phase = "segmenting"
    /\ iterations' = r.iterations
    /\ trsf' = r.trsf
    /\ IF r.ret = Null
       THEN /\ phase' = "idle"
            /\ UNCHANGED <<position, count>>
       ELSE /\ position' = r.ret
            /\ count' = IF count < 2 THEN count + 1 ELSE 2
            /\ UNCHANGED phase
    /\ UNCHANGED <<plugin, block, moves>>

Next ==
    \/ \E t \in Targets : StartMove(t)
    \/ NextSegment

\* mc_line keeps calling segment_line until it returns NULL
Spec == Init /\ [][Next]_vars /\ WF_vars(NextSegment)

-----------------------------------------------------------------------------
(* Properties *)

\* Spec 8.3 for the identity kinematics: segment_line emits exactly one
\* segment per move, the target itself.  The init call and the first produce
\* call both return trsf; only the produce call's point reaches the planner,
\* and the post-decrement makes the second produce call return NULL.
IdentitySingleSegment ==
    /\ count = 1 => position = block.target
    /\ phase = "idle" /\ block.valid => count = 1

\* mc_line's while loop ends: every accepted block reaches the NULL return.
MoveReturns == phase = "segmenting" ~> phase = "idle"

=============================================================================
