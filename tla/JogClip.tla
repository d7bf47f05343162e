------------------------------ MODULE JogClip ------------------------------
(***************************************************************************)
(* What grbl.apply_travel_limits promises to mc_jog_execute, as one step:  *)
(* a jog destination that passes the travel-limit check, or that is not    *)
(* checked at all (nothing homed, no current position), is kept; any other *)
(* is moved back along the straight jog, never past it, to a point that    *)
(* passes the check whenever the current position does.  Points of the    *)
(* jog are grid positions 0 (the position) .. Span (the destination).      *)
(***************************************************************************)
EXTENDS Naturals

CONSTANT Span

VARIABLES
    ok,         \* ok[g]: the travel-limit check passes at grid position g
    enforced,   \* the clip is applied (some axis homed, a position given)
    target,     \* the jog destination
    pc          \* "call" before the hook returns, "done" after

vars == <<ok, enforced, target, pc>>

Init ==
    /\ ok \in [0..Span -> BOOLEAN]
    /\ enforced \in BOOLEAN
    /\ target = Span
    /\ pc = "call"

\* the hook returns, with the destination kept or clipped
Clip ==
    /\ pc = "call"
    /\ pc' = "done"
    /\ IF ~enforced \/ ok[target]
       THEN target' = target
       ELSE target' \in {g \in 0..(target - 1) : ok[0] => ok[g]}
    /\ UNCHANGED <<ok, enforced>>

Spec == Init /\ [][Clip]_vars

=============================================================================
