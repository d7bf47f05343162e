--------------------------- MODULE RtcpKinematics ---------------------------
(***************************************************************************)
(* The kinematic transforms of src/src/grbl/kinematics/rtcp.c and the      *)
(* trigonometric cache the inverse transform reads: transform_from_        *)
(* cartesian (TCP to joints, through update_trig_cache), transform_to_     *)
(* cartesian (joints to TCP, local trigonometry) behind the DRO hook       *)
(* transform_steps_to_cartesian, and the events that invalidate the cache: *)
(* a settings change, homing, M450 and M451.                               *)
(*                                                                         *)
(* The transforms are the operators of RtcpTransforms.                    *)
(***************************************************************************)
EXTENDS RtcpTransforms

Calls == [kind : {"none", "inverse", "dro"}, in : Vectors, out : Vectors,
          cfg : Settings, tlo : Int]

VARIABLES
    cfg,            \* rtcp.cfg
    tlo,            \* gc_state.modal.tool_length_offset[Z_AXIS]
    rtcp_enabled,   \* static bool rtcp_enabled
    cache,          \* rtcp.cache_valid, last_a, last_c, sin_a .. cos_c
    call            \* the last transform call: its input, output and context

vars == <<cfg, tlo, rtcp_enabled, cache, call>>

-----------------------------------------------------------------------------
Origin == [x |-> 0, y |-> 0, z |-> 0, a |-> 0, c |-> 0]

TypeOK ==
    /\ cfg \in Cfgs
    /\ tlo \in Tlos
    /\ rtcp_enabled \in BOOLEAN
    /\ cache \in Caches
    /\ call \in Calls

\* power-up: rtcp = {0}, RTCP off, the settings loaded
Init ==
    /\ cfg \in Cfgs
    /\ tlo \in Tlos
    /\ rtcp_enabled = FALSE
    /\ cache = EmptyCache
    /\ call = [kind |-> "none", in |-> Origin, out |-> Origin,
               cfg |-> cfg, tlo |-> tlo]

\* kinematics.transform_from_cartesian(target, p), from the segmenter, the
\* travel-limit check or the host: it does not look at rtcp_enabled
InverseCall(p) ==
    /\ cache' = TrigCacheAfter(p, cache)
    /\ call' = [kind |-> "inverse", in |-> p,
                out |-> transform_from_cartesian(p, cache, cfg, tlo),
                cfg |-> cfg, tlo |-> tlo]
    /\ UNCHANGED <<cfg, tlo, rtcp_enabled>>

\* kinematics.transform_steps_to_cartesian(position, sys.position) for a
\* status report: the joint position m (steps / steps_per_mm) to the DRO
DroCall(m) ==
    /\ call' = [kind |-> "dro", in |-> m,
                out |-> transform_steps_to_cartesian(m, rtcp_enabled, cfg, tlo),
                cfg |-> cfg, tlo |-> tlo]
    /\ UNCHANGED <<cfg, tlo, rtcp_enabled, cache>>

\* rtcp_kinematics_settings_changed: the stored settings become rtcp.cfg,
\* the cache tolerance is recomputed and the cache invalidated
SettingsChanged(cf) ==
    /\ cfg' = cf
    /\ cache' = invalidate_cache(cache)
    /\ UNCHANGED <<tlo, rtcp_enabled, call>>

\* mutation: a new tool length offset is added to the active one
ToolLengthOffsetAccumulate(t) ==
    /\ tlo' = tlo + t
    /\ UNCHANGED <<cfg, rtcp_enabled, cache, call>>

\* the host's G43 / G43.1 / G49 changes the tool length offset on Z
ToolLengthOffset(t) ==
    /\ tlo' = t
    /\ UNCHANGED <<cfg, rtcp_enabled, cache, call>>

\* the end of rtcp_limits_set_machine_positions (homing): invalidate_cache
HomingDone ==
    /\ cache' = invalidate_cache(cache)
    /\ UNCHANGED <<cfg, tlo, rtcp_enabled, call>>

\* rtcp_mcode_execute, M450 with RTCP on (with RTCP off it does nothing)
M450 ==
    /\ rtcp_enabled
    /\ rtcp_enabled' = FALSE
    /\ cache' = invalidate_cache(cache)
    /\ UNCHANGED <<cfg, tlo, call>>

\* rtcp_mcode_execute, M451
M451 ==
    /\ rtcp_enabled' = TRUE
    /\ cache' = invalidate_cache(cache)
    /\ UNCHANGED <<cfg, tlo, call>>

Next ==
    \/ \E p \in Points : InverseCall(p)
    \/ \E m \in Points : DroCall(m)
    \/ \E cf \in Cfgs : SettingsChanged(cf)
    \/ \E t \in Tlos : ToolLengthOffset(t)
    \/ HomingDone
    \/ M450
    \/ M451

Spec == Init /\ [][Next]_vars

-----------------------------------------------------------------------------
(* Properties *)

\* Spec 8.8: whatever calls, settings changes, homings and mode changes came
\* before, transform_from_cartesian returns what it computes with fresh
\* trigonometry: the cache never serves the sin/cos of other angles.
CacheTransparent ==
    call.kind = "inverse" =>
        call.out = InverseExact(call.in, call.cfg, call.tlo)

\* Spec 8.1: the forward transform of the joints transform_from_cartesian
\* returned gives back the requested TCP point, TLO and axis offsets
\* included (the DRO shows the point that was commanded).
RoundTrip ==
    call.kind = "inverse" =>
        transform_to_cartesian(call.out, call.cfg, call.tlo) = call.in

\* Spec 8.3: with RTCP off the inverse transform is the identity.
IdentityModeInverse ==
    call.kind = "inverse" /\ ~rtcp_enabled => call.out = call.in

\* Spec 8 scenario "inverse((100,100,100,0,90)) = (100,100,100,0,90)",
\* and the code's own comment "zc = pz" on step 2: a rotation of C alone
\* (A = 0) turns the tool about the vertical and leaves joint Z where the
\* requested Z is, whatever the tool length offset.
RotationAboutZKeepsZ ==
    call.kind = "inverse" /\ call.in.a = 0 => call.out.z = call.in.z

=============================================================================
