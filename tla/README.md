# Verification of the RTCP 5-axis kinematics plugin

This directory holds TLA+ models of `src/src/grbl/kinematics/rtcp.c`, the
grblHAL kinematics plugin for a table-table 5-axis machine (A tilting about
X, C rotating about Z) with Rotation Tool Center Point control. It also holds
the TLC configurations that check the models and the TLAPS proofs about them.

## The system

`rtcp.c` plugs into grblHAL through hooks. Its parts are:

| part | code | role |
|---|---|---|
| segmenter | `rtcp_segment_line` (1058-1292) | a coroutine whose state lives in static locals; grblHAL's `mc_line` calls it once with `init = true`, then with `init = false` until it returns NULL, and plans every point it returns |
| kinematics | `transform_from_cartesian` (483-590), `transform_to_cartesian` (620-691), `transform_steps_to_cartesian` (709-732) | TCP to joint and back; the identity when A = C = 0 |
| trig cache | `update_trig_cache`, `invalidate_cache` (406-437) | sin/cos of the last angles, reused within a tolerance |
| travel limits | `rtcp_check_travel_limits` (851-914), `rtcp_apply_travel_limits` (941-979) | envelope check of a joint point; bisection clamp of jog targets |
| homing | hooks at 753-806 | per-axis homing targets and machine positions |
| mode | `rtcp_mcode_*` (1437-1486) | M450 switches RTCP off and M451 switches it on; `user_mcode_sync` makes the parser wait for an empty buffer first |
| jog cancel | `on_jog_cancel_handler` (1392-1398) | sets `volatile bool jog_cancel`, which the segmenter reads on every call |
| settings, reports | 1299-1421, 1496-1556 | NVS settings, status text, `$RTCP` |

`carteciana.c` and `carteciano2.c` are identity kinematics, kept for
comparison; a build installs one kinematics through its init function
(`rtcp_5axis_init`, `cartesian_init` or `cartesian2_init`). Each has its own
copy of `segment_line` (an 8-bit counter set to 2 at init, and
`return iterations-- == 0 ? NULL : trsf`), of `transform_from_cartesian`
(a copy loop) and of the homing hooks. The RTCP bypass is meant to behave
like them. `test_input.c` is
an unrelated Windows console program.

The parts interact as follows:

- `mc_line` drives the segmenter.
- The segmenter calls the kinematics (and through them the cache) and the travel-limit hook.
- The jog-cancel callback and the M-codes change flags the segmenter reads.

`mc_line` itself is grblHAL core code and is not in this repository. Its loop
is modelled from the description in `rtcp.c`'s header (lines 87-133) and from
the spec. The definitions it stands for are marked `spec_modelled` in
PROJECT.json.

## Modules

**RtcpSegmenter.tla** models the segmenter, its host loop, the mode flag and
the jog-cancel flag.

- *State.*
  - `rtcp_enabled` and `jog_cancel` are the module statics.
  - `iterations`, `segmented`, `distance`, `final_target`, `segment_target`, `mpos` and `last_motors` are the static locals of `rtcp_segment_line`. `distance` is abstracted to the test `distance > 0.0001` that line 1268 makes of it.
  - For the host, `phase` says whether `mc_line`'s while loop is running. `block` is the motion block, `position` the last planned joint point, `count` the segments planned for the block and `feed_comp` whether the last one had its feed rescaled.
  - `moves` counts blocks.
  - `nseg` is a history variable holding the segment count decided at init.
- *Data.* Coordinates are symbolic.
  - A TCP point is one of a requested target (a model value), the power-up zero vector `Origin`, or `Waypoint(m, k)`: `segment_target` after k additions of `delta` in move m. Float rounding keeps a waypoint distinct from the target.
  - A joint point is `Raw(p)`, a verbatim copy (the A = C = 0 fast path or the bypass memcpy), or `[tcp |-> p]`, the rotated image.
  - The chord-error estimate `ceilf(sqrtf(err/tol))` is chosen from `{0} \cup 2..MaxErrSteps`. Here 0 stands for err <= tol, and err > tol gives at least 2, so a subdivided move has 1 segment or at least 4 before the clamp.
- *Actions.*
  - `StartMove` is `mc_line`'s init call. It takes one of two branches: `InitBypass`, the `!rtcp_enabled` branch at 1086-1098, or `InitRtcp`, lines 1099-1233. It then records the block and enters the loop if the block's target is valid. The target is valid when the caller pre-validated it or when the end point lies in the envelope; otherwise `limits_soft_check` aborts the move.
  - `NextSegment` is one produce call (1234-1291) together with the `plan_buffer_line` of the returned point.
  - `JogCancel` is the callback.
  - `M450` and `M451` are `rtcp_mcode_execute`.
- *Assumption.* `WaypointsFresh`: no accumulated waypoint is a requested target or the zero vector. Float rounding of `segment_target + delta` is what the symbolic points stand for.

**MoveContract.tla** is the abstract specification of what `mc_line` gets
from `kinematics.segment_line` for one block (spec 4.3-4.4). It sees only
the joint points handed to the planner, not the segmenter's statics.

- *State.* The mode flag, the cancel flag, the block (its id, target, jog and rapid flags, the mode at its start, and whether the caller validated it), the loop `phase`, the last planned joint `position`, the segments planned `count`, and the block counter.
- *Actions.*
  - `Start` accepts a block. A target in the envelope is always accepted.
  - `PlanWaypoint` plans the image of the next waypoint and leaves room for the target.
  - `PlanTarget` plans the image of the exact target, within `MaxSegments`.
  - `PlanBypass` is the one segment of a block started with RTCP off, to some joint point. The contract does not say which point, because the bypass plans a stale one (the first finding).
  - `Finish` ends the loop, only on arrival or after a cancel.
  - `Cancel` and `SetMode` are the callback and M450/M451.

`RtcpSegmenter` instantiates it as `Contract`. The variables map to the ones
of the same name, `Points` to the targets and `Origin`, `Image` to
`transform_from_cartesian` and `Way` to `Waypoint`. The property
`ImplementsMoveContract == Contract!Spec` says that the segmenter and its loop
implement the contract: the init call is `Start`, and each produce call is a
planning step or `Finish`. Jog cancels and mode changes map to themselves.

**RtcpTransforms.tla** holds the transforms and the cache operators that
`RtcpKinematics`, `RtcpKinematicsProofs` and `SegmentEnvelope` share (see
`RtcpKinematics` below for what they translate).

**SegmentEnvelope.tla** is the RTCP branch of the segmenter on concrete
coordinates, computed with those transforms.

- *State.* The static locals `iterations`, `segmented`, `delta`, `segment_target`, `final_target`, `mpos`; the trig `cache`; `cfg` and `tlo`; the host's `phase`, the joint `position` last planned and a block counter.
- *Actions.* `StartMove(t, rapid)` is the init call with RTCP on (1100-1226): the joint image of the target is validated with `rtcp_check_travel_limits` (851-880) as `limits_soft_check` would see it, the current joints are transformed forward, `delta` and the rotation test follow, and for a rotating move the TCP midpoint is transformed and the squared chord error between its joint image and the joint midpoint (`FourErrSq`, 1179-1187) gives the iteration count (`ChordIterations`, 1192-1199, then the clamp). `NextSegment` is a produce call (1234-1291) and the planning of its point.
- *Data.* Coordinates are integers and angles quarter turns. The chord test is compared in exact integers: with e4 = 4 err² in mm² and T the tolerance in hundredths, `err_sq > tol²` is `e4 > 4T²/10^4`, and `ceilf(sqrtf(err/tol))` is the least m with `T² m^4 >= 2500 e4`. The guard `Exact` admits only moves whose midpoint and waypoints stay on that grid; the clamp `MaxSegments = 2` then keeps every subdivided move on it. `delta` is typed as any integer vector (`Steps`), not as a point. For a rotating move that is not subdivided, it is the whole difference of two angles: with angles ±270 TLC found `delta.a = -540`. Feed compensation and the jog-cancel flag do not change the points planned and stay in `RtcpSegmenter`.

**CartesianKinematics.tla** models the identity `segment_line` of both
Cartesian files under `mc_line`. The points are model values, and
`transform_from_cartesian` is the identity on them. The counter keeps its
width (`IterationsModulus` = 256), so the post-decrement on the NULL call
wraps to 255. `plugin` records which init installed the hooks.

**HomingHooks.tla** models the homing hooks of all three files, run by the
host's homing cycle (grblHAL's `limits_go_home`, modelled from spec 4.6).

- *State.* `kin` (the installed kinematics), the settings `force_set_origin` and the direction mask, `sys.position` (steps), `sys.home_position` (half millimetres), the homed axes, and the host's `cycle`, `phase` and the loop counter `idx`.
- *Actions.* `StartCycle` (after `homing_cycle_validate`), `Locate` (`limits_set_target_pos` zeroes the cycle's counters), `SetMachinePositionsStep` (one pass of the `do { if(cycle.mask & bit(--idx)) ... } while(idx)` loop of the installed `limits_set_machine_positions`, both branches) and `SettingsChanged`.
- *Data.* Lengths are integers in half millimetres, exact in float, and `lroundf` rounds half away from zero (`LRoundHalf`).

**TravelLimits.tla** models the travel-limit hooks.

- *State.*
  - `rtcp_enabled`, the homed-axis mask and `position != NULL` are read by the hooks.
  - `start`, `end`, `best` and the loop counter `i` are the locals of `rtcp_apply_travel_limits`.
  - `target` is the destination, and `pc` the point reached in the call.
- *Data.* The bisection only evaluates the dyadic points g/2^B of the straight Cartesian jog, so a point is its grid index g.
  - The geometry of the jog is `path`, chosen in Init. It says, for each grid point, on which axes its joint image (`JointOut`) and its Cartesian coordinates (`CartOut`) leave the envelope.
  - Cartesian coordinates are linear along the jog, so Init only admits paths where each axis's in-range points are contiguous (`CartesianConvex`). Joint images of a rotating jog are not linear, so they are unconstrained.
- *Definitions and actions.*
  - `rtcp_check_travel_limits` translates lines 851-914: the bypass, the homed-and-masked joint check, and the native Cartesian check. The native check itself is `orig_check_travel_limits`, which is grblHAL code modelled from the comment at 817-822 and spec 4.5.
  - `ApplyCall` covers the early returns and the set-up (943-956).
  - `BisectStep` is one loop iteration (958-975).
  - `ApplyFinish` is the final `memcpy` (977-978).

**JogClip.tla** is the abstract specification of what the host's
`grbl.apply_travel_limits` promises `mc_jog_execute` (spec 4.5). It has one
step, `Clip`:

- a destination that passes the check, or that is not checked at all (nothing homed, or no position), is kept;
- any other destination is moved strictly back along the jog, to a point that passes whenever the position does.

`TravelLimits` instantiates it as `JC` with this mapping:

- `ok` is the check at every grid point;
- `enforced` is `homed # {} /\ has_position`;
- the abstract `pc` is "done" once the hook has returned, and "call" otherwise (the loop included).

The property `ImplementsJogClip == JC!Spec` states that the bisection
implements the contract. The set-up and the loop steps are stutters of
`Clip`. The early return and `ApplyFinish` are its steps.

**RtcpKinematics.tla** models the transforms, the trig cache and everything
that invalidates the cache.

- *State.*
  - `cfg` is `rtcp.cfg`, and `tlo` is the host's tool length offset on Z.
  - `rtcp_enabled` is the mode flag.
  - `cache` holds `cache_valid`, `last_a`, `last_c` and the four cached sin/cos values.
  - `call` records the last hook call: its kind (inverse or DRO), its input and output, and the `cfg` and `tlo` it read.
- *Data.* Coordinates are integers and A and C are quarter turns, where `sinf` and `cosf` are 0 or ±1, so the code's formulas are evaluated exactly.
  - The tolerance `trig_cache_tol` is at most 0.00115 degrees, so between quarter turns the test `|a - last_a| > tol` is `a # last_a`.
  - `transform_steps_to_cartesian` divides steps by `steps_per_mm`. The model takes the resulting joint position as the input.
- *Definitions and actions.*
  - `InverseWith` and `ForwardWith` are steps 1 to 4 of the two transforms (545-579 and 654-681).
  - `transform_from_cartesian` adds the fast path and reads the cache through `update_trig_cache`.
  - `InverseCall` is a call of the hook `kinematics.transform_from_cartesian`, and `DroCall` a call of `kinematics.transform_steps_to_cartesian`.
  - `SettingsChanged` is `rtcp_kinematics_settings_changed`. `HomingDone` is the `invalidate_cache` that ends `rtcp_limits_set_machine_positions`. `M450` and `M451` are `rtcp_mcode_execute`. `ToolLengthOffset` is the host's G43.

## Runs

| run | cfg | result | what it shows |
|---|---|---|---|
| segmenter_core | MC_RtcpSegmenter.cfg | pass, 27 738 states | see below |
| identity_bypass | MC_RtcpIdentity.cfg | violation | the bypass plans a stale point (finding below) |
| travel_clip | MC_TravelLimits.cfg | pass, 85 032 states | `ClipKeepsValid`: the clip of a jog from a valid position is valid; `ClipNearBoundary`: if the jog leaves the envelope once, the clip is the last valid grid point; `ImplementsJogClip`: the bisection refines `JogClip` |
| clip_first_exit | MC_TravelLimitsExit.cfg | violation | `ClipBeforeFirstExit`: with an out-and-back joint image the clip lands past the first exit (finding below) |
| kinematics_cache | MC_RtcpKinematics.cfg | pass, 165 536 states | `CacheTransparent`: every inverse result equals the uncached transform (spec 8.8); `RoundTrip`: the forward transform maps it back to the requested point (spec 8.1) |
| identity_mode_inverse | MC_KinIdentityModeInverse.cfg | violation | `IdentityModeInverse`: with RTCP off the inverse hook still rotates (finding below) |
| c_rotation_tlo | MC_KinRotationAboutZKeepsZ.cfg | violation | `RotationAboutZKeepsZ`: a rotation of C alone moves joint Z by the tool length offset (finding below) |
| segment_envelope_ends | MC_SegmentEnvelope.cfg | pass, 4 616 states | `EndsInEnvelope`: between blocks the motors stand inside the envelope; the end-point validation of init does its job |
| segment_envelope_path | MC_SegmentEnvelopePath.cfg | violation | `SegmentsInEnvelope`: a rotating move between two valid points plans a midpoint outside the envelope (finding below) |
| cartesian_segmenter | MC_CartesianKinematics.cfg | pass, 120 states | `IdentitySingleSegment`: an accepted block plans exactly one point, its target; `MoveReturns`: the loop always reaches NULL |
| homing_hooks | MC_HomingHooks.cfg | pass, 26 464 states | with rtcp.c's hooks, `HomeCoherent`: after any cycles and settings changes every homed counter is `lroundf(home_position * steps_per_mm)`; `HomingKeepsOtherAxes`: a homing step never touches an axis outside the cycle |
| homing_cartesian_home | MC_HomingCartesian.cfg | violation | `HomeCoherent` with the Cartesian hooks, which never set `home_position` (finding below) |

`segmenter_core` checks these properties:

- `TypeOK`.
- `SegmentBound`: the clamp bounds every block.
- `RtcpSegmentsOnPath`: the k-th planned segment of an RTCP move is the image of the k-th waypoint, and the last is the image of the target itself.
- `RtcpMoveEndsAtTarget`: a finished uncancelled RTCP move has planned every segment and stands at its target.
- `CancelHonoured`: no segment is planned after a cancel.
- `RtcpMoveCompletes`: every accepted RTCP G-code move is eventually planned up to its target.
- `ImplementsMoveContract`: the segmenter and `mc_line`'s loop implement `MoveContract`.

**Bounds.**

- Three targets: one flat (A = C = 0), one rotated and in the envelope, one rotated and outside it.
- `MaxSegments = 5`, which is smaller than the largest estimate (2 * 3 = 6), so the clamp is exercised.
- `MaxMoves = 3`, which allows an RTCP move, a mode change and a bypass move in one behaviour.

For `travel_clip`, B = 3 gives a 9-point grid, which is enough for an
out-in-out pattern at every depth of the bisection. The run enumerates:

- every realisable geometry over three point kinds: valid, joint z out, and Cartesian x out;
- every homed mask over {x, z};
- RTCP on and off;
- position supplied or not.

For the kinematics runs, the instance takes the pivot (100, 100, 100) of the
spec's scenarios. It has two geometries: axis offsets (0, 0) and (20, 30).
Tool length offsets are 0 and 50. Coordinates are 0 and 100, so a point lies
on or off the pivot on each axis. A and C each range over -90, 0, 90 and 180,
which covers every quarter turn in the spec's range [-180, 180]. The cache
can then be hit, re-keyed on A only, re-keyed on C only, and invalidated
between any two calls.

The `SegmentEnvelope` instance puts the pivot at (100, 100, 100), with no
offsets and no tool length offset, and takes coordinates 0 and 100 and
angles -90 and 90. The envelope is X in [50, 200] and wide on the other
axes, so targets on both sides of its X edge occur. Every rotating move of
that instance has a chord error far above the tolerance, so the clamp
`MaxSegments = 2` (standing for 2000) decides the count and puts the first
waypoint at the TCP midpoint. The Cartesian instance has three targets, two
inside the envelope, and five blocks, which covers the counter's wrap after
every block. The homing instance has three axes with different travel,
pulloff and steps/mm (80, 3 and 5, so that odd products exercise the
rounding), every cycle, both flag values and every direction mask.

Runs of the clip end when the call returns, and the segmenter runs stop
when the block budget is spent and the host waits for input, so those runs
have `CHECK_DEADLOCK FALSE`.

**Fairness.** `WF(NextSegment)` only. `mc_line` calls `segment_line` in a
`while` loop with nothing in between that can block forever. (The planner may
wait for buffer space, but it always frees it.) No fairness is assumed for the
user's commands or for jog cancels. The same holds for the Cartesian
`segment_line` (`MoveReturns`).

Every property has a mutant, listed in PROJECT.json. Each is a plausible bug of
a mapped definition, and TLC reports the property violated when the mutant
replaces it:

- the clamp without its upper bound;
- the last segment advancing the waypoint;
- the loop ending one call early (also breaks `ImplementsMoveContract`);
- cancel ignored;
- cancel raised outside jogs;
- the bypass returning the Cartesian target;
- the cache re-keyed on A only;
- the forward transform with the old `sc * dy` term (the one the comment at 670 says was corrected);
- a tool length offset that accumulates;
- init leaving a cancel of an earlier jog set (breaks `RtcpMoveCompletes`);
- the envelope check at init applied to the Cartesian target instead of its joints (breaks `EndsInEnvelope`);
- NULL tested before the decrement, as the Cartesian files do (breaks `TypeOK` of `SegmentEnvelope`);
- the Cartesian counter decremented as a signed integer, reloaded with 3, or not decremented by a produce call;
- the homing loop testing the bit before the decrement, the forced-origin branch leaving `home_position`, and the loop not ending at axis 0.

The other mutants, of the travel-limit runs, are:

- the clip starting `best` at the invalid end;
- a valid midpoint that does not move the lower bound;
- one loop iteration too many;
- the `position != NULL` test dropped (breaks `ImplementsJogClip`).

## Findings

With RTCP off (the power-up default), `rtcp_segment_line(init)` copies the
target into `mpos` and returns without touching `final_target` (1086-1098).
`mc_line` then makes a produce call.

- It decrements `iterations` to 1.
- Because `segmented` is false, it copies the **stale** `final_target` into `segment_target` (1252) and returns its transform.
- So the point planned is the previous RTCP move's target, or the zero vector after power-up, instead of the programmed target.
- The stale `distance` can also rescale the feed (1268).

Spec sections 4.4 and 8.3 describe the bypass as the identity. TLC reaches this
in two steps: `StartMove` with RTCP off, then `NextSegment`.

The second finding is about the bisection clip of a jog
(`rtcp_apply_travel_limits`, 941-979). The bisection tests single midpoints.
It finds the envelope boundary only when the valid part of the jog is one
interval from the current position. Under rotation the joint image of a
straight Cartesian jog is sinusoidal and can leave the envelope, come back,
and leave again. TLC finds a jog that is invalid at 5/8, valid at 6/8 and
invalid from 7/8. The clip returns 6/8, so the clipped jog crosses the invalid
stretch at 5/8. Spec 8.7 says the clipped point is within 2^-16 of the true
boundary along the segment. The first half of 8.7 (the clip is valid) does
hold, and is proved.

The third and fourth findings are about the transforms.

`transform_from_cartesian` is installed as `kinematics.transform_from_cartesian`
(1607) and never reads `rtcp_enabled`. With RTCP off, it still rotates any
point whose A or C is at least 0.001 degrees. `transform_steps_to_cartesian`,
in contrast, is the identity when RTCP is off. So a host caller of the
inverse hook gets joints that the DRO does not read back. Spec 8.3 says the
inverse is the identity in identity mode. The plugin's own calls (865, 1104,
1183, 1256) all happen with RTCP on, so only host callers of the hook are
exposed.

The tool length offset cancels out of a rotation about Z. Step 1 subtracts
the offset from `pz` (555), and step 3 adds it back through
`dz = axis_offset_z + tlo` (550). With TLO 50 and pivot (100, 100, 100):

- `inverse((100,100,100,0,90))` gives joint Z = 50; spec 8 says Z stays at 100.
- The fast path below 0.001 degrees gives Z = 100, so joint Z jumps by the offset when C crosses the threshold.
- With A = 90 the code gives (100, 200, 150). The comment at 531 and spec 8 give (100, 150, 250).

`transform_to_cartesian` undoes the same fold, so `RoundTrip` still holds,
and the DRO cannot show the error.

With the Cartesian kinematics, homing leaves `sys.home_position` alone.
`cartesian_limits_set_machine_positions` (carteciana.c 76-96) and its copy
in carteciano2.c (138-158) set the step counter from the direction mask,
max travel and pulloff, but never `sys.home_position`. TLC homes X with a
1 mm pulloff at 80 steps/mm: the counter becomes -80 while `home_position`
stays 0. rtcp.c (791-798) sets both, and carteciano2.c's header says it
reproduces grblHAL's `limits_set_machine_positions`, which sets both
(spec 4.6).

Only the end point of an RTCP move is validated (1117-1120). The midpoint
whose joints init computes for the chord test (1183), and every waypoint the
produce calls plan (1256), are never checked. A move between two valid
points can therefore drive a motor out of the envelope. TLC starts at
joints (100, 0, 0) with A = C = -90 and moves to the TCP point (0, 0, 0)
with A = -90, C = 90. Joint X is 100 at the start and 200 at the end, both
inside X in [50, 200], but 0 at the midpoint the first produce call plans.
The same holds for jogs whose destination is valid, which
`rtcp_apply_travel_limits` does not clip (948). Spec 4.5 and 8.7 speak of
the end point only.

## Proofs

`RtcpSegmenterProofs.tla` proves three theorems for every value of the
constants. They assume only `ConstantsAssumption`: the flat and in-envelope
targets are targets, `Origin` is not a target, and `MaxSegments >= 1`.
The refinement also assumes `WaypointsFresh`.

- `TypeCorrect == Spec => []TypeOK`. `TypeOK` is not inductive by itself, so the proof uses `TypeInv`, which adds two facts:
  - inside the loop, `iterations >= 1`, because the produce call computes `iterations - 1`;
  - `segment_target` is a waypoint while a subdivided move still has segments to advance, because the produce call reads `segment_target.k`.

  The lemmas are `InitTypeInv` and `TypeInvStep`, the latter with one step per action.
- `SegmentSafety == Spec => [](SegmentBound /\ RtcpSegmentsOnPath /\ RtcpMoveEndsAtTarget)`. The proof goes through the inductive invariant `IInv`, which was checked with TLC on the `segmenter_core` instance before it was proved. Its conjuncts are:
  - `CountInv`: inside the loop, `count + iterations = nseg + 1`. This is where the pre-increment at line 1227 enters, and it is what makes the last produce call the one with `iterations = 1`.
  - `RtcpStaticsInv`: during an RTCP move, `final_target` is the block's target. While a subdivided move has segments to advance, `segment_target` is the waypoint of the last planned segment. An unsubdivided move has one segment.
  - `DoneInv`, `NsegInv` and `LoopValid`, which tie the loop's exit to the segment count.

  Without `CountInv` and `RtcpStaticsInv`, a produce step cannot tell whether it plans a waypoint or the target. The step lemma `IInvStep` splits `NextSegment` into the returning-NULL case and the planning case, and the planning case into advancing to a waypoint and using the exact target. `StartMoveStatics` collects what the init call's two branches establish.
- `CancelStopsPlanning == Spec => CancelHonoured`. Inside the loop, once `jog_cancel` is set, every action leaves the planned position and count unchanged.
- `SegmenterRefinement == Spec => ImplementsMoveContract`. The proof uses the invariant `RefInv == IInv /\ BypassInv`. `BypassInv` says a bypass block is decided at one segment. It was checked with TLC on the `segmenter_core` instance before it was proved.
  - `InitRefines` maps the initial states.
  - `StepRefines` maps each step. `StartMove` maps to `Start`, `JogCancel` to `Cancel`, and M450/M451 to `SetMode`. A produce call that returns NULL or finds the cancel flag set maps to `Finish`. A planning produce call maps to `PlanWaypoint`, `PlanTarget` or `PlanBypass`.
  - Telling these apart needs `CountInv` (the count left before the clamp) and `RtcpStaticsInv` (`segment_target` is the last planned waypoint).
  - `WaypointImageFresh` shows that a waypoint's image is never the target's. So `Arrived` is false until the target is planned, and the contract's guard `~Arrived` holds on every waypoint step.

`TravelLimitsProofs.tla` proves `ClipSafety == Spec => [](TypeOK /\ ClipKeepsValid)`
for every number of bisection iterations, every axis set and every jog
geometry. The argument rests on the loop invariant `ClipInv`:

- inside the loop, `best = start`, and `start` is either the position or a midpoint that passed the check;
- a returned clip from a valid position is valid.

`ClipInv` needs three facts:

- the midpoint of two grid points is a grid point (`MidInGrid`);
- with nothing homed every point passes (`NothingHomedValid`), which covers the early return;
- the check reads only state the loop does not change.

`SpanPositive` (2^B > 0) and `PowersOfTwo` (2^0 = 1, 2^k > 0 and
2^k = 2 * 2^(k-1) up to k = B) are assumptions that TLC evaluates on every
run of `MC_TravelLimits`. The provers know nothing about `^` and cannot do
induction over it.

`ClipNearBoundaryHolds == Spec => []ClipNearBoundary` proves the second
half of spec 8.7. Its inductive invariant `NearInv` adds the width of the
bracket to `RefInv`: from a valid position, the loop keeps a valid `start`
and an invalid `end`, `2^(B-i)` grid steps apart. `Halving` shows that the
midpoint of a bracket of width 2^k splits it into two brackets of width
2^(k-1). After the last iteration `end = best + 1`. `NearInv` was checked
with TLC on the `travel_clip` instance before it was proved.

The proof never uses the `Monotone` hypothesis of `ClipNearBoundary`. The
clip always ends between a valid grid point and an invalid neighbour.
Without monotonicity that neighbour need not be the first exit, which is
what the `clip_first_exit` violation shows.

`TravelLimitsProofs.tla` also proves `ClipRefinement == Spec =>
ImplementsJogClip`. Besides `ClipInv`, the proof needs the bracket of the
loop (`RefInv`):

- the loop runs only when the check is enforced and the destination fails it;
- `start <= end <= target` and `start < target`;
- before the call, the destination is the whole jog.

Without the bracket, the returned `best` could not be shown to lie strictly
before the destination. Without the enforced failing check, `ApplyFinish`
could not be shown to be a clipping step of `Clip`.

- `InitRefines` maps the initial states.
- `StepRefines` maps each step: the early return and `ApplyFinish` to `Clip`, and the set-up and the loop to stutters.
- `ValidFrame` and `OkFrame` say that the check reads only state the clip never changes.

The lemmas about the transforms and the cache are in
`RtcpTransformsProofs.tla`. They are shared by `RtcpKinematicsProofs` and
`SegmentEnvelopeProofs`. Besides the lemmas described below, it holds two
more:

- `TrigCacheAfterCoherent`: every path of `update_trig_cache` keeps a coherent cache coherent.
- `CoherentInverseExact`: with a coherent cache, `transform_from_cartesian` is the exact inverse.

`RtcpKinematicsProofs.tla` proves `KinematicsSafety == Spec => [](TypeOK /\
CacheTransparent /\ RoundTrip)`. It holds for every pivot, axis offsets, tool
length offset and point at quarter turns, and it rests only on
`KinematicsAssumption`. The argument has three layers:

- `RotationsInverse`: for every pair of unit (sin, cos) values, `ForwardWith` undoes `InverseWith`. The prover has no nonlinear arithmetic, so the proof splits into the 16 sign cases. Each case is then linear for SMT.
- `RoundTripExact`: the uncached inverse followed by `transform_to_cartesian` is the identity, on the fast path and off it.
- The cache: `Coherent(k)` says a valid cache holds the sin/cos of `last_a` and `last_c`.
  - `UpdateCoherent` shows that `update_trig_cache` leaves a valid, coherent cache keyed on the call's angles.
  - `CachedInverseExact` shows that the cached inverse then equals the uncached one.
  - The inductive invariant is `KInv == TypeOK /\ Coherent(cache) /\ CacheTransparent`. Every invalidation only clears `cache_valid`, which keeps the cache coherent. `Coherent` was checked with TLC on the `kinematics_cache` instance before it was proved.

`HomingHooksProofs.tla` proves three theorems for every number of axes,
every travel, pull-off and steps per mm (`HomingAssumption`):

- `HomingTypeCorrect == Spec => []TypeOK`. The proof goes through `TypeInv`, which adds that inside `limits_set_machine_positions` the counter is in `1..N_AXIS`, so `--idx` names an axis.
- `KeepsOtherAxes == Spec => HomingKeepsOtherAxes`, for every installed kinematics. `SetMachinePositionFrame` says that each file's loop body changes only axis `i`. `CycleAxesExact` says that `limits_get_axis_mask(i) = bit(j)` holds only for `i = j`, so `limits_set_target_pos` zeroes exactly the cycle's counters.
- `HomeCoherence`, with only `rtcp_5axis_init` loaded, proves `Spec => []HomeCoherent`. `HomeCoherent` is not inductive: in the middle of a cycle the counters of the cycle's axes are zero. The proof uses `HInv`, which says:
  - every homed axis is coherent, unless a cycle is running and the axis is in it;
  - during the loop, every axis of the cycle at or above `idx` is already coherent.

  When the loop ends (`idx` reaches 0), the whole cycle is coherent. `RtcpSetCoherent` shows that one loop body makes its axis coherent, in both branches of `force_set_origin`. `HInv` was checked with TLC on the `homing_hooks` instance before it was proved. With the Cartesian hooks the property is false (see the Cartesian homing finding), so the theorem assumes rtcp.c's hooks.

`BitInjective` (2^i is injective on the axes) is an assumption that TLC
evaluates, for the same reason as `SpanPositive`.

`CartesianKinematicsProofs.tla` proves `SingleSegment == Spec =>
[](TypeOK /\ IdentitySingleSegment)` for every counter width
(`IterationsModulus > 2`) and every set of targets, for both Cartesian files.
`SegmentLineCalls` evaluates the three calls `mc_line` makes:

- init returns the target with counter 1;
- the first produce call returns it with counter 0;
- the second returns NULL, and the counter wraps to `IterationsModulus - 1`.

The inductive invariant adds `LoopInv`. Inside the loop, `trsf` is the block's target, and the counter and the planned count are either (1, 0) or (0, 1). It also adds that an accepted block is in the envelope. Without `LoopInv`, a produce step cannot tell whether it returns the target or NULL.

`SegmentEnvelopeProofs.tla` proves `EnvelopeAtRest == Spec =>
[]EndsInEnvelope` for every pivot, axis offset, tool length offset,
envelope, homed mask and clamp (`EnvelopeAssumption`,
`KinematicsAssumption`). The produce calls plan through the same
trigonometric cache as the init call, with other waypoints in between. The
theorem says that whenever `mc_line` is outside its loop, the last planned
position is in the envelope. The inductive invariant `EInv` says:

- the cache stays coherent;
- inside the loop, the joints of `final_target` passed init's check and at least one produce call is left;
- once only the NULL call is left (`iterations = 1`), the position is those joints;
- outside the loop, the position is valid.

`EInv` was checked with TLC on the `segment_envelope_ends` instance before
it was proved. `StartMoveEffect` collects what the init call establishes:

- the counter is at least 2, by `ChordInt` and `ClampRange`;
- the cache stays coherent, by `TrigCacheAfterCoherent` applied to both cache updates.

`ChordInt` needs the least candidate count, chosen with `CHOOSE`, to be an
integer. `LeastExists` derives it from `WFMin` and the well-foundedness of
`<` on `Nat` in WellFoundedInduction, without an induction that takes an
operator.

`SegmentEnvelopeProofs.tla` also proves `EnvelopeTypeCorrect == Spec =>
[]TypeOK` under the same assumptions. The produce calls plan
`segment_target + delta`, and nothing in the state says directly that this
is a point of the grid. The inductive invariant `TInv == EInv /\ TypeOK /\
WayInv` adds `WayInv`: inside a subdivided move, `final_target =
segment_target + (iterations - 1) * delta` on every axis, and the angle
steps are whole quarter turns.

- Init establishes `WayInv` because `Exact` makes each difference a multiple of the count (`DivExact`, `DivQuarter`).
- Each produce call keeps it, since `iterations` and the steps left both drop by one.
- `StepQuarter` shows that a step of whole quarter turns towards a target j >= 1 steps away does not leave [-270, 270]. So every waypoint is a point of the grid (`WaypointVector`).
- `MidVector` does the same for the chord test's midpoint, and `CacheAfterType` shows the cache keeps its type after each transform.

`TInv` was checked with TLC on the `segment_envelope_ends` instance before it
was proved, and again with angles {-270, 0, 180}. The chord estimate itself
needs no bound beyond `ChordInt` and the clamp.

The theorems that state several properties at once are listed in
PROJECT.json once per property. `SegmentSafety` covers `SegmentBound` and
`RtcpMoveEndsAtTarget`, `KinematicsSafety` covers `TypeOK` and
`RoundTrip`, `ClipSafety` covers `TypeOK` of `TravelLimits`, and
`SingleSegment` covers `TypeOK` of `CartesianKinematics`. Every safety
property of a passing run is proved.

The liveness properties `RtcpMoveCompletes` and `MoveReturns` are only
model-checked. TLAPS does not handle fairness and ENABLED. Neither does
`MoveContract` carry a liveness promise: the refinement is proved for the
safety part, and `RtcpMoveCompletes` covers progress.

## Not modelled yet, and the plan

- The cache tolerance for angles that differ by less than `trig_cache_tol`. This needs an arithmetic model of angles that are not quarter turns.
- Chord estimates on arbitrary float coordinates. `SegmentEnvelope` takes the moves whose midpoint and waypoints are exact on its grid; a conversion overflow of `(uint_fast16_t)(ceilf(...) * 2)` (1200) needs err/tol above 2^30, an error of kilometres, or a NaN input.
- A refinement of `MoveContract` by `SegmentEnvelope`'s concrete points. `SegmentEnvelope` leaves out the bypass and the cancel flag, and its waypoints are not symbolic.
- The steps-to-mm DRO conversion of the Cartesian files and `homing_cycle_get_feedrate`: they compute and return a value and change no state.
- Plugin initialisation beyond the choice of the installed hooks (`kin`, `plugin`): NVS allocation and the hook chaining only register callbacks.

The feed-rate multiplier bound (spec 8.6) holds by the clamp at 1273-1274, so no run checks it.

Reports, `$RTCP` and settings persistence only format or copy data, so they
are left out. `test_input.c` is a console program unrelated to the firmware.
