----------------------------- MODULE HomingHooks -----------------------------
(***************************************************************************)
(* The homing hooks that each kinematics of src/src/grbl/kinematics        *)
(* installs in kinematics_t, run by the host's homing cycle: rtcp.c's      *)
(* rtcp_limits_* functions, and carteciana.c's and carteciano2.c's         *)
(* cartesian_* / cartesian2_* copies of the host's implicit behaviour.     *)
(*                                                                         *)
(* The host (grblHAL's limits_go_home, not in this repository, modelled    *)
(* from spec 4.6 and 5) runs one cycle at a time: it asks                  *)
(* homing_cycle_validate, zeroes the step counter of every axis the cycle  *)
(* drives through limits_set_target_pos, then calls                        *)
(* limits_set_machine_positions, whose do-while loop the model takes one   *)
(* axis per step, from N_AXIS - 1 down to 0; the cycle's axes are then     *)
(* homed.  Between cycles the $-settings force_set_origin and the homing   *)
(* direction mask may change.                                              *)
(*                                                                         *)
(* Data abstraction.  Lengths are integers in half millimetres, exact in   *)
(* float; lroundf(x * steps_per_mm) rounds half away from zero.            *)
(***************************************************************************)
EXTENDS Integers, FiniteSets

CONSTANTS
    NAxis,       \* N_AXIS
    MaxTravel,   \* settings.axis[idx].max_travel (half mm)
    Pulloff,     \* limits_homing_pulloff(NULL)->values[idx] (half mm)
    StepsPerMm,  \* settings.axis[idx].steps_per_mm
    Loaded       \* the kinematics init functions a build may call

Axes == 0..(NAxis - 1)

Plugins == {"rtcp_5axis_init", "cartesian_init", "cartesian2_init"}

ASSUME HomingAssumption ==
    /\ NAxis \in Nat \ {0}
    /\ MaxTravel \in [Axes -> Int]
    /\ Pulloff \in [Axes -> Nat]
    /\ StepsPerMm \in [Axes -> Nat \ {0}]
    /\ Loaded \subseteq Plugins /\ Loaded # {}

VARIABLES
    kin,               \* the plugin whose init filled kinematics_t
    force_set_origin,  \* settings.homing.flags.force_set_origin
    dir_mask,          \* settings.homing.dir_mask, as a set of axes
    position,          \* sys.position[] (steps)
    home_position,     \* sys.home_position[] (half mm)
    homed,             \* sys.homed, as a set of axes
    cycle,             \* the axes of the cycle being homed
    phase,             \* host: "idle", "locate" or "set"
    idx                \* the do-while counter of limits_set_machine_positions

vars == <<kin, force_set_origin, dir_mask, position, home_position, homed,
          cycle, phase, idx>>

-----------------------------------------------------------------------------
\* lroundf(h / 2): h half millimetres times steps, half away from zero
LRoundHalf(h) == IF h >= 0 THEN (h + 1) \div 2 ELSE -((1 - h) \div 2)

\* bit(idx)
bit(i) == 2^i

\* mutation: the bit of the counter tested before its decrement
InMaskBeforeDecrement(c, i) == i + 1 \in c

\* "cycle.mask & bit(i)" for the mask of the axis set c
InMask(c, i) == i \in c

\* limits_get_axis_mask of all three files: bit(idx)
limits_get_axis_mask(i) == bit(i)

\* distinct axes have distinct bits (2^i is injective on the axis indices);
\* the provers have no induction over ^, so TLC evaluates it for each N_AXIS
ASSUME BitInjective == \A i, j \in Axes : bit(i) = bit(j) => i = j

\* the axes whose motors a cycle drives: bit(i) of the axis mask in cycle c
CycleAxes(c) == {i \in Axes : \E j \in c : limits_get_axis_mask(i) = bit(j)}

\* homing_cycle_validate of all three files: any cycle is valid
homing_cycle_validate(c) == TRUE

\* the home position of axis i for the homing direction mask d (rtcp.c)
HomeOf(i, d) == IF i \in d THEN MaxTravel[i] + Pulloff[i] ELSE -Pulloff[i]

\* mutation: the forced-origin branch leaves sys.home_position alone
RtcpSetMachinePositionNoHome(i, pos, home) ==
    IF force_set_origin
    THEN [pos |-> [pos EXCEPT ![i] = 0], home |-> home]
    ELSE LET h == HomeOf(i, dir_mask) IN
         [pos |-> [pos EXCEPT ![i] = LRoundHalf(h * StepsPerMm[i])],
          home |-> [home EXCEPT ![i] = h]]

\* one axis of rtcp_limits_set_machine_positions: counter and home position
RtcpSetMachinePosition(i, pos, home) ==
    IF force_set_origin
    THEN [pos |-> [pos EXCEPT ![i] = 0], home |-> [home EXCEPT ![i] = 0]]
    ELSE LET h == HomeOf(i, dir_mask) IN
         [pos |-> [pos EXCEPT ![i] = LRoundHalf(h * StepsPerMm[i])],
          home |-> [home EXCEPT ![i] = h]]

\* one axis of cartesian_limits_set_machine_positions: the counter only
CartesianSetMachinePosition(i, pos, home) ==
    IF force_set_origin
    THEN [pos |-> [pos EXCEPT ![i] = 0], home |-> home]
    ELSE [pos |-> [pos EXCEPT ![i] =
                      IF i \in dir_mask
                      THEN LRoundHalf((MaxTravel[i] + Pulloff[i]) * StepsPerMm[i])
                      ELSE LRoundHalf(-Pulloff[i] * StepsPerMm[i])],
          home |-> home]

\* cartesian2_limits_set_machine_positions: the same statements
Cartesian2SetMachinePosition(i, pos, home) ==
    CartesianSetMachinePosition(i, pos, home)

\* the body of the do-while loop of the installed hook for axis i
SetMachinePosition(i) ==
    CASE kin = "rtcp_5axis_init" -> RtcpSetMachinePosition(i, position, home_position)
      [] kin = "cartesian_init"  -> CartesianSetMachinePosition(i, position, home_position)
      [] kin = "cartesian2_init" -> Cartesian2SetMachinePosition(i, position, home_position)

TypeOK ==
    /\ kin \in Loaded
    /\ force_set_origin \in BOOLEAN
    /\ dir_mask \subseteq Axes
    /\ position \in [Axes -> Int]
    /\ home_position \in [Axes -> Int]
    /\ homed \subseteq Axes
    /\ cycle \subseteq Axes
    /\ phase \in {"idle", "locate", "set"}
    /\ idx \in 0..NAxis

\* power-up: sys zeroed, nothing homed, the settings loaded
Init ==
    /\ kin \in Loaded
    /\ force_set_origin \in BOOLEAN
    /\ dir_mask \in SUBSET Axes
    /\ position = [i \in Axes |-> 0]
    /\ home_position = [i \in Axes |-> 0]
    /\ homed = {}
    /\ cycle = {}
    /\ phase = "idle"
    /\ idx = 0

-----------------------------------------------------------------------------
\* host: a homing cycle over the axes c, accepted by homing_cycle_validate
StartCycle(c) ==
    /\ phase = "idle"
    /\ c # {}
    /\ homing_cycle_validate(c)
    /\ cycle' = c
    /\ phase' = "locate"
    /\ UNCHANGED <<kin, force_set_origin, dir_mask, position, home_position,
                   homed, idx>>

\* host: the switches found, limits_set_target_pos(idx) zeroes the step
\* counter of every axis the cycle drives
Locate ==
    /\ phase = "locate"
    /\ position' = [i \in Axes |-> IF i \in CycleAxes(cycle) THEN 0
                                   ELSE position[i]]
    /\ phase' = "set"
    /\ idx' = NAxis
    /\ UNCHANGED <<kin, force_set_origin, dir_mask, home_position, homed,
                   cycle>>

\* mutation: the loop runs on while idx >= 0 (always true when unsigned)
SetMachinePositionsStepNoExit ==
    LET i == idx - 1
        r == SetMachinePosition(i)
    IN
    /\ phase = "set"
    /\ idx' = i
    /\ IF InMask(cycle, i)
       THEN /\ position' = r.pos
            /\ home_position' = r.home
       ELSE UNCHANGED <<position, home_position>>
    /\ UNCHANGED <<phase, homed, kin, force_set_origin, dir_mask, cycle>>

(* one pass of "do { if(cycle.mask & bit(--idx)) ... } while(idx);"; when  *)
(* the loop ends, rtcp.c invalidates its cache (RtcpKinematics models that) *)
(* and the host marks the cycle's axes homed                               *)
SetMachinePositionsStep ==
    LET i == idx - 1
        r == SetMachinePosition(i)
    IN
    /\ phase = "set"
    /\ idx' = i
    /\ IF InMask(cycle, i)
       THEN /\ position' = r.pos
            /\ home_position' = r.home
       ELSE UNCHANGED <<position, home_position>>
    /\ IF i = 0
       THEN /\ phase' = "idle"
            /\ homed' = homed \cup cycle
       ELSE UNCHANGED <<phase, homed>>
    /\ UNCHANGED <<kin, force_set_origin, dir_mask, cycle>>

\* host: $-setting change of the homing flags or direction mask
SettingsChanged(f, d) ==
    /\ phase = "idle"
    /\ force_set_origin' = f
    /\ dir_mask' = d
    /\ UNCHANGED <<kin, position, home_position, homed, cycle, phase, idx>>

Next ==
    \/ \E c \in SUBSET Axes : StartCycle(c)
    \/ Locate
    \/ SetMachinePositionsStep
    \/ \E f \in BOOLEAN, d \in SUBSET Axes : SettingsChanged(f, d)

Spec == Init /\ [][Next]_vars

-----------------------------------------------------------------------------
(* Properties *)

\* Spec 4.6: after any sequence of homing cycles and settings changes, the
\* step counter of every homed axis is its home position in steps, rounded
\* (both zero under force_set_origin), so the machine position the host
\* derives from sys.position agrees with sys.home_position.
HomeCoherent ==
    phase = "idle" =>
        \A i \in homed : position[i] = LRoundHalf(home_position[i] * StepsPerMm[i])

\* A homing step never touches an axis outside the running cycle: the
\* do-while with --idx visits each axis once and tests its own bit.
HomingKeepsOtherAxes ==
    [][\A i \in Axes \ cycle : /\ position'[i] = position[i]
                               /\ home_position'[i] = home_position[i]]_vars

=============================================================================
