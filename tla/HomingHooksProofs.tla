------------------------- MODULE HomingHooksProofs -------------------------
(***************************************************************************)
(* Proofs, for every number of axes, travel, pulloff and steps/mm, of the  *)
(* type invariant and of the two homing properties that MC_HomingHooks     *)
(* checks on three axes: a homing step touches only the cycle's axes, and  *)
(* with rtcp.c's hooks every homed axis's counter agrees with its home     *)
(* position.                                                               *)
(***************************************************************************)
EXTENDS HomingHooks, TLAPS

\* the counter of axis i is its home position in steps
Coh(i) == position[i] = LRoundHalf(home_position[i] * StepsPerMm[i])

\* TypeOK with the range of the loop counter inside the do-while: it has
\* not yet reached 0, so bit(--idx) names an axis
TypeInv ==
    /\ TypeOK
    /\ phase = "set" => idx \in 1..NAxis

\* The inductive invariant behind HomeCoherent.  Between cycles every homed
\* axis is coherent; during a cycle only the cycle's axes may not be, and
\* once limits_set_machine_positions has passed an axis (idx <= i) it is.
HInv ==
    /\ TypeInv
    /\ kin = "rtcp_5axis_init"
    /\ \A i \in homed : Coh(i) \/ (phase # "idle" /\ i \in cycle)
    /\ phase = "set" => \A i \in cycle : i >= idx => Coh(i)

-----------------------------------------------------------------------------
USE HomingAssumption

\* the axes a cycle drives are the cycle's own axes
LEMMA CycleAxesExact ==
    ASSUME NEW c \in SUBSET Axes
    PROVE  CycleAxes(c) = c
BY BitInjective DEF CycleAxes, limits_get_axis_mask

\* lroundf of a whole number of half millimetres times steps is an integer,
\* and lroundf(0) = 0
LEMMA LRoundInt ==
    /\ \A h \in Int : LRoundHalf(h) \in Int
    /\ LRoundHalf(0) = 0
BY DEF LRoundHalf

\* every hook sets, for axis i of the cycle, a new counter and home position
\* and leaves every other axis alone
LEMMA SetMachinePositionFrame ==
    ASSUME TypeOK, NEW i \in Axes
    PROVE  /\ SetMachinePosition(i).pos \in [Axes -> Int]
           /\ SetMachinePosition(i).home \in [Axes -> Int]
           /\ \A j \in Axes \ {i} :
                 /\ SetMachinePosition(i).pos[j] = position[j]
                 /\ SetMachinePosition(i).home[j] = home_position[j]
<1>1. HomeOf(i, dir_mask) \in Int /\ HomeOf(i, dir_mask) * StepsPerMm[i] \in Int
  BY DEF HomeOf
<1>2. /\ LRoundHalf(HomeOf(i, dir_mask) * StepsPerMm[i]) \in Int
      /\ LRoundHalf((MaxTravel[i] + Pulloff[i]) * StepsPerMm[i]) \in Int
      /\ LRoundHalf(-Pulloff[i] * StepsPerMm[i]) \in Int
  BY <1>1, LRoundInt
<1>3. CASE kin = "rtcp_5axis_init"
  <2>1. SetMachinePosition(i) = RtcpSetMachinePosition(i, position, home_position)
    BY <1>3 DEF SetMachinePosition
  <2>2. CASE force_set_origin
    BY <2>1, <2>2 DEF TypeOK, RtcpSetMachinePosition
  <2>3. CASE ~force_set_origin
    <3>1. SetMachinePosition(i) =
            [pos  |-> [position EXCEPT ![i] =
                         LRoundHalf(HomeOf(i, dir_mask) * StepsPerMm[i])],
             home |-> [home_position EXCEPT ![i] = HomeOf(i, dir_mask)]]
      BY <2>1, <2>3 DEF RtcpSetMachinePosition
    <3>. QED
      BY <1>1, <1>2, <3>1 DEF TypeOK
  <2>. QED
    BY <2>2, <2>3
<1>4. CASE kin = "cartesian_init"
  BY <1>2, <1>4 DEF TypeOK, SetMachinePosition, CartesianSetMachinePosition
<1>5. CASE kin = "cartesian2_init"
  <2>1. SetMachinePosition(i) = CartesianSetMachinePosition(i, position, home_position)
    BY <1>5 DEF SetMachinePosition, Cartesian2SetMachinePosition
  <2>. QED
    BY <1>2, <2>1 DEF TypeOK, CartesianSetMachinePosition
<1>. QED
  BY <1>3, <1>4, <1>5 DEF TypeOK, Plugins

\* rtcp.c's hook leaves the axis it sets coherent
LEMMA RtcpSetCoherent ==
    ASSUME TypeOK, kin = "rtcp_5axis_init", NEW i \in Axes
    PROVE  SetMachinePosition(i).pos[i] =
               LRoundHalf(SetMachinePosition(i).home[i] * StepsPerMm[i])
<1>1. CASE force_set_origin
  <2>1. SetMachinePosition(i).pos[i] = 0 /\ SetMachinePosition(i).home[i] = 0
    BY <1>1 DEF TypeOK, SetMachinePosition, RtcpSetMachinePosition
  <2>. QED
    BY <2>1, LRoundInt
<1>2. CASE ~force_set_origin
  BY <1>2 DEF TypeOK, SetMachinePosition, RtcpSetMachinePosition, HomeOf
<1>. QED
  BY <1>1, <1>2

-----------------------------------------------------------------------------
LEMMA InitTypeInv == Init => TypeInv
BY DEF Init, TypeInv, TypeOK

LEMMA TypeInvStep == TypeInv /\ [Next]_vars => TypeInv'
<1>. SUFFICES ASSUME TypeInv, [Next]_vars PROVE TypeInv'
  OBVIOUS
<1>. USE DEF TypeInv, TypeOK
<1>1. ASSUME NEW c \in SUBSET Axes, StartCycle(c) PROVE TypeInv'
  BY <1>1 DEF StartCycle
<1>2. CASE Locate
  BY <1>2 DEF Locate
<1>3. CASE SetMachinePositionsStep
  <2>. DEFINE i == idx - 1
  <2>1. i \in Axes
    BY <1>3 DEF SetMachinePositionsStep, Axes
  <2>2. /\ SetMachinePosition(i).pos \in [Axes -> Int]
        /\ SetMachinePosition(i).home \in [Axes -> Int]
    BY <2>1, SetMachinePositionFrame
  <2>3. idx' = i /\ phase' \in {"idle", "set"} /\ homed' \subseteq Axes
        /\ UNCHANGED <<kin, force_set_origin, dir_mask, cycle>>
    BY <1>3 DEF SetMachinePositionsStep
  <2>4. position' \in [Axes -> Int] /\ home_position' \in [Axes -> Int]
    <3>1. PICK r : r = SetMachinePosition(i)
      OBVIOUS
    <3>2. CASE InMask(cycle, i)
      <4>1. position' = r.pos /\ home_position' = r.home
        BY <1>3, <3>1, <3>2 DEF SetMachinePositionsStep
      <4>. QED
        BY <2>2, <3>1, <4>1
    <3>3. CASE ~InMask(cycle, i)
      BY <1>3, <3>3 DEF SetMachinePositionsStep
    <3>. QED
      BY <3>2, <3>3
  <2>5. phase' = "set" => idx' \in 1..NAxis
    <3>1. i = 0 => phase' = "idle"
      BY <1>3 DEF SetMachinePositionsStep
    <3>2. idx \in 1..NAxis /\ idx' = i
      BY <1>3, <2>3 DEF SetMachinePositionsStep
    <3>. QED
      BY <3>1, <3>2
  <2>6. idx' \in 0..NAxis
    BY <2>1, <2>3 DEF Axes
  <2>7. /\ kin' \in Loaded /\ force_set_origin' \in BOOLEAN
        /\ dir_mask' \subseteq Axes /\ cycle' \subseteq Axes
    BY <2>3
  <2>. QED
    BY <2>3, <2>4, <2>5, <2>6, <2>7
<1>4. ASSUME NEW f \in BOOLEAN, NEW d \in SUBSET Axes, SettingsChanged(f, d)
      PROVE TypeInv'
  BY <1>4 DEF SettingsChanged
<1>5. CASE UNCHANGED vars
  BY <1>5 DEF vars
<1>. QED
  BY <1>1, <1>2, <1>3, <1>4, <1>5 DEF Next

\* Type correctness of the homing model, whichever kinematics is installed.
THEOREM HomingTypeCorrect == Spec => []TypeOK
<1>1. Init => TypeInv
  BY InitTypeInv
<1>2. TypeInv /\ [Next]_vars => TypeInv'
  BY TypeInvStep
<1>3. TypeInv => TypeOK
  BY DEF TypeInv
<1>. QED
  BY <1>1, <1>2, <1>3, PTL DEF Spec

-----------------------------------------------------------------------------

\* the step predicate of HomingKeepsOtherAxes
KeepOthers ==
    \A i \in Axes \ cycle : /\ position'[i] = position[i]
                            /\ home_position'[i] = home_position[i]

LEMMA KeepOthersStep == TypeInv /\ [Next]_vars => [KeepOthers]_vars
<1>. SUFFICES ASSUME TypeInv, [Next]_vars PROVE [KeepOthers]_vars
  OBVIOUS
<1>1. ASSUME NEW c \in SUBSET Axes, StartCycle(c) PROVE KeepOthers
  BY <1>1 DEF StartCycle, KeepOthers
<1>2. CASE Locate
  <2>1. CycleAxes(cycle) = cycle
    BY CycleAxesExact DEF TypeInv, TypeOK
  <2>. QED
    BY <1>2, <2>1 DEF Locate, KeepOthers
<1>3. CASE SetMachinePositionsStep
  <2>. DEFINE i0 == idx - 1
  <2>1. i0 \in Axes /\ TypeOK
    BY <1>3 DEF TypeInv, SetMachinePositionsStep, Axes
  <2>2. CASE i0 \in cycle
    <3>1. position' = SetMachinePosition(i0).pos
          /\ home_position' = SetMachinePosition(i0).home
      BY <1>3, <2>2 DEF SetMachinePositionsStep, InMask
    <3>. QED
      BY <2>1, <2>2, <3>1, SetMachinePositionFrame DEF KeepOthers
  <2>3. CASE i0 \notin cycle
    BY <1>3, <2>3 DEF SetMachinePositionsStep, InMask, KeepOthers
  <2>. QED
    BY <2>2, <2>3
<1>4. ASSUME NEW f \in BOOLEAN, NEW d \in SUBSET Axes, SettingsChanged(f, d)
      PROVE KeepOthers
  BY <1>4 DEF SettingsChanged, KeepOthers
<1>5. CASE UNCHANGED vars
  BY <1>5 DEF vars
<1>. QED
  BY <1>1, <1>2, <1>3, <1>4, <1>5 DEF Next

\* For every number of axes and whichever kinematics installed the hooks, a
\* homing step never changes the counter or the home position of an axis
\* outside the running cycle: limits_set_target_pos is called only for the
\* cycle's bits, and the do-while with bit(--idx) tests each axis's own bit.
THEOREM KeepsOtherAxes == Spec => HomingKeepsOtherAxes
<1>1. Init => TypeInv
  BY InitTypeInv
<1>2. TypeInv /\ [Next]_vars => TypeInv'
  BY TypeInvStep
<1>3. TypeInv /\ [Next]_vars => [KeepOthers]_vars
  BY KeepOthersStep
<1>. QED
  BY <1>1, <1>2, <1>3, PTL DEF Spec, HomingKeepsOtherAxes, KeepOthers

-----------------------------------------------------------------------------
(* HomeCoherent with rtcp.c's hooks *)

LEMMA InitHInv ==
    ASSUME Loaded = {"rtcp_5axis_init"}
    PROVE  Init => HInv
BY InitTypeInv DEF Init, HInv

\* one pass of the do-while changes the coherence of its own axis only, and
\* makes that axis coherent when it is in the cycle
LEMMA SetStepCoherence ==
    ASSUME HInv, SetMachinePositionsStep
    PROVE  /\ idx - 1 \in Axes
           /\ \A j \in cycle : j = idx - 1 => Coh(j)'
           /\ \A j \in Axes : j # idx - 1 \/ idx - 1 \notin cycle =>
                                 (Coh(j)' <=> Coh(j))
<1>. DEFINE i0 == idx - 1
<1>1. i0 \in Axes /\ TypeOK /\ kin = "rtcp_5axis_init"
  BY DEF HInv, TypeInv, SetMachinePositionsStep, Axes
<1>2. CASE i0 \in cycle
  <2>1. position' = SetMachinePosition(i0).pos
        /\ home_position' = SetMachinePosition(i0).home
    BY <1>2 DEF SetMachinePositionsStep, InMask
  <2>2. ASSUME NEW j \in cycle, j = i0 PROVE Coh(j)'
    <3>1. SetMachinePosition(i0).pos[i0] =
            LRoundHalf(SetMachinePosition(i0).home[i0] * StepsPerMm[i0])
      BY <1>1, RtcpSetCoherent
    <3>. QED
      BY <2>1, <2>2, <3>1 DEF Coh
  <2>3. ASSUME NEW j \in Axes, j # i0 PROVE Coh(j)' <=> Coh(j)
    <3>1. /\ SetMachinePosition(i0).pos[j] = position[j]
          /\ SetMachinePosition(i0).home[j] = home_position[j]
      BY <1>1, <2>3, SetMachinePositionFrame
    <3>. QED
      BY <2>1, <3>1 DEF Coh
  <2>. QED
    BY <1>1, <1>2, <2>2, <2>3 DEF i0
<1>3. CASE i0 \notin cycle
  <2>1. UNCHANGED <<position, home_position>>
    BY <1>3 DEF SetMachinePositionsStep, InMask
  <2>. QED
    BY <1>1, <1>3, <2>1 DEF Coh
<1>. QED
  BY <1>2, <1>3

LEMMA HInvStep ==
    ASSUME Loaded = {"rtcp_5axis_init"}
    PROVE  HInv /\ [Next]_vars => HInv'
<1>. SUFFICES ASSUME HInv, [Next]_vars PROVE HInv'
  OBVIOUS
<1>0. TypeInv' /\ kin' = "rtcp_5axis_init"
  BY TypeInvStep DEF HInv, TypeInv, TypeOK
<1>1. ASSUME NEW c \in SUBSET Axes, StartCycle(c) PROVE HInv'
  <2>1. \A i \in homed : Coh(i)
    BY <1>1 DEF StartCycle, HInv
  <2>. QED
    BY <1>0, <1>1, <2>1 DEF StartCycle, HInv, Coh
<1>2. CASE Locate
  <2>1. CycleAxes(cycle) = cycle
    BY CycleAxesExact DEF HInv, TypeInv, TypeOK
  <2>2. \A i \in Axes \ cycle : Coh(i)' <=> Coh(i)
    BY <1>2, <2>1 DEF Locate, Coh
  <2>3. /\ phase' = "set" /\ idx' = NAxis
        /\ UNCHANGED <<homed, cycle, kin>>
    BY <1>2 DEF Locate
  <2>4. \A i \in homed : Coh(i)' \/ (phase' # "idle" /\ i \in cycle')
    <3>. SUFFICES ASSUME NEW i \in homed, i \notin cycle PROVE Coh(i)'
      BY <2>3
    <3>1. i \in Axes /\ Coh(i)
      BY DEF HInv, TypeInv, TypeOK
    <3>. QED
      BY <2>2, <3>1
  <2>5. \A i \in cycle' : i >= idx' => Coh(i)'
    BY <2>3 DEF HInv, TypeInv, TypeOK, Axes
  <2>. QED
    BY <1>0, <2>3, <2>4, <2>5 DEF HInv
<1>3. CASE SetMachinePositionsStep
  <2>. DEFINE i0 == idx - 1
  <2>1. /\ i0 \in Axes
        /\ \A j \in cycle : j = i0 => Coh(j)'
        /\ \A j \in Axes : j # i0 \/ i0 \notin cycle => (Coh(j)' <=> Coh(j))
    BY <1>3, SetStepCoherence
  <2>2. \A j \in cycle : j >= i0 => Coh(j)'
    <3>. SUFFICES ASSUME NEW j \in cycle, j >= i0 PROVE Coh(j)'
      OBVIOUS
    <3>1. CASE j = i0
      BY <2>1, <3>1
    <3>2. CASE j # i0
      <4>1. j \in Axes /\ j >= idx /\ Coh(j)
        BY <3>2, <1>3 DEF HInv, TypeInv, TypeOK, SetMachinePositionsStep, Axes
      <4>. QED
        BY <2>1, <4>1
    <3>. QED
      BY <3>1, <3>2
  <2>3. CASE i0 = 0
    <3>1. phase' = "idle" /\ homed' = homed \cup cycle /\ cycle' = cycle
      BY <1>3, <2>3 DEF SetMachinePositionsStep
    <3>2. \A j \in homed \ cycle : Coh(j)'
      BY <2>1 DEF HInv, TypeInv, TypeOK
    <3>3. \A j \in cycle : Coh(j)'
      BY <2>2, <2>3 DEF HInv, TypeInv, TypeOK, Axes
    <3>. QED
      BY <1>0, <3>1, <3>2, <3>3 DEF HInv
  <2>4. CASE i0 # 0
    <3>1. phase' = "set" /\ idx' = i0 /\ UNCHANGED <<homed, cycle>>
      BY <1>3, <2>4 DEF SetMachinePositionsStep, HInv
    <3>2. \A j \in homed : Coh(j)' \/ j \in cycle
      BY <2>1 DEF HInv, TypeInv, TypeOK
    <3>. QED
      BY <1>0, <2>2, <3>1, <3>2 DEF HInv
  <2>. QED
    BY <2>3, <2>4
<1>4. ASSUME NEW f \in BOOLEAN, NEW d \in SUBSET Axes, SettingsChanged(f, d)
      PROVE HInv'
  BY <1>0, <1>4 DEF SettingsChanged, HInv, Coh
<1>5. CASE UNCHANGED vars
  BY <1>0, <1>5 DEF vars, HInv, Coh
<1>. QED
  BY <1>1, <1>2, <1>3, <1>4, <1>5 DEF Next

\* Spec 4.6 for rtcp.c's homing hooks, for every number of axes and every
\* travel, pulloff and steps/mm: between homing cycles every homed axis's
\* step counter is lroundf(home_position * steps_per_mm), whatever cycles
\* and force_set_origin / direction-mask changes came before.
THEOREM HomeCoherence ==
    ASSUME Loaded = {"rtcp_5axis_init"}
    PROVE  Spec => []HomeCoherent
<1>1. Init => HInv
  BY InitHInv
<1>2. HInv /\ [Next]_vars => HInv'
  BY HInvStep
<1>3. HInv => HomeCoherent
  BY DEF HInv, HomeCoherent, Coh
<1>. QED
  BY <1>1, <1>2, <1>3, PTL DEF Spec

=============================================================================
