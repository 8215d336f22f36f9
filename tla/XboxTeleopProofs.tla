-------------------------- MODULE XboxTeleopProofs --------------------------
(***************************************************************************)
(* Proofs about XboxTeleop: for every gamepad, rate and range, at most one *)
(* command of a lost connection is published, and the height published     *)
(* never jumps, whichever of the two threads publishes it.                 *)
(***************************************************************************)
EXTENDS XboxTeleop, TLAPS

\* The assumptions on the constants, with their definitions.
LEMMA Constants ==
    /\ AxisMax \in Nat /\ TriggerMax \in Nat /\ TriggerDeadzone \in Nat /\ StickDeadzone \in Nat
    /\ LinearSign \in Int /\ YawSign \in Int /\ MaxLinear \in Nat /\ MaxYaw \in Nat
    /\ UpRate \in Nat /\ DownRate \in Nat /\ MinHeight \in Int /\ MaxHeight \in Int
    /\ DefaultHeight \in MinHeight .. MaxHeight
    /\ MaxStep \in Nat /\ Steps \subseteq Nat
    /\ StickRaws \subseteq Int /\ TriggerRaws \subseteq Int
  BY AxisAssumption, HeightAssumption, StepAssumption, RawAssumption
     DEF AxisAssumption, HeightAssumption, StepAssumption, RawAssumption

-----------------------------------------------------------------------------
(* Arithmetic.                                                             *)

LEMMA ProductInOrder ==
    ASSUME NEW a \in Int, NEW b \in Int, NEW m \in Nat, a <= b
    PROVE  a * m <= b * m
  OBVIOUS

\* A stick's velocity lies within plus and minus the maximum.
LEMMA StickInRange ==
    ASSUME NEW raw \in Int, NEW sign \in Int, NEW max \in Nat
    PROVE  NormalizeStick(raw, sign, max) \in -(AxisMax * max) .. AxisMax * max
  <1> DEFINE c == Clamp(sign * raw, -AxisMax, AxisMax)
  <1>1. sign * raw \in Int
    BY Constants
  <1>2. c \in -AxisMax .. AxisMax
    BY Constants, <1>1 DEF Clamp
  <1>3. c \in Int /\ -AxisMax <= c /\ c <= AxisMax
    BY Constants, <1>2
  <1>4. NormalizeStick(raw, sign, max) = 0 \/ NormalizeStick(raw, sign, max) = max * c
    BY Constants DEF NormalizeStick
  <1> HIDE DEF c
  <1>5. c * max <= AxisMax * max /\ (-AxisMax) * max <= c * max
    BY Constants, <1>3, ProductInOrder
  <1>6. max * c = c * max /\ (-AxisMax) * max = -(AxisMax * max) /\ AxisMax * max \in Nat
        /\ c * max \in Int
    BY Constants, <1>3
  <1>7. QED
    BY Constants, <1>4, <1>5, <1>6

LEMMA TriggerInRange ==
    ASSUME NEW raw \in Int PROVE NormalizeTrigger(raw) \in 0 .. TriggerMax
  BY Constants DEF NormalizeTrigger, Clamp

LEMMA MaximaAreNat == MaxRise \in Nat /\ MaxFall \in Nat
  BY Constants DEF MaxRise, MaxFall

\* One callback moves the height by no more than the triggers can in the
\* longest step that is counted.
LEMMA HeightReached ==
    ASSUME NEW dt \in Steps, NEW u \in 0 .. TriggerMax, NEW d \in 0 .. TriggerMax,
           NEW h \in Heights
    PROVE  LET step == IF dt > MaxStep THEN MaxStep ELSE dt
               next == Clamp(h + (u * UpRate - d * DownRate) * step, MinHeight, MaxHeight)
           IN next \in Heights /\ Reaches(h, next)
  <1> DEFINE step  == IF dt > MaxStep THEN MaxStep ELSE dt
             rise  == u * UpRate
             fall  == d * DownRate
             delta == (rise - fall) * step
  <1>1. step \in Nat /\ step <= MaxStep
    BY Constants
  <1>2. rise \in Nat /\ fall \in Nat
    BY Constants
  <1>3. rise <= TriggerMax * UpRate /\ fall <= TriggerMax * DownRate
    BY Constants, ProductInOrder
  <1> HIDE DEF step, rise, fall
  <1>4. delta \in Int /\ delta <= rise * step /\ -(fall * step) <= delta
    <2>1. rise - fall \in Int /\ rise - fall <= rise /\ -fall <= rise - fall /\ -fall \in Int
      BY Constants, <1>2
    <2>2. (rise - fall) * step <= rise * step /\ (-fall) * step <= (rise - fall) * step
      BY Constants, <1>1, <1>2, <2>1, ProductInOrder
    <2>3. (-fall) * step = -(fall * step)
      BY Constants, <1>1, <1>2
    <2>4. QED
      BY Constants, <1>1, <2>1, <2>2, <2>3
  <1>5. ASSUME NEW x \in Nat, NEW bound \in Nat, x <= bound
        PROVE  x * step <= MaxStep * bound
    <2>1. x * step <= bound * step
      BY Constants, <1>1, <1>5, ProductInOrder
    <2>2. step * bound <= MaxStep * bound
      BY Constants, <1>1, ProductInOrder
    <2>3. QED
      BY Constants, <1>1, <2>1, <2>2
  <1>6. rise * step <= MaxStep * (TriggerMax * UpRate)
    BY Constants, <1>2, <1>3, <1>5
  <1>7. fall * step <= MaxStep * (TriggerMax * DownRate)
    BY Constants, <1>2, <1>3, <1>5
  <1>8. /\ MaxStep * (TriggerMax * UpRate) = MaxRise
        /\ MaxStep * (TriggerMax * DownRate) = MaxFall
        /\ rise * step \in Nat /\ fall * step \in Nat
    BY Constants, <1>1, <1>2 DEF MaxRise, MaxFall
  <1> DEFINE next == Clamp(h + delta, MinHeight, MaxHeight)
  <1>9. delta \in Int /\ delta <= MaxRise /\ -MaxFall <= delta
    BY Constants, <1>4, <1>6, <1>7, <1>8, MaximaAreNat
  <1> HIDE DEF delta
  <1>10. next \in Heights /\ next - h <= MaxRise /\ h - next <= MaxFall
    BY Constants, <1>9, MaximaAreNat DEF Clamp, Heights
  <1>11. QED
    BY Constants, <1>10 DEF step, rise, fall, delta, Reaches

LEMMA StaysReached == ASSUME NEW h \in Heights PROVE Reaches(h, h)
  BY Constants, MaximaAreNat DEF Reaches, Heights

LEMMA StopIsVelocity == Stop \in Velocities
  <1>1. AxisMax * MaxLinear \in Nat /\ AxisMax * MaxYaw \in Nat
    BY Constants
  <1>2. 0 \in -(AxisMax * MaxLinear) .. AxisMax * MaxLinear
        /\ 0 \in -(AxisMax * MaxYaw) .. AxisMax * MaxYaw
    BY Constants, <1>1
  <1>3. QED
    BY Constants, <1>2 DEF Stop, Velocities

\* Velocities as pairs of ranges, without the products.
LEMMA PairIsVelocity ==
    ASSUME NEW l, NEW y
    PROVE  [linear |-> l, yaw |-> y] \in Velocities <=>
             /\ l \in -(AxisMax * MaxLinear) .. AxisMax * MaxLinear
             /\ y \in -(AxisMax * MaxYaw) .. AxisMax * MaxYaw
  BY Constants DEF Velocities

-----------------------------------------------------------------------------
(* The invariant.                                                          *)

USE DEF InductiveInvariant, TypeOK, FlagsTypeOK, StaleMotionIsOvertaken

LEMMA InitEstablishes == Init => InductiveInvariant
  <1> SUFFICES ASSUME Init PROVE InductiveInvariant
    OBVIOUS
  <1>1. FlagsTypeOK
    BY DEF Init, FlagsTypeOK
  <1>2. ValuesTypeOK
    BY Constants, StopIsVelocity DEF Init, ValuesTypeOK, Stop, Heights
  <1>3. DriveHasOwner /\ StaleMotionIsOvertaken /\ HeightIsShared
    BY DEF Init, DriveHasOwner, HeightIsShared
  <1>4. QED
    BY <1>1, <1>2, <1>3

LEMMA StickPreserves ==
    ASSUME NEW raw \in StickRaws, InductiveInvariant, MoveStick(raw)
    PROVE  InductiveInvariant'
  <1> USE DEF MoveStick, Reads, processVars, stickVars, triggerVars, topicVars
  <1>1. FlagsTypeOK'
    BY DEF FlagsTypeOK
  <1>2. ValuesTypeOK'
    <2>1. [linear |-> linear', yaw |-> yaw'] \in Velocities
      BY Constants, StickInRange, PairIsVelocity DEF ValuesTypeOK
    <2>2. QED
      BY <2>1 DEF ValuesTypeOK
  <1>3. DriveHasOwner' /\ StaleMotionIsOvertaken'
    BY DEF DriveHasOwner
  <1>4. HeightIsShared'
    BY DEF HeightIsShared, Reaches
  <1>5. QED
    BY <1>1, <1>2, <1>3, <1>4

LEMMA TriggerPreserves ==
    ASSUME NEW raw \in TriggerRaws, InductiveInvariant, MoveTrigger(raw)
    PROVE  InductiveInvariant'
  <1> USE DEF MoveTrigger, Reads, processVars, stickVars, triggerVars, topicVars
  <1>1. FlagsTypeOK'
    BY DEF FlagsTypeOK
  <1>2. ValuesTypeOK'
    <2>1. down' \in 0 .. TriggerMax /\ up' \in 0 .. TriggerMax
      BY Constants, TriggerInRange DEF ValuesTypeOK
    <2>2. QED
      BY <2>1 DEF ValuesTypeOK
  <1>3. DriveHasOwner' /\ StaleMotionIsOvertaken'
    BY DEF DriveHasOwner
  <1>4. HeightIsShared'
    BY DEF HeightIsShared, Reaches
  <1>5. QED
    BY <1>1, <1>2, <1>3, <1>4

LEMMA OpenDevicePreserves == ASSUME InductiveInvariant, OpenDevice PROVE InductiveInvariant'
  <1> USE DEF OpenDevice, processVars, stickVars, triggerVars, topicVars
  <1>1. FlagsTypeOK'
    BY DEF FlagsTypeOK
  <1>2. ValuesTypeOK'
    BY DEF ValuesTypeOK
  <1>3. DriveHasOwner' /\ StaleMotionIsOvertaken'
    BY DEF DriveHasOwner, ValuesTypeOK
  <1>4. HeightIsShared'
    BY DEF HeightIsShared, Reaches, ValuesTypeOK
  <1>5. QED
    BY <1>1, <1>2, <1>3, <1>4

LEMMA PressButtonPreserves == ASSUME InductiveInvariant, PressButton PROVE InductiveInvariant'
  <1> USE DEF PressButton, Reads, processVars, stickVars, triggerVars, topicVars
  <1>1. FlagsTypeOK'
    BY DEF FlagsTypeOK
  <1>2. ValuesTypeOK'
    BY DEF ValuesTypeOK
  <1>3. DriveHasOwner' /\ StaleMotionIsOvertaken'
    BY DEF DriveHasOwner, ValuesTypeOK
  <1>4. HeightIsShared'
    BY DEF HeightIsShared, Reaches, ValuesTypeOK
  <1>5. QED
    BY <1>1, <1>2, <1>3, <1>4

LEMMA ReadFailsPreserves == ASSUME InductiveInvariant, ReadFails PROVE InductiveInvariant'
  <1> USE DEF ReadFails, processVars, stickVars, triggerVars, topicVars
  <1>1. FlagsTypeOK'
    BY DEF FlagsTypeOK
  <1>2. ValuesTypeOK'
    BY DEF ValuesTypeOK
  <1>3. DriveHasOwner' /\ StaleMotionIsOvertaken'
    BY DEF DriveHasOwner, ValuesTypeOK
  <1>4. HeightIsShared'
    BY DEF HeightIsShared, Reaches, ValuesTypeOK
  <1>5. QED
    BY <1>1, <1>2, <1>3, <1>4

LEMMA LoopEndsPreserves == ASSUME InductiveInvariant, LoopEnds PROVE InductiveInvariant'
  <1> USE DEF LoopEnds, processVars, stickVars, triggerVars, topicVars
  <1>1. FlagsTypeOK'
    BY DEF FlagsTypeOK
  <1>2. ValuesTypeOK'
    BY DEF ValuesTypeOK
  <1>3. DriveHasOwner' /\ StaleMotionIsOvertaken'
    BY DEF DriveHasOwner, ValuesTypeOK
  <1>4. HeightIsShared'
    BY DEF HeightIsShared, Reaches, ValuesTypeOK
  <1>5. QED
    BY <1>1, <1>2, <1>3, <1>4

LEMMA CloseDevicePreserves == ASSUME InductiveInvariant, CloseDevice PROVE InductiveInvariant'
  <1> HIDE DEF InductiveInvariant
  <1>1. linear' = 0 /\ yaw' = 0 /\ down' = 0 /\ up' = 0 /\ stale' = 0
    BY DEF CloseDevice, ForgetDevice
  <1>2. /\ input' \in {"stop motion", "poll"}
        /\ safeHeight' = height /\ height' = height /\ file' = file /\ timer' = timer
        /\ sample' = sample /\ motionTopic' = motionTopic /\ heightTopic' = heightTopic
        /\ stateTopic' = stateTopic
    BY DEF CloseDevice, ForgetDevice, processVars, topicVars
  <1>3. ok' = ok /\ pad' = pad /\ ~connected' /\ ~own' /\ ~sampleOwn'
    BY DEF CloseDevice, ForgetDevice, processVars
  <1>4. FlagsTypeOK'
    BY DEF FlagsTypeOK, CloseDevice, ForgetDevice, processVars, InductiveInvariant
  <1>5. ValuesTypeOK'
    <2>1. [linear |-> linear', yaw |-> yaw'] = Stop
      BY <1>1 DEF Stop
    <2>2. down' \in 0 .. TriggerMax /\ up' \in 0 .. TriggerMax /\ stale' \in 0 .. 2
      BY <1>1, Constants
    <2>3. QED
      BY <1>2, <2>1, <2>2, StopIsVelocity DEF ValuesTypeOK, InductiveInvariant
  <1>6. DriveHasOwner' /\ StaleMotionIsOvertaken'
    BY <1>1 DEF DriveHasOwner
  <1>7. HeightIsShared'
    BY <1>2, <1>3 DEF HeightIsShared, Reaches, ValuesTypeOK, InductiveInvariant
  <1>8. QED
    BY <1>4, <1>5, <1>6, <1>7 DEF InductiveInvariant

LEMMA DestroyPreserves == ASSUME InductiveInvariant, Destroy PROVE InductiveInvariant'
  <1> USE DEF Destroy, ForgetDevice, processVars, stickVars, triggerVars, topicVars
  <1>1. FlagsTypeOK'
    BY DEF FlagsTypeOK
  <1>2. ValuesTypeOK'
    <2>1. [linear |-> linear', yaw |-> yaw'] = Stop
      BY DEF Stop
    <2>2. down' \in 0 .. TriggerMax /\ up' \in 0 .. TriggerMax /\ stale' \in 0 .. 2
      BY Constants
    <2>3. input' \in {"poll", "close", "stop motion", "stop height", "ended", "destroyed"}
          /\ file' \in {"closed", "open", "dead"}
      BY DEF ValuesTypeOK
    <2>4. QED
      BY <2>1, <2>2, <2>3, StopIsVelocity DEF ValuesTypeOK
  <1>3. DriveHasOwner' /\ StaleMotionIsOvertaken'
    BY DEF DriveHasOwner, ValuesTypeOK
  <1>4. HeightIsShared'
    BY DEF HeightIsShared, Reaches, ValuesTypeOK
  <1>5. QED
    BY <1>1, <1>2, <1>3, <1>4

LEMMA PublishStopMotionPreserves == ASSUME InductiveInvariant, PublishStopMotion PROVE InductiveInvariant'
  <1> USE DEF PublishStopMotion, processVars, stickVars, triggerVars, topicVars
  <1>1. FlagsTypeOK'
    BY DEF FlagsTypeOK
  <1>2. ValuesTypeOK'
    BY StopIsVelocity DEF ValuesTypeOK
  <1>3. DriveHasOwner' /\ StaleMotionIsOvertaken'
    BY DEF DriveHasOwner, ValuesTypeOK
  <1>4. HeightIsShared'
    BY DEF HeightIsShared, Reaches, ValuesTypeOK
  <1>5. QED
    BY <1>1, <1>2, <1>3, <1>4

LEMMA PublishStopHeightPreserves == ASSUME InductiveInvariant, PublishStopHeight PROVE InductiveInvariant'
  <1> USE DEF PublishStopHeight, processVars, stickVars, triggerVars, topicVars
  <1>1. FlagsTypeOK'
    BY DEF FlagsTypeOK
  <1>2. ValuesTypeOK'
    BY DEF ValuesTypeOK
  <1>3. DriveHasOwner' /\ StaleMotionIsOvertaken'
    BY DEF DriveHasOwner, ValuesTypeOK
  <1>4. HeightIsShared'
    BY StaysReached DEF HeightIsShared, Reaches, ValuesTypeOK
  <1>5. QED
    BY <1>1, <1>2, <1>3, <1>4

LEMMA SamplePreserves ==
    ASSUME NEW dt \in Steps, InductiveInvariant, SampleCommands(dt) PROVE InductiveInvariant'
  <1> USE DEF topicVars, processVars
  <1>1. height' \in Heights /\ Reaches(height, height')
    BY HeightReached, StaysReached DEF SampleCommands, ValuesTypeOK
  <1>2. [linear |-> linear', yaw |-> yaw'] \in Velocities
    BY StopIsVelocity DEF SampleCommands, ValuesTypeOK, Stop
  <1>3. /\ sample' = [motion |-> [linear |-> linear', yaw |-> yaw'], height |-> height']
        /\ sampleOwn' = own /\ own' = own /\ timer' = "motion" /\ timer = "idle"
        /\ stale' = stale /\ ok /\ ok' = ok /\ heightTopic' = heightTopic
        /\ input' = input /\ safeHeight' = safeHeight /\ connected' = connected
        /\ ~connected => height' = height
        /\ ~own => linear' = 0 /\ yaw' = 0
    BY DEF SampleCommands, DriveHasOwner
  <1>4. ValuesTypeOK'
    <2>1. down' \in 0 .. TriggerMax /\ up' \in 0 .. TriggerMax
      <3>1. down' \in {0, down} /\ up' \in {0, up}
        BY DEF SampleCommands
      <3>2. QED
        <4>1. down \in 0 .. TriggerMax /\ up \in 0 .. TriggerMax
          BY DEF ValuesTypeOK
        <4> HIDE DEF InductiveInvariant
        <4>2. QED
          BY <3>1, <4>1, Constants
    <2>2. sample' \in [motion : Velocities, height : Heights]
      BY <1>1, <1>2, <1>3
    <2>3. QED
      BY <1>1, <1>2, <1>3, <2>1, <2>2 DEF SampleCommands, ValuesTypeOK
  <1>5. DriveHasOwner' /\ StaleMotionIsOvertaken'
    BY <1>3 DEF DriveHasOwner, Stop
  <1>6. HeightIsShared'
    <2>1. Reaches(height, height')
      BY <1>1
    <2>2. heightTopic # Nothing => heightTopic = height
      BY <1>3 DEF HeightIsShared
    <2>3. ok' /\ heightTopic' # Nothing => Reaches(heightTopic, height')
      BY <1>3, <2>1, <2>2
    <2>4. ok' /\ heightTopic' # Nothing => Reaches(heightTopic, height)'
      BY <1>3, <2>3 DEF Reaches
    <2>5. QED
      BY <1>3, <2>4 DEF HeightIsShared
  <1>7. FlagsTypeOK'
    BY DEF SampleCommands, FlagsTypeOK
  <1>8. QED
    BY <1>4, <1>5, <1>6, <1>7

LEMMA PublishMotionPreserves == ASSUME InductiveInvariant, PublishMotion PROVE InductiveInvariant'
  <1> USE DEF PublishMotion, processVars, stickVars, triggerVars, topicVars
  <1>1. FlagsTypeOK'
    BY DEF FlagsTypeOK
  <1>2. ValuesTypeOK'
    <2>1. stale' \in 0 .. 2
      <3>1. stale' \in {stale, stale + 1} /\ stale \in 0 .. 2 /\ stale <= 1
        BY DEF ValuesTypeOK
      <3> HIDE DEF InductiveInvariant, PublishMotion
      <3>2. QED
        BY <3>1
    <2>2. motionTopic' \in Velocities \cup {Nothing}
      BY DEF ValuesTypeOK
    <2>3. QED
      BY <2>1, <2>2 DEF ValuesTypeOK
  <1>3. DriveHasOwner' /\ StaleMotionIsOvertaken'
    <2>1. stale' <= 1
      <3>1. CASE ok /\ ~sampleOwn /\ sample.motion # Stop
        <4>1. stale = 0
          BY <3>1 DEF DriveHasOwner
        <4>2. QED
          BY <4>1
      <3>2. CASE ~(ok /\ ~sampleOwn /\ sample.motion # Stop)
        BY <3>2
      <3>3. QED
        BY <3>1, <3>2
    <2>2. QED
      BY <2>1 DEF DriveHasOwner
  <1>4. HeightIsShared'
    BY DEF HeightIsShared, Reaches, ValuesTypeOK
  <1>5. QED
    BY <1>1, <1>2, <1>3, <1>4

LEMMA PublishHeightPreserves == ASSUME InductiveInvariant, PublishHeight PROVE InductiveInvariant'
  <1> USE DEF PublishHeight, processVars, stickVars, triggerVars, topicVars
  <1>1. FlagsTypeOK'
    BY DEF FlagsTypeOK
  <1>2. ValuesTypeOK'
    BY DEF ValuesTypeOK
  <1>3. DriveHasOwner' /\ StaleMotionIsOvertaken'
    BY DEF DriveHasOwner, ValuesTypeOK
  <1>4. HeightIsShared'
    BY StaysReached DEF HeightIsShared, Reaches, ValuesTypeOK
  <1>5. QED
    BY <1>1, <1>2, <1>3, <1>4

LEMMA InterruptPreserves == ASSUME InductiveInvariant, Interrupt PROVE InductiveInvariant'
  <1> USE DEF Interrupt, processVars, stickVars, triggerVars, topicVars
  <1>1. FlagsTypeOK'
    BY DEF FlagsTypeOK
  <1>2. ValuesTypeOK'
    BY DEF ValuesTypeOK
  <1>3. DriveHasOwner' /\ StaleMotionIsOvertaken'
    BY DEF DriveHasOwner, ValuesTypeOK
  <1>4. HeightIsShared'
    BY DEF HeightIsShared, Reaches, ValuesTypeOK
  <1>5. QED
    BY <1>1, <1>2, <1>3, <1>4

LEMMA PlugPreserves == ASSUME InductiveInvariant, Plug PROVE InductiveInvariant'
  <1> USE DEF Plug, processVars, stickVars, triggerVars, topicVars
  <1>1. FlagsTypeOK'
    BY DEF FlagsTypeOK
  <1>2. ValuesTypeOK'
    BY DEF ValuesTypeOK
  <1>3. DriveHasOwner' /\ StaleMotionIsOvertaken'
    BY DEF DriveHasOwner, ValuesTypeOK
  <1>4. HeightIsShared'
    BY DEF HeightIsShared, Reaches, ValuesTypeOK
  <1>5. QED
    BY <1>1, <1>2, <1>3, <1>4

LEMMA UnplugPreserves == ASSUME InductiveInvariant, Unplug PROVE InductiveInvariant'
  <1> USE DEF Unplug, processVars, stickVars, triggerVars, topicVars
  <1>1. FlagsTypeOK'
    BY DEF FlagsTypeOK
  <1>2. ValuesTypeOK'
    BY DEF ValuesTypeOK
  <1>3. DriveHasOwner' /\ StaleMotionIsOvertaken'
    BY DEF DriveHasOwner, ValuesTypeOK
  <1>4. HeightIsShared'
    BY DEF HeightIsShared, Reaches, ValuesTypeOK
  <1>5. QED
    BY <1>1, <1>2, <1>3, <1>4

LEMMA StepPreserves == InductiveInvariant /\ [Next]_vars => InductiveInvariant'
  <1> SUFFICES ASSUME InductiveInvariant, [Next]_vars PROVE InductiveInvariant'
    OBVIOUS
  <1>1. CASE UNCHANGED vars
    <2> USE <1>1 DEF vars, processVars, stickVars, triggerVars, topicVars
    <2>1. FlagsTypeOK'
      BY DEF FlagsTypeOK
    <2>2. ValuesTypeOK'
      BY DEF ValuesTypeOK
    <2>3. DriveHasOwner' /\ StaleMotionIsOvertaken'
      BY DEF DriveHasOwner
    <2>4. HeightIsShared'
      BY DEF HeightIsShared, Reaches
    <2>5. QED
      BY <2>1, <2>2, <2>3, <2>4
  <1> HIDE DEF InductiveInvariant
  <1>2. QED
    BY <1>1, StickPreserves, TriggerPreserves, OpenDevicePreserves, PressButtonPreserves,
       ReadFailsPreserves, LoopEndsPreserves, CloseDevicePreserves, DestroyPreserves,
       PublishStopMotionPreserves, PublishStopHeightPreserves, SamplePreserves,
       PublishMotionPreserves, PublishHeightPreserves, InterruptPreserves, PlugPreserves,
       UnplugPreserves
       DEF Next, InputThread, TimerCallback

HIDE DEF InductiveInvariant, TypeOK, FlagsTypeOK, StaleMotionIsOvertaken

-----------------------------------------------------------------------------
\* The invariant holds for every axis, rate, range and raw value.
THEOREM InvariantHolds == Spec => []InductiveInvariant
  <1>1. QED
    BY InitEstablishes, StepPreserves, PTL DEF Spec

\* After the loss of a gamepad at most one driving command is published that
\* no stick movement on the present connection explains.
THEOREM AtMostOneStaleCommand == Spec => []StaleMotionIsOvertaken
  <1>1. InductiveInvariant => StaleMotionIsOvertaken
    BY DEF InductiveInvariant
  <1>2. QED
    BY <1>1, InvariantHolds, PTL

\* Successive heights on the topic, from either thread, are no further apart
\* than one callback can move them.
THEOREM HeightIsContinuous == Spec => HeightNeverJumps
  <1>1. InductiveInvariant /\ [Next]_vars
          => [heightTopic # Nothing /\ heightTopic' # heightTopic
                => Reaches(heightTopic, heightTopic')]_vars
    <2> SUFFICES ASSUME InductiveInvariant, [Next]_vars, heightTopic # Nothing,
                        heightTopic' # heightTopic
                 PROVE  Reaches(heightTopic, heightTopic')
      OBVIOUS
    <2>1. PublishStopHeight \/ PublishHeight
      BY DEF Next, InputThread, TimerCallback, OpenDevice, MoveStick, MoveTrigger, PressButton,
             ReadFails, CloseDevice, PublishStopMotion, LoopEnds, SampleCommands, PublishMotion,
             Interrupt, Destroy, Plug, Unplug, vars, topicVars
    <2>2. ok /\ heightTopic' = height
      BY <2>1 DEF PublishStopHeight, PublishHeight, InductiveInvariant, HeightIsShared
    <2>3. QED
      BY <2>2 DEF InductiveInvariant, HeightIsShared
  <1>2. QED
    BY <1>1, InvariantHolds, PTL DEF Spec, HeightNeverJumps
=============================================================================
