------------------------ MODULE KeyboardTeleopProofs ------------------------
(***************************************************************************)
(* Proofs about KeyboardTeleop: the stop of the space bar lasts, for every *)
(* step, rate, limit and timeout, and every velocity stays in its range.   *)
(***************************************************************************)
EXTENDS KeyboardTeleop, TLAPS

USE StepAssumption, StateAssumption, RangeAssumption, TimeAssumption
    DEF StepAssumption, StateAssumption, RangeAssumption, TimeAssumption

\* An update moves a velocity within its range, however much time it makes up
\* for, and leaves it at rest if it is and the keys are up.
LEMMA DrivenInRange ==
    ASSUME NEW max \in Nat, NEW v \in -max .. max, NEW rate \in Nat,
           NEW forward, NEW backward, sinceUpdate \in Nat
    PROVE  /\ Driven(v, forward, backward, rate, max) \in -max .. max
           /\ v = 0 /\ ~Held(forward) /\ ~Held(backward) =>
                 Driven(v, forward, backward, rate, max) = 0
  <1>1. rate * sinceUpdate \in Nat
    OBVIOUS
  <1> DEFINE moved_by == rate * sinceUpdate
  <1>2. moved_by \in Nat
    BY <1>1
  <1> HIDE DEF moved_by
  <1>3. CASE Held(forward)
    <2>1. Driven(v, forward, backward, rate, max)
            = IF mode = "instant" THEN max ELSE AtMost(max, v + moved_by)
      BY <1>3 DEF Driven, moved_by
    <2>2. QED
      BY <1>2, <1>3, <2>1 DEF AtMost
  <1>4. CASE ~Held(forward) /\ Held(backward)
    <2>1. Driven(v, forward, backward, rate, max)
            = IF mode = "instant" THEN -max ELSE AtLeast(-max, v - moved_by)
      BY <1>4 DEF Driven, moved_by
    <2>2. QED
      BY <1>2, <1>4, <2>1 DEF AtLeast
  <1>5. CASE ~Held(forward) /\ ~Held(backward)
    <2>1. Driven(v, forward, backward, rate, max)
            = IF mode = "instant" \/ v = 0 THEN 0
              ELSE IF v > 0 THEN AtLeast(0, v - moved_by) ELSE AtMost(0, v + moved_by)
      BY <1>5 DEF Driven, moved_by
    <2>2. QED
      BY <1>2, <2>1 DEF AtMost, AtLeast
  <1>6. QED
    BY <1>3, <1>4, <1>5

USE DEF InductiveInvariant, TypeOK

LEMMA InitEstablishes == Init => InductiveInvariant
  <1> SUFFICES ASSUME Init PROVE InductiveInvariant
    OBVIOUS
  <1>1. FlagsTypeOK
    BY DEF Init, FlagsTypeOK
  <1>2. ValuesTypeOK
    BY DEF Init, ValuesTypeOK, NoKeys, Never
  <1>3. RestsUntilMoved
    BY DEF Init, RestsUntilMoved
  <1>4. QED
    BY <1>1, <1>2, <1>3

LEMMA MotionKeyPreserves ==
    ASSUME NEW key \in MotionKeys, InductiveInvariant, PressMotionKey(key)
    PROVE  InductiveInvariant'
  <1> USE DEF PressMotionKey, velocityVars, topicVars
  <1>1. linear' \in -MaxLinear .. MaxLinear /\ yaw' \in -MaxYaw .. MaxYaw
    BY DEF ValuesTypeOK, Stepped, AtMost, AtLeast
  <1>2. keyAge' \in [MotionKeys -> Never .. KeyTimeout]
    <2>1. 0 \in Never .. KeyTimeout
      BY DEF Never
    <2>2. keyAge' = keyAge \/ keyAge' = [keyAge EXCEPT ![key] = 0]
      OBVIOUS
    <2>3. QED
      BY <2>1, <2>2 DEF ValuesTypeOK
  <1>3. FlagsTypeOK'
    BY DEF FlagsTypeOK
  <1>4. ValuesTypeOK'
    BY <1>1, <1>2 DEF ValuesTypeOK
  <1>5. RestsUntilMoved'
    BY DEF RestsUntilMoved
  <1>6. QED
    BY <1>3, <1>4, <1>5

LEMMA OtherKeyPreserves ==
    ASSUME InductiveInvariant, PressSpace \/ PressHeightKey \/ PressStateKey \/ Exit
    PROVE  InductiveInvariant'
  <1> USE DEF PressSpace, PressHeightKey, PressStateKey, Exit, velocityVars, topicVars
  <1>1. FlagsTypeOK'
    BY DEF FlagsTypeOK
  <1>2. ValuesTypeOK'
    <2>1. height' \in MinHeight .. MaxHeight
      BY DEF ValuesTypeOK, AtMost, AtLeast
    <2>2. NoKeys \in [MotionKeys -> Never .. KeyTimeout]
      BY DEF NoKeys, Never
    <2>3. QED
      BY <2>1, <2>2 DEF ValuesTypeOK
  <1>3. RestsUntilMoved'
    BY DEF RestsUntilMoved
  <1>4. QED
    BY <1>1, <1>2, <1>3

LEMMA UpdatePreserves ==
    ASSUME InductiveInvariant, UpdateCommands PROVE InductiveInvariant'
  <1> USE DEF UpdateCommands, topicVars
  <1>1. linear' \in -MaxLinear .. MaxLinear /\ yaw' \in -MaxYaw .. MaxYaw
    BY DrivenInRange DEF ValuesTypeOK
  <1>2. RestsUntilMoved'
    <2>1. ASSUME ~moved PROVE linear' = 0 /\ yaw' = 0
      <3>1. linear = 0 /\ yaw = 0 /\ \A key \in MotionKeys : ~Held(key)
        BY <2>1 DEF RestsUntilMoved, Held, NoKeys
      <3>2. ~Held("w") /\ ~Held("s") /\ ~Held("a") /\ ~Held("d")
        BY <3>1 DEF MotionKeys
      <3>3. linear \in -MaxLinear .. MaxLinear /\ yaw \in -MaxYaw .. MaxYaw
            /\ sinceUpdate \in Nat
        BY DEF ValuesTypeOK
      <3>4. Driven(linear, "w", "s", LinearRate, MaxLinear) = 0
        BY <3>1, <3>2, <3>3, DrivenInRange
      <3>5. Driven(yaw, "a", "d", YawRate, MaxYaw) = 0
        BY <3>1, <3>2, <3>3, DrivenInRange
      <3>6. QED
        BY <3>4, <3>5
    <2>2. QED
      BY <2>1 DEF RestsUntilMoved
  <1>3. FlagsTypeOK'
    BY DEF FlagsTypeOK
  <1>4. ValuesTypeOK'
    BY <1>1 DEF ValuesTypeOK
  <1>5. QED
    BY <1>2, <1>3, <1>4

LEMMA TickPreserves ==
    ASSUME InductiveInvariant, Tick PROVE InductiveInvariant'
  <1> USE DEF Tick, velocityVars, topicVars
  <1>1. FlagsTypeOK'
    BY DEF FlagsTypeOK
  <1>2. ValuesTypeOK'
    <2>1. keyAge' \in [MotionKeys -> Never .. KeyTimeout]
      BY DEF ValuesTypeOK, Never, AtMost
    <2>2. sinceUpdate' \in 0 .. LongestStep
      BY DEF ValuesTypeOK, AtMost
    <2>3. QED
      BY <2>1, <2>2 DEF ValuesTypeOK
  <1>3. RestsUntilMoved'
    BY DEF RestsUntilMoved, NoKeys
  <1>4. QED
    BY <1>1, <1>2, <1>3

LEMMA PublishPreserves ==
    ASSUME InductiveInvariant, PublishCommands PROVE InductiveInvariant'
  <1> USE DEF PublishCommands, velocityVars
  <1>1. FlagsTypeOK'
    BY DEF FlagsTypeOK
  <1>2. ValuesTypeOK'
    BY DEF ValuesTypeOK
  <1>3. RestsUntilMoved'
    BY DEF RestsUntilMoved
  <1>4. QED
    BY <1>1, <1>2, <1>3

LEMMA StepPreserves == InductiveInvariant /\ [Next]_vars => InductiveInvariant'
  <1> SUFFICES ASSUME InductiveInvariant, [Next]_vars PROVE InductiveInvariant'
    OBVIOUS
  <1>1. CASE UNCHANGED vars
    BY <1>1 DEF vars, velocityVars, topicVars, FlagsTypeOK, ValuesTypeOK, RestsUntilMoved
  <1> HIDE DEF InductiveInvariant
  <1>2. QED
    BY <1>1, MotionKeyPreserves, OtherKeyPreserves, UpdatePreserves, TickPreserves,
       PublishPreserves DEF Next, PressAnyMotionKey

HIDE DEF InductiveInvariant, TypeOK

-----------------------------------------------------------------------------
\* Velocities, height and topics stay in their ranges, and nothing moves
\* before a motion key was pressed, for every value of the parameters.
THEOREM InvariantHolds == Spec => []InductiveInvariant
  <1>1. QED
    BY InitEstablishes, StepPreserves, PTL DEF Spec

\* After the space bar only the zero velocity is published until a motion
\* key is pressed: no held key and no decay overrides the stop.
THEOREM SpaceStopsForGood == Spec => SpaceStops
  <1>1. InductiveInvariant /\ [Next]_vars
          => [motionTopic' # motionTopic /\ motionTopic' # Stop => moved]_vars
    <2> SUFFICES ASSUME InductiveInvariant, [Next]_vars, motionTopic' # motionTopic,
                        motionTopic' # Stop
                 PROVE  moved
      OBVIOUS
    <2>1. PublishCommands
      BY DEF Next, PressAnyMotionKey, PressMotionKey, PressSpace, PressHeightKey, PressStateKey,
             Exit, UpdateCommands, Tick, vars, topicVars
    <2>2. ~(linear = 0 /\ yaw = 0)
      BY <2>1 DEF PublishCommands, Stop
    <2>3. QED
      BY <2>2 DEF InductiveInvariant, RestsUntilMoved
  <1>2. QED
    BY <1>1, InvariantHolds, PTL DEF Spec, SpaceStops
=============================================================================
