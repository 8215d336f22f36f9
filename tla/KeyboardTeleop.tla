--------------------------- MODULE KeyboardTeleop ---------------------------
(***************************************************************************)
(* keyboard_teleop_node: a thread that reads keys and two timer callbacks, *)
(* one that turns held keys into velocities and one that publishes.  Every *)
(* callback holds cmd_mutex_ from beginning to end, its publications       *)
(* included, so each is one action.                                        *)
(*                                                                         *)
(* A terminal tells of no release, so in the continuous modes a key counts *)
(* as held for KeyTimeout after its last press.  Ages of presses and of    *)
(* the last update are counted in ticks and saturated where no comparison  *)
(* and no clamp tells them apart.                                          *)
(***************************************************************************)
EXTENDS Integers

CONSTANTS
    LinearStep, YawStep, HeightStep,  \* lin_vel_x_step, ang_vel_z_step, height_step
    LinearRate, YawRate,              \* lin_vel_x_rate, ang_vel_z_rate, per tick
    MaxLinear, MaxYaw,                \* max_lin_vel_x, max_ang_vel_z
    MinHeight, MaxHeight,             \* min_height, max_height
    DefaultHeight,                    \* default_height
    KeyTimeout,                       \* the 500 ms of updateCommands
    LongestStep,                      \* ticks after which every rate saturates
    StateKeys,                        \* state ids the operator asks for, of 0 to 3
    Nothing                           \* what a topic holds before the first message

ASSUME StepAssumption == {LinearStep, YawStep, HeightStep, LinearRate, YawRate} \subseteq Nat
ASSUME StateAssumption == StateKeys \subseteq 0 .. 3
ASSUME RangeAssumption ==
    /\ MaxLinear \in Nat /\ MaxYaw \in Nat
    /\ MinHeight \in Int /\ MaxHeight \in Int /\ DefaultHeight \in MinHeight .. MaxHeight
ASSUME TimeAssumption ==
    /\ KeyTimeout \in Nat /\ LongestStep \in Nat
    /\ LongestStep * LinearRate >= 2 * MaxLinear /\ LongestStep * YawRate >= 2 * MaxYaw

VARIABLES
    mode,        \* control_mode and use_rate_in_continuous_mode
    ok,          \* rclcpp::ok()
    reading,     \* the keyboard thread is in its loop
    linear, yaw, \* current_lin_vel_x_, current_ang_vel_z_
    height,      \* current_height_
    keyAge,      \* ages of the presses in pressed_keys_, Never for no entry
    sinceUpdate, \* age of last_update_time_
    motionTopic, \* last motion command published, or Nothing
    heightTopic, \* last height command published, or Nothing
    stateTopic,  \* last state command published, or Nothing
    \* History variable: no action reads it in a guard.
    moved        \* a motion key was pressed since the start or the last stop

velocityVars == <<linear, yaw>>
topicVars == <<motionTopic, heightTopic, stateTopic>>
vars == <<mode, ok, reading, velocityVars, height, keyAge, sinceUpdate, topicVars, moved>>

Never == -1
MotionKeys == {"w", "s", "a", "d"}
Modes == {"step", "rate", "instant"}
Stop == [linear |-> 0, yaw |-> 0]
NoKeys == [key \in MotionKeys |-> Never]

FlagsTypeOK == ok \in BOOLEAN /\ reading \in BOOLEAN /\ moved \in BOOLEAN

ValuesTypeOK ==
    /\ mode \in Modes
    /\ linear \in -MaxLinear .. MaxLinear /\ yaw \in -MaxYaw .. MaxYaw
    /\ height \in MinHeight .. MaxHeight
    /\ keyAge \in [MotionKeys -> Never .. KeyTimeout]
    /\ sinceUpdate \in 0 .. LongestStep
    /\ motionTopic \in [linear : -MaxLinear .. MaxLinear, yaw : -MaxYaw .. MaxYaw]
                       \cup {Nothing}
    /\ heightTopic \in MinHeight .. MaxHeight \cup {Nothing}
    /\ stateTopic \in StateKeys \cup {Nothing}

TypeOK == FlagsTypeOK /\ ValuesTypeOK

\* The keyboard thread returns at once when stdin is not a terminal.
Init ==
    /\ mode \in Modes
    /\ ok = TRUE /\ reading \in BOOLEAN
    /\ linear = 0 /\ yaw = 0 /\ height = DefaultHeight
    /\ keyAge = NoKeys /\ sinceUpdate = 0
    /\ motionTopic = Nothing /\ heightTopic = Nothing /\ stateTopic = Nothing
    /\ moved = FALSE

AtMost(bound, x) == IF x <= bound THEN x ELSE bound
AtLeast(bound, x) == IF x >= bound THEN x ELSE bound

-----------------------------------------------------------------------------
(* processKeyInput.                                                        *)

\* A velocity one step further in the direction of the key.
Stepped(v, up, down, step, max) ==
    IF up THEN AtMost(max, v + step)
    ELSE IF down THEN AtLeast(-max, v - step)
    ELSE v

PressMotionKey(key) ==
    /\ ok /\ reading
    /\ IF mode = "step"
         THEN /\ linear' = Stepped(linear, key = "w", key = "s", LinearStep, MaxLinear)
              /\ yaw' = Stepped(yaw, key = "a", key = "d", YawStep, MaxYaw)
              /\ UNCHANGED keyAge
         ELSE keyAge' = [keyAge EXCEPT ![key] = 0] /\ UNCHANGED velocityVars
    /\ moved' = TRUE
    /\ UNCHANGED <<mode, ok, reading, height, sinceUpdate, topicVars>>

\* Mutant: keys still held drive on after the stop.
PressSpaceKeepingKeys ==
    /\ ok /\ reading
    /\ linear' = 0 /\ yaw' = 0
    /\ moved' = FALSE
    /\ UNCHANGED <<mode, ok, reading, height, keyAge, sinceUpdate, topicVars>>

\* The space bar stops; in the continuous modes it releases the keys too.
PressSpace ==
    /\ ok /\ reading
    /\ linear' = 0 /\ yaw' = 0
    /\ keyAge' = NoKeys
    /\ moved' = FALSE
    /\ UNCHANGED <<mode, ok, reading, height, sinceUpdate, topicVars>>

\* Keys t, g and r work the same way in every mode.
PressHeightKey ==
    /\ ok /\ reading
    /\ height' \in {AtMost(MaxHeight, height + HeightStep),
                    AtLeast(MinHeight, height - HeightStep), DefaultHeight}
    /\ UNCHANGED <<mode, ok, reading, velocityVars, keyAge, sinceUpdate, topicVars, moved>>

\* Keys 0 to 3 publish a state command at once.
PressStateKey ==
    /\ ok /\ reading
    /\ stateTopic' \in StateKeys
    /\ UNCHANGED <<mode, ok, reading, velocityVars, height, keyAge, sinceUpdate, motionTopic,
                   heightTopic, moved>>

\* Key x, or an interrupt: nothing is published any more.
Exit ==
    /\ ok
    /\ ok' = FALSE
    /\ reading' = FALSE
    /\ UNCHANGED <<mode, velocityVars, height, keyAge, sinceUpdate, topicVars, moved>>

-----------------------------------------------------------------------------
(* The timer callbacks.                                                    *)

\* Mutant: a key once pressed counts as held.
HeldForever(key) == keyAge[key] # Never

Held(key) == keyAge[key] # Never /\ keyAge[key] < KeyTimeout

\* One velocity under its two keys, the first of which wins.
Driven(v, forward, backward, rate, max) ==
    CASE Held(forward) ->
           IF mode = "instant" THEN max ELSE AtMost(max, v + rate * sinceUpdate)
      [] ~Held(forward) /\ Held(backward) ->
           IF mode = "instant" THEN -max ELSE AtLeast(-max, v - rate * sinceUpdate)
      [] OTHER ->
           IF mode = "instant" \/ v = 0 THEN 0
           ELSE IF v > 0 THEN AtLeast(0, v - rate * sinceUpdate)
           ELSE AtMost(0, v + rate * sinceUpdate)

UpdateCommands ==
    /\ ok
    /\ mode # "step"
    /\ linear' = Driven(linear, "w", "s", LinearRate, MaxLinear)
    /\ yaw' = Driven(yaw, "a", "d", YawRate, MaxYaw)
    /\ sinceUpdate' = 0
    /\ UNCHANGED <<mode, ok, reading, height, keyAge, topicVars, moved>>

PublishCommands ==
    /\ ok
    /\ motionTopic' = [linear |-> linear, yaw |-> yaw]
    /\ heightTopic' = height
    /\ UNCHANGED <<mode, ok, reading, velocityVars, height, keyAge, sinceUpdate, stateTopic,
                   moved>>

\* Steady time; an age beyond the timeout is as good as no entry.
Tick ==
    /\ keyAge' = [key \in MotionKeys |->
                    IF keyAge[key] = Never THEN Never ELSE AtMost(KeyTimeout, keyAge[key] + 1)]
    /\ sinceUpdate' = IF mode = "step" THEN 0 ELSE AtMost(LongestStep, sinceUpdate + 1)
    /\ UNCHANGED <<mode, ok, reading, velocityVars, height, topicVars, moved>>

-----------------------------------------------------------------------------
PressAnyMotionKey == \E key \in MotionKeys : PressMotionKey(key)

Next ==
    \/ PressAnyMotionKey
    \/ PressSpace \/ PressHeightKey \/ PressStateKey \/ Exit
    \/ UpdateCommands
    \/ PublishCommands
    \/ Tick

Spec == Init /\ [][Next]_vars

\* Both timers keep firing, and time passes between two updates.
FairSpec ==
    /\ Spec
    /\ WF_vars(Tick)
    /\ WF_vars(PublishCommands)
    /\ WF_vars(UpdateCommands)
    /\ SF_vars(UpdateCommands /\ sinceUpdate > 0)
-----------------------------------------------------------------------------
(* Properties.                                                             *)

\* After the space bar, and before the first motion key, only the zero
\* velocity is published until a motion key is pressed: neither a held key
\* nor the decay of a velocity brings the robot back into motion.
SpaceStops ==
    [][motionTopic' # motionTopic /\ motionTopic' # Stop => moved]_vars

\* In the continuous modes a robot whose operator lets go of the keys (or
\* whose terminal is gone) is told to stop, for as long as the node runs.
ReleaseStops ==
    \/ mode = "step"
    \/ []<><<PressAnyMotionKey>>_vars
    \/ <>[](~ok \/ motionTopic = Stop)

-----------------------------------------------------------------------------
(* The inductive invariant behind SpaceStops.                              *)

\* Nothing moves, and no key is counted as held, until a motion key is pressed.
RestsUntilMoved == ~moved => linear = 0 /\ yaw = 0 /\ keyAge = NoKeys

\* Velocities and height stay within their maxima whatever keys are pressed and
\* however late the timer comes, and before a first key there is no velocity.
InductiveInvariant == TypeOK /\ RestsUntilMoved
=============================================================================
