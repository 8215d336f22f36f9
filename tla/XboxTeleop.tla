----------------------------- MODULE XboxTeleop -----------------------------
(***************************************************************************)
(* xbox_teleop_node: an input thread that reads the gamepad and reopens it *)
(* when it is lost, and a timer callback (executor thread) that publishes  *)
(* motion and height commands at a fixed rate.                             *)
(*                                                                         *)
(* The threads share the fields under cmd_mutex_.  Neither holds the mutex *)
(* while it publishes, so each callback is split into its critical section *)
(* and its publications.  device_fd_ belongs to the input thread alone.    *)
(*                                                                         *)
(* Velocities are counted in 1/AxisMax of the maximum velocity, heights in *)
(* the least change a trigger can bring about in the least time step.      *)
(***************************************************************************)
EXTENDS Integers

CONSTANTS
    AxisMax, StickDeadzone,      \* axis_abs_max, stick_deadzone
    LinearSign, YawSign,         \* linear_x_axis_sign, angular_z_axis_sign
    MaxLinear, MaxYaw,           \* max_linear_x, max_angular_z
    TriggerMax, TriggerDeadzone, \* trigger_abs_max, trigger_deadzone
    UpRate, DownRate,            \* height_up_rate, height_down_rate
    MinHeight, MaxHeight,        \* min_height, max_height, in order
    DefaultHeight,               \* default_height, clamped
    MaxStep,                     \* the 0.2 s no time step exceeds
    Steps,                       \* time steps between two timer callbacks
    StickRaws, TriggerRaws,      \* raw values the gamepad may report
    Nothing                      \* what a topic holds before the first message

ASSUME AxisAssumption ==
    /\ AxisMax \in Nat \ {0} /\ StickDeadzone \in Nat
    /\ TriggerMax \in Nat \ {0} /\ TriggerDeadzone \in Nat
    /\ LinearSign \in Int /\ YawSign \in Int /\ MaxLinear \in Nat /\ MaxYaw \in Nat
ASSUME HeightAssumption ==
    /\ UpRate \in Nat /\ DownRate \in Nat /\ MinHeight \in Int /\ MaxHeight \in Int
    /\ DefaultHeight \in MinHeight .. MaxHeight
ASSUME StepAssumption == MaxStep \in Nat /\ Steps \subseteq Nat
ASSUME RawAssumption == StickRaws \subseteq Int /\ TriggerRaws \subseteq Int

VARIABLES
    ok,          \* rclcpp::ok()
    pad,         \* environment: the gamepad is there
    file,        \* device_fd_: closed, open, or dead, on a gamepad that is gone
    input,       \* where the input thread is
    connected,   \* device_connected_
    linear, yaw, \* current_linear_x_, current_angular_z_
    down, up,    \* left_trigger_, right_trigger_
    height,      \* current_height_
    safeHeight,  \* closeDevice's safe_height
    timer,       \* where publishCommands is
    sample,      \* publishCommands' linear_x, angular_z and height
    motionTopic, \* last motion command published, or Nothing
    heightTopic, \* last height command published, or Nothing
    stateTopic,  \* last state command published, or Nothing
    \* History variables: no action reads them in a guard.
    own,         \* a stick was moved on the present connection
    sampleOwn,   \* so it was, on the same connection, when sample was taken
    stale        \* driving commands published since the last closing that no
                 \* movement on the present connection explains (2: or more)

processVars == <<ok, pad, file>>
stickVars == <<linear, yaw, own>>
triggerVars == <<down, up>>
topicVars == <<motionTopic, heightTopic, stateTopic>>
vars == <<processVars, input, connected, stickVars, triggerVars, height, safeHeight, timer,
          sample, topicVars, sampleOwn, stale>>

Stop == [linear |-> 0, yaw |-> 0]
Velocities == [linear : -(AxisMax * MaxLinear) .. AxisMax * MaxLinear,
               yaw : -(AxisMax * MaxYaw) .. AxisMax * MaxYaw]
Heights == MinHeight .. MaxHeight

FlagsTypeOK ==
    /\ ok \in BOOLEAN /\ pad \in BOOLEAN /\ connected \in BOOLEAN
    /\ own \in BOOLEAN /\ sampleOwn \in BOOLEAN

ValuesTypeOK ==
    /\ file \in {"closed", "open", "dead"}
    /\ input \in {"poll", "close", "stop motion", "stop height", "ended", "destroyed"}
    /\ timer \in {"idle", "motion", "height"}
    /\ [linear |-> linear, yaw |-> yaw] \in Velocities
    /\ down \in 0 .. TriggerMax /\ up \in 0 .. TriggerMax
    /\ height \in Heights /\ safeHeight \in Heights
    /\ sample \in [motion : Velocities, height : Heights]
    /\ motionTopic \in Velocities \cup {Nothing}
    /\ heightTopic \in Heights \cup {Nothing}
    /\ stateTopic \in {"RL", "IDLE", Nothing}
    /\ stale \in 0 .. 2

TypeOK == FlagsTypeOK /\ ValuesTypeOK

Init ==
    /\ ok = TRUE /\ pad \in BOOLEAN /\ file = "closed"
    /\ input = "poll" /\ connected = FALSE
    /\ linear = 0 /\ yaw = 0 /\ down = 0 /\ up = 0
    /\ height = DefaultHeight /\ safeHeight = DefaultHeight
    /\ timer = "idle" /\ sample = [motion |-> Stop, height |-> DefaultHeight]
    /\ motionTopic = Nothing /\ heightTopic = Nothing /\ stateTopic = Nothing
    /\ own = FALSE /\ sampleOwn = FALSE /\ stale = 0

-----------------------------------------------------------------------------
(* Conversions.                                                            *)

Clamp(x, low, high) == IF x < low THEN low ELSE IF x > high THEN high ELSE x

NormalizeStick(raw, sign, max) ==
    IF -StickDeadzone < raw /\ raw < StickDeadzone
      THEN 0
      ELSE max * Clamp(sign * raw, -AxisMax, AxisMax)

NormalizeTrigger(raw) ==
    IF raw <= TriggerDeadzone THEN 0 ELSE Clamp(raw, 0, TriggerMax)

-----------------------------------------------------------------------------
(* The input thread.                                                       *)

\* openDevice, when it finds the gamepad; otherwise the loop sleeps.
OpenDevice ==
    /\ input = "poll" /\ ok /\ file = "closed" /\ pad
    /\ file' = "open"
    /\ connected' = TRUE
    /\ UNCHANGED <<ok, pad, input, stickVars, triggerVars, height, safeHeight, timer, sample,
                   topicVars, sampleOwn, stale>>

Reads == input = "poll" /\ ok /\ file = "open"

\* handleAxisEvent for either stick.
MoveStick(raw) ==
    /\ Reads
    /\ \/ linear' = NormalizeStick(raw, LinearSign, MaxLinear) /\ UNCHANGED yaw
       \/ yaw' = NormalizeStick(raw, YawSign, MaxYaw) /\ UNCHANGED linear
    /\ own' = TRUE
    /\ UNCHANGED <<processVars, input, connected, triggerVars, height, safeHeight, timer,
                   sample, topicVars, sampleOwn, stale>>

\* handleAxisEvent for either trigger.
MoveTrigger(raw) ==
    /\ Reads
    /\ \/ down' = NormalizeTrigger(raw) /\ UNCHANGED up
       \/ up' = NormalizeTrigger(raw) /\ UNCHANGED down
    /\ UNCHANGED <<processVars, input, connected, stickVars, height, safeHeight, timer,
                   sample, topicVars, sampleOwn, stale>>

\* handleButtonEvent: START asks for RL, RECORD for IDLE, at once.
PressButton ==
    /\ Reads
    /\ stateTopic' \in {"RL", "IDLE"}
    /\ UNCHANGED <<processVars, input, connected, stickVars, triggerVars, height, safeHeight,
                   timer, sample, motionTopic, heightTopic, sampleOwn, stale>>

\* Mutant: every error of read() is taken for "nothing to read yet".
ReadFailsSilently ==
    /\ input = "poll" /\ ok /\ file # "closed"
    /\ UNCHANGED vars

\* read() fails, is short or reaches the end: closeDevice closes the file.
ReadFails ==
    /\ input = "poll" /\ ok /\ file # "closed"
    /\ input' = "close"
    /\ file' = "closed"
    /\ UNCHANGED <<ok, pad, connected, stickVars, triggerVars, height, safeHeight, timer,
                   sample, topicVars, sampleOwn, stale>>

\* Mutant: the sticks keep the values of the lost connection.
ForgetTriggersOnly ==
    /\ connected' = FALSE
    /\ safeHeight' = height
    /\ down' = 0 /\ up' = 0
    /\ own' = FALSE /\ sampleOwn' = FALSE /\ stale' = 0
    /\ UNCHANGED <<linear, yaw>>

\* Mutant: the stop goes with the default height.
ForgetWithDefaultHeight ==
    /\ connected' = FALSE
    /\ safeHeight' = DefaultHeight
    /\ linear' = 0 /\ yaw' = 0 /\ down' = 0 /\ up' = 0
    /\ own' = FALSE /\ sampleOwn' = FALSE /\ stale' = 0

\* closeDevice's critical section.
ForgetDevice ==
    /\ connected' = FALSE
    /\ safeHeight' = height
    /\ linear' = 0 /\ yaw' = 0 /\ down' = 0 /\ up' = 0
    /\ own' = FALSE /\ sampleOwn' = FALSE /\ stale' = 0

CloseDevice ==
    /\ input = "close"
    /\ input' = IF connected THEN "stop motion" ELSE "poll"
    /\ ForgetDevice
    /\ UNCHANGED <<processVars, height, timer, sample, topicVars>>

\* publishSafeStop, if the node is not being shut down: motion, then height.
PublishStopMotion ==
    /\ input = "stop motion"
    /\ IF ok
         THEN motionTopic' = Stop /\ input' = "stop height"
         ELSE UNCHANGED motionTopic /\ input' = "poll"
    /\ UNCHANGED <<processVars, connected, stickVars, triggerVars, height, safeHeight, timer,
                   sample, heightTopic, stateTopic, sampleOwn, stale>>

PublishStopHeight ==
    /\ input = "stop height"
    /\ input' = "poll"
    /\ heightTopic' = IF ok THEN safeHeight ELSE heightTopic
    /\ UNCHANGED <<processVars, connected, stickVars, triggerVars, height, safeHeight, timer,
                   sample, motionTopic, stateTopic, sampleOwn, stale>>

LoopEnds ==
    /\ input = "poll" /\ ~ok
    /\ input' = "ended"
    /\ UNCHANGED <<processVars, connected, stickVars, triggerVars, height, safeHeight, timer,
                   sample, topicVars, sampleOwn, stale>>

InputThread ==
    \/ OpenDevice
    \/ \E raw \in StickRaws : MoveStick(raw)
    \/ \E raw \in TriggerRaws : MoveTrigger(raw)
    \/ PressButton
    \/ ReadFails
    \/ CloseDevice \/ PublishStopMotion \/ PublishStopHeight
    \/ LoopEnds

-----------------------------------------------------------------------------
(* The executor thread.                                                    *)

\* The critical section of publishCommands, after a step dt of steady time.
SampleCommands(dt) ==
    /\ timer = "idle" /\ ok
    /\ timer' = "motion"
    /\ LET step == IF dt > MaxStep THEN MaxStep ELSE dt
       IN height' = IF connected
                      THEN Clamp(height + (up * UpRate - down * DownRate) * step,
                                 MinHeight, MaxHeight)
                      ELSE height
    /\ IF connected
         THEN UNCHANGED <<linear, yaw, down, up>>
         ELSE linear' = 0 /\ yaw' = 0 /\ down' = 0 /\ up' = 0
    /\ sample' = [motion |-> [linear |-> linear', yaw |-> yaw'], height |-> height']
    /\ sampleOwn' = own
    /\ UNCHANGED <<processVars, input, connected, own, safeHeight, topicVars, stale>>

PublishMotion ==
    /\ timer = "motion"
    /\ timer' = "height"
    /\ motionTopic' = IF ok THEN sample.motion ELSE motionTopic
    /\ stale' = IF ok /\ ~sampleOwn /\ sample.motion # Stop /\ stale < 2
                  THEN stale + 1
                  ELSE stale
    /\ UNCHANGED <<processVars, input, connected, stickVars, triggerVars, height, safeHeight,
                   sample, heightTopic, stateTopic, sampleOwn>>

PublishHeight ==
    /\ timer = "height"
    /\ timer' = "idle"
    /\ heightTopic' = IF ok THEN sample.height ELSE heightTopic
    /\ UNCHANGED <<processVars, input, connected, stickVars, triggerVars, height, safeHeight,
                   sample, motionTopic, stateTopic, sampleOwn, stale>>

TimerCallback == (\E dt \in Steps : SampleCommands(dt)) \/ PublishMotion \/ PublishHeight

-----------------------------------------------------------------------------
(* The end of the process, and the gamepad.                                *)

\* An interrupt ends rclcpp; spin() returns when the callback has ended.
Interrupt ==
    /\ ok
    /\ ok' = FALSE
    /\ UNCHANGED <<pad, file, input, connected, stickVars, triggerVars, height, safeHeight,
                   timer, sample, topicVars, sampleOwn, stale>>

\* The destructor joins the input thread and closes the device; there is no
\* stop command any more.
Destroy ==
    /\ input = "ended" /\ timer = "idle"
    /\ input' = "destroyed"
    /\ file' = "closed"
    /\ ForgetDevice
    /\ UNCHANGED <<ok, pad, height, timer, sample, topicVars>>

Plug ==
    /\ ~pad
    /\ pad' = TRUE
    /\ UNCHANGED <<ok, file, input, connected, stickVars, triggerVars, height, safeHeight,
                   timer, sample, topicVars, sampleOwn, stale>>

\* A file opened on the gamepad is dead from now on, whatever is plugged in.
Unplug ==
    /\ pad
    /\ pad' = FALSE
    /\ file' = IF file = "open" THEN "dead" ELSE file
    /\ UNCHANGED <<ok, input, connected, stickVars, triggerVars, height, safeHeight,
                   timer, sample, topicVars, sampleOwn, stale>>

Next == InputThread \/ TimerCallback \/ Interrupt \/ Destroy \/ Plug \/ Unplug

Spec == Init /\ [][Next]_vars

\* The timer keeps firing, the closing of the device goes on, and a gamepad
\* that is gone makes read() fail.
FairSpec ==
    /\ Spec
    /\ WF_vars(TimerCallback)
    /\ WF_vars(ReadFails /\ file = "dead")
    /\ WF_vars(CloseDevice \/ PublishStopMotion \/ PublishStopHeight)
-----------------------------------------------------------------------------
(* Properties.                                                             *)

\* Since the gamepad was lost, at most one driving command was published
\* that no stick movement on the present connection explains: the callback
\* that had sampled before the loss may overtake the stop, once, and nothing
\* of the old connection is published by the new one.
StaleMotionIsOvertaken == stale <= 1

\* One callback can have moved the height from the one to the other.
MaxRise == MaxStep * TriggerMax * UpRate
MaxFall == MaxStep * TriggerMax * DownRate
Reaches(from, to) == to - from <= MaxRise /\ from - to <= MaxFall

\* The height topic never jumps: two successive heights, whichever thread
\* publishes them, are no further apart than one callback can move them.
HeightNeverJumps ==
    [][heightTopic # Nothing /\ heightTopic' # heightTopic =>
         Reaches(heightTopic, heightTopic')]_vars

\* A gamepad that is unplugged for good stops the robot for good.
UnplugStops == <>[](ok /\ ~pad) => <>[](motionTopic = Stop)

-----------------------------------------------------------------------------
(* The inductive invariant behind the safety properties.                   *)

\* Sticks that were not moved on the present connection are at rest, so that
\* only a sample from before a closing can drive without an owner.
DriveHasOwner ==
    /\ ~own => linear = 0 /\ yaw = 0
    /\ timer = "motion" /\ ~sampleOwn /\ sample.motion # Stop => stale = 0

\* Whoever publishes a height publishes the present one, which is at most one
\* callback away from the last one published, and is that one at rest.
HeightIsShared ==
    /\ timer # "idle" => sample.height = height
    /\ input \in {"stop motion", "stop height"} => safeHeight = height /\ ~connected
    /\ ok /\ heightTopic # Nothing =>
         /\ Reaches(heightTopic, height)
         /\ timer = "idle" => heightTopic = height

InductiveInvariant ==
    /\ TypeOK
    /\ DriveHasOwner
    /\ StaleMotionIsOvertaken
    /\ HeightIsShared
=============================================================================
