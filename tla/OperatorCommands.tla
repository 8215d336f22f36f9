-------------------------- MODULE OperatorCommands --------------------------
(***************************************************************************)
(* The operator's motion and height commands inside TemplateRos2Controller:*)
(* the two topic callbacks, the watchdog in updateRobotState, the DT7      *)
(* receiver as the alternative source, and the resets that must forget     *)
(* everything said before them.                                            *)
(*                                                                         *)
(* The callbacks (executor thread) and the control thread share the fields *)
(* guarded by motion_cmd_mutex_; each critical section is one action.      *)
(* Steady time is counted in ticks; only the age of a receive stamp is     *)
(* ever compared, so the model keeps ages, saturated above the timeout.    *)
(***************************************************************************)
EXTENDS Integers

CONSTANTS
    Timeout,                   \* motion_command_timeout_sec, in ticks
    LinearMin, LinearMax,      \* motion_linear_x_min, motion_linear_x_max
    YawMin, YawMax,            \* motion_angular_z_min, motion_angular_z_max
    HeightMin, HeightMax,      \* command_height_min, command_height_max
    DefaultHeight,             \* default_command_height
    Linears, Yaws, Heights,    \* values an operator may send
    Dt7Linears, Dt7Heights,    \* values the DT7 receiver may show
    NonFinite                  \* NaN or an infinity

ASSUME TimeoutAssumption == Timeout \in Nat
ASSUME RangeAssumption ==
    /\ {LinearMin, LinearMax, YawMin, YawMax, HeightMin, HeightMax, DefaultHeight} \subseteq Int
    /\ LinearMin <= LinearMax /\ YawMin <= YawMax
    /\ HeightMin <= DefaultHeight /\ DefaultHeight <= HeightMax
ASSUME InputAssumption ==
    /\ Linears \cup Yaws \cup Heights \cup Dt7Linears \cup Dt7Heights \subseteq Int \cup {NonFinite}
    /\ NonFinite \notin Int

VARIABLES
    useDt7,          \* parameter use_dt7, read once by on_init
    lifecycle,       \* lifecycle state of the controller node
    subscribed,      \* the command subscriptions exist
    state,           \* the state machine's current state when update() starts
    motion,          \* latest_lin_vel_x_, latest_ang_vel_z_
    height,          \* latest_height_
    motionReceived,  \* motion_cmd_received_
    heightReceived,  \* height_cmd_received_
    motionAge,       \* age of last_motion_command_receive_ns_, or NoStamp for 0
    heightAge,       \* age of last_height_command_receive_ns_, or NoStamp for 0
    used,            \* robot_state_.command, what the policy observes
    \* History variables: no action reads them.
    saidMotion,      \* the last motion command accepted since the last reset
    saidMotionAge,   \* its real age, or NoStamp
    saidHeight,      \* the last height command accepted since the last reset
    saidHeightAge,   \* its real age, or NoStamp
    heightNews       \* a height command was accepted since the last update

nodeVars == <<useDt7, lifecycle, subscribed, state>>
motionVars == <<motion, motionReceived, motionAge>>
heightVars == <<height, heightReceived, heightAge>>
saidVars == <<saidMotion, saidMotionAge, saidHeight, saidHeightAge, heightNews>>
vars == <<nodeVars, motionVars, heightVars, used, saidVars>>

NoStamp == -1
Ages == NoStamp .. Timeout + 1
Zero == [linear |-> 0, yaw |-> 0]
Motions == [linear : Int, yaw : Int]
ActiveStates == {"PREPARE", "RL"}
States == {"INIT", "IDLE"} \cup ActiveStates

FlagsTypeOK ==
    /\ useDt7 \in BOOLEAN
    /\ subscribed \in BOOLEAN
    /\ motionReceived \in BOOLEAN
    /\ heightReceived \in BOOLEAN
    /\ heightNews \in BOOLEAN

ValuesTypeOK ==
    /\ lifecycle \in {"unconfigured", "inactive", "active", "finalized"}
    /\ state \in States
    /\ motion \in Motions /\ saidMotion \in Motions
    /\ height \in Int /\ saidHeight \in Int
    /\ used \in [motion : Motions, height : Int]
    /\ motionAge \in Ages /\ heightAge \in Ages
    /\ saidMotionAge \in Ages /\ saidHeightAge \in Ages

TypeOK == FlagsTypeOK /\ ValuesTypeOK

\* Mutant: only the lower limit is applied.
ClampBelow(x, low, high) == IF x < low THEN low ELSE x

Clamp(x, low, high) == IF x < low THEN low ELSE IF x > high THEN high ELSE x

\* limitMotionCommand
LimitMotion(linear, yaw) ==
    [linear |-> Clamp(linear, LinearMin, LinearMax), yaw |-> Clamp(yaw, YawMin, YawMax)]

\* limitHeightCommand
LimitHeight(h) == Clamp(h, HeightMin, HeightMax)

\* A constructed controller; robot_state_ is zero until it is first read.
Init ==
    /\ useDt7 \in BOOLEAN
    /\ lifecycle = "unconfigured"
    /\ subscribed = FALSE
    /\ state = "INIT"
    /\ motion = Zero /\ motionReceived = FALSE /\ motionAge = NoStamp
    /\ height = DefaultHeight /\ heightReceived = FALSE /\ heightAge = NoStamp
    /\ used = [motion |-> Zero, height |-> 0]
    /\ saidMotion = Zero /\ saidMotionAge = NoStamp
    /\ saidHeight = DefaultHeight /\ saidHeightAge = NoStamp
    /\ heightNews = FALSE

-----------------------------------------------------------------------------
(* The executor thread: the callbacks, whatever the lifecycle state.       *)

\* motionCommandCallback: one component that is not finite rejects both.
MotionCommand(linear, yaw) ==
    /\ subscribed
    /\ NonFinite \notin {linear, yaw}
    /\ motion' = LimitMotion(linear, yaw)
    /\ motionReceived' = TRUE
    /\ motionAge' = 0
    /\ saidMotion' = LimitMotion(linear, yaw)
    /\ saidMotionAge' = 0
    /\ UNCHANGED <<nodeVars, heightVars, used, saidHeight, saidHeightAge, heightNews>>

\* heightCommandCallback
HeightCommand(h) ==
    /\ subscribed
    /\ h # NonFinite
    /\ height' = LimitHeight(h)
    /\ heightReceived' = TRUE
    /\ heightAge' = 0
    /\ saidHeight' = LimitHeight(h)
    /\ saidHeightAge' = 0
    /\ heightNews' = TRUE
    /\ UNCHANGED <<nodeVars, motionVars, used, saidMotion, saidMotionAge>>

-----------------------------------------------------------------------------
(* The control thread: updateRobotState's critical section, reached only   *)
(* when the IMU data were valid.                                           *)

\* read_value: a value that is not finite is replaced.
ReadValue(x, previous) == IF x = NonFinite THEN previous ELSE x

\* Mutant: a value that is not finite leaves what the store held.
UpdateFromDt7OrStore(linear, yaw, h) ==
    /\ lifecycle = "active"
    /\ useDt7
    /\ motion' = LimitMotion(ReadValue(linear, motion.linear), ReadValue(yaw, motion.yaw))
    /\ height' = LimitHeight(ReadValue(h, height))
    /\ motionReceived' = TRUE /\ motionAge' = 0
    /\ heightReceived' = TRUE /\ heightAge' = 0
    /\ used' = [motion |-> motion', height |-> height']
    /\ heightNews' = FALSE
    /\ UNCHANGED <<nodeVars, saidMotion, saidMotionAge, saidHeight, saidHeightAge>>

\* The DT7 receiver overrides whatever the topics have stored.
UpdateFromDt7(linear, yaw, h) ==
    /\ lifecycle = "active"
    /\ useDt7
    /\ motion' = LimitMotion(ReadValue(linear, 0), ReadValue(yaw, 0))
    /\ height' = LimitHeight(ReadValue(h, DefaultHeight))
    /\ motionReceived' = TRUE /\ motionAge' = 0
    /\ heightReceived' = TRUE /\ heightAge' = 0
    /\ used' = [motion |-> motion', height |-> height']
    /\ heightNews' = FALSE
    /\ UNCHANGED <<nodeVars, saidMotion, saidMotionAge, saidHeight, saidHeightAge>>

\* Mutants: off by one, and the age not looked at.
TimedOutEarly(received, age) == received /\ (age = NoStamp \/ age >= Timeout)
TimedOutWithoutStamp(received, age) == received /\ age = NoStamp

TimedOut(received, age) == received /\ (age = NoStamp \/ age > Timeout)

\* A motion command that is too old stops the robot.
MotionWatchdog ==
    IF TimedOut(motionReceived, motionAge)
      THEN motion' = Zero /\ motionReceived' = FALSE /\ motionAge' = NoStamp
      ELSE UNCHANGED motionVars

\* Mutant: the default height comes back in every state.
HeightWatchdogInEveryState ==
    IF TimedOut(heightReceived, heightAge)
      THEN height' = DefaultHeight /\ heightReceived' = FALSE /\ heightAge' = NoStamp
      ELSE UNCHANGED heightVars

\* A height command that is too old gives way to the default only while the
\* legs are not driven; otherwise the last height is held.
HeightWatchdog ==
    IF TimedOut(heightReceived, heightAge)
      THEN /\ height' = IF state \in {"INIT", "IDLE"} THEN DefaultHeight ELSE height
           /\ heightReceived' = FALSE
           /\ heightAge' = NoStamp
      ELSE UNCHANGED heightVars

UpdateFromTopics ==
    /\ lifecycle = "active"
    /\ ~useDt7
    /\ MotionWatchdog
    /\ HeightWatchdog
    /\ used' = [motion |-> motion', height |-> height']
    /\ heightNews' = FALSE
    /\ UNCHANGED <<nodeVars, saidMotion, saidMotionAge, saidHeight, saidHeightAge>>

\* The state machine runs after updateRobotState and may change its state.
SwitchState(s) ==
    /\ lifecycle = "active"
    /\ s # state
    /\ state' = s
    /\ UNCHANGED <<useDt7, lifecycle, subscribed, motionVars, heightVars, used, saidVars>>

-----------------------------------------------------------------------------
(* Resets and lifecycle transitions.                                       *)

\* Mutant: the height of the last activation survives.
ForgetMotionOnly ==
    /\ motion' = Zero /\ motionReceived' = FALSE /\ motionAge' = NoStamp
    /\ UNCHANGED heightVars
    /\ saidMotion' = Zero /\ saidMotionAge' = NoStamp
    /\ saidHeight' = DefaultHeight /\ saidHeightAge' = NoStamp
    /\ heightNews' = FALSE

\* The stores as resetControllerRuntime and on_configure leave them.
ForgetCommands ==
    /\ motion' = Zero /\ motionReceived' = FALSE /\ motionAge' = NoStamp
    /\ height' = DefaultHeight /\ heightReceived' = FALSE /\ heightAge' = NoStamp
    /\ saidMotion' = Zero /\ saidMotionAge' = NoStamp
    /\ saidHeight' = DefaultHeight /\ saidHeightAge' = NoStamp
    /\ heightNews' = FALSE

ResetControllerRuntime ==
    /\ state' = "INIT"
    /\ ForgetCommands
    /\ used' = [motion |-> Zero, height |-> DefaultHeight]

\* update() saw ROS time go backwards and resets before it reads anything.
TimeWentBackwards ==
    /\ lifecycle = "active"
    /\ ResetControllerRuntime
    /\ UNCHANGED <<useDt7, lifecycle, subscribed>>

Configure ==
    /\ lifecycle = "unconfigured"
    /\ lifecycle' = "inactive"
    /\ subscribed' = TRUE
    /\ ForgetCommands
    /\ used' = [motion |-> Zero, height |-> 0]
    /\ UNCHANGED <<useDt7, state>>

Activate ==
    /\ lifecycle = "inactive"
    /\ lifecycle' = "active"
    /\ ResetControllerRuntime
    /\ UNCHANGED <<useDt7, subscribed>>

\* Mutant: the commands are forgotten, the machine is not reset.
DeactivateWithoutReset ==
    /\ lifecycle = "active"
    /\ lifecycle' = "inactive"
    /\ ForgetCommands
    /\ used' = [motion |-> Zero, height |-> DefaultHeight]
    /\ UNCHANGED <<useDt7, subscribed, state>>

Deactivate ==
    /\ lifecycle = "active"
    /\ lifecycle' = "inactive"
    /\ ResetControllerRuntime
    /\ UNCHANGED <<useDt7, subscribed>>

\* on_cleanup drops the subscriptions and robot_state_, not the stores.
Cleanup ==
    /\ lifecycle = "inactive"
    /\ lifecycle' = "unconfigured"
    /\ subscribed' = FALSE
    /\ used' = [motion |-> Zero, height |-> 0]
    /\ UNCHANGED <<useDt7, state, motionVars, heightVars, saidVars>>

Shutdown ==
    /\ lifecycle \in {"unconfigured", "inactive", "active"}
    /\ lifecycle' = "finalized"
    /\ ResetControllerRuntime
    /\ UNCHANGED <<useDt7, subscribed>>

-----------------------------------------------------------------------------
Older(age) == IF age = NoStamp \/ age > Timeout THEN age ELSE age + 1

\* The steady clock goes on.
Tick ==
    /\ motionAge' = Older(motionAge)
    /\ heightAge' = Older(heightAge)
    /\ saidMotionAge' = Older(saidMotionAge)
    /\ saidHeightAge' = Older(saidHeightAge)
    /\ UNCHANGED <<nodeVars, motion, motionReceived, height, heightReceived, used,
                   saidMotion, saidHeight, heightNews>>

Update ==
    \/ UpdateFromTopics
    \/ \E linear \in Dt7Linears, yaw \in Yaws, h \in Dt7Heights : UpdateFromDt7(linear, yaw, h)

Callback ==
    \/ \E linear \in Linears, yaw \in Yaws : MotionCommand(linear, yaw)
    \/ \E h \in Heights : HeightCommand(h)

Next ==
    \/ Update
    \/ Callback
    \/ \E s \in States : SwitchState(s)
    \/ TimeWentBackwards
    \/ Configure \/ Activate \/ Deactivate \/ Cleanup \/ Shutdown
    \/ Tick

Spec == Init /\ [][Next]_vars

\* Time passes and an active controller keeps being updated.
FairSpec == Spec /\ WF_vars(Tick) /\ WF_vars(Update)

\* The store seen as part of the node that LocomotionController describes.
Node == INSTANCE ControllerNode
NodeSpec == Node!Spec
-----------------------------------------------------------------------------
(* Properties.                                                             *)

\* The velocity the policy observes is the last one accepted from the topic
\* since the last activation, deactivation or time jump, as long as that is
\* not older than the timeout, and zero otherwise.
MotionFollowsOperator ==
    [][UpdateFromTopics =>
         used'.motion = IF saidMotionAge \in 0..Timeout THEN saidMotion ELSE Zero]_vars

\* A height not older than the timeout is the one observed; an older one may
\* be held or replaced by the default, and nothing older can come back.
HeightFollowsOperator ==
    [][UpdateFromTopics =>
         /\ saidHeightAge \in 0..Timeout => used'.height = saidHeight
         /\ used'.height \in {saidHeight, DefaultHeight}]_vars

\* In PREPARE and RL the height observed changes only because a new height
\* command came: a lost operator never makes a standing robot change height.
HeightHeldWhileActive ==
    [][~useDt7 /\ state \in ActiveStates /\ state' \in ActiveStates
          /\ used'.height # used.height
       => heightNews]_vars

\* What the policy observes respects the configured limits, whatever source
\* it came from; the stop command of the watchdog and of a reset is zero.
WithinLimits ==
    lifecycle = "active" =>
        /\ \/ used.motion = Zero
           \/ /\ used.motion.linear \in LinearMin..LinearMax
              /\ used.motion.yaw \in YawMin..YawMax
        /\ used.height \in HeightMin..HeightMax

\* With the DT7 receiver selected, no velocity and no height that only the
\* topics can have brought reaches the policy.
Dt7IsExclusive ==
    useDt7 /\ lifecycle = "active" =>
        /\ used.motion.linear \in
              {Clamp(ReadValue(x, 0), LinearMin, LinearMax) : x \in Dt7Linears} \cup {0}
        /\ used.height \in
              {LimitHeight(ReadValue(h, DefaultHeight)) : h \in Dt7Heights} \cup {DefaultHeight}

\* With the topics selected: if motion commands stop coming, the velocity
\* observed becomes zero and stays zero.
MotionStops ==
    \/ useDt7
    \/ []<><<\E linear \in Linears, yaw \in Yaws : MotionCommand(linear, yaw)>>_vars
    \/ <>[](used.motion = Zero)

-----------------------------------------------------------------------------
(* The inductive invariant behind the action properties.                   *)

\* The stores remember exactly what was said, until its stamp is too old.
StoreFollowsOperator ==
    /\ motionReceived => motionAge # NoStamp
    /\ heightReceived => heightAge # NoStamp
    /\ ~useDt7 =>
         /\ motionReceived => motion = saidMotion /\ motionAge = saidMotionAge
         /\ ~motionReceived => motion = Zero /\ saidMotionAge \notin 0..Timeout
         /\ heightReceived => height = saidHeight /\ heightAge = saidHeightAge
         /\ ~heightReceived => /\ height \in {saidHeight, DefaultHeight}
                               /\ saidHeightAge \notin 0..Timeout

\* Without news the height in the store is the one in use.
HeightInUse ==
    ~useDt7 /\ lifecycle = "active" /\ ~heightNews => used.height = height

\* Every way out of "active" resets the state machine.
RestsInInit == lifecycle # "active" => state = "INIT"

LimitsInStore ==
    /\ \/ motion = Zero
       \/ motion.linear \in LinearMin..LinearMax /\ motion.yaw \in YawMin..YawMax
    /\ height \in HeightMin..HeightMax

InductiveInvariant ==
    /\ TypeOK
    /\ StoreFollowsOperator
    /\ HeightInUse
    /\ RestsInInit
    /\ LimitsInStore
    /\ WithinLimits
=============================================================================
