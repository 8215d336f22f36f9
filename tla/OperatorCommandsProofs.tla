----------------------- MODULE OperatorCommandsProofs -----------------------
(***************************************************************************)
(* Proofs about OperatorCommands: the inductive invariant that ties the    *)
(* guarded stores to what the operator said, and the properties of the     *)
(* command the policy observes that follow from it.                        *)
(***************************************************************************)
EXTENDS OperatorCommands, TLAPS

\* The configured limits are integers in the right order.
LEMMA Ranges ==
    /\ LinearMin \in Int /\ LinearMax \in Int /\ LinearMin <= LinearMax
    /\ YawMin \in Int /\ YawMax \in Int /\ YawMin <= YawMax
    /\ HeightMin \in Int /\ HeightMax \in Int /\ DefaultHeight \in Int
    /\ DefaultHeight \in HeightMin..HeightMax
  BY RangeAssumption DEF RangeAssumption

\* A finite input of any source is an integer.
LEMMA FiniteInputs ==
    \A x \in Linears \cup Yaws \cup Heights \cup Dt7Linears \cup Dt7Heights :
        x # NonFinite => x \in Int
  BY InputAssumption DEF InputAssumption

\* Clamping yields a value within the limits.
LEMMA ClampBounds ==
    ASSUME NEW low \in Int, NEW high \in Int, low <= high, NEW x \in Int
    PROVE  Clamp(x, low, high) \in low..high
  BY DEF Clamp

\* A limited motion is a motion within the limits.
LEMMA MotionLimited ==
    ASSUME NEW linear \in Int, NEW yaw \in Int
    PROVE  /\ LimitMotion(linear, yaw) \in Motions
           /\ LimitMotion(linear, yaw).linear \in LinearMin..LinearMax
           /\ LimitMotion(linear, yaw).yaw \in YawMin..YawMax
  <1>1. /\ Clamp(linear, LinearMin, LinearMax) \in LinearMin..LinearMax
        /\ Clamp(yaw, YawMin, YawMax) \in YawMin..YawMax
    BY Ranges, ClampBounds
  <1>2. QED
    BY <1>1, Ranges DEF LimitMotion, Motions

\* A limited height is a height within the limits.
LEMMA HeightLimited ==
    ASSUME NEW h \in Int
    PROVE  LimitHeight(h) \in Int /\ LimitHeight(h) \in HeightMin..HeightMax
  <1>1. HeightMin \in Int /\ HeightMax \in Int /\ HeightMin <= HeightMax
    BY Ranges
  <1>2. Clamp(h, HeightMin, HeightMax) \in HeightMin..HeightMax
    BY <1>1, ClampBounds
  <1>3. QED
    BY <1>1, <1>2 DEF LimitHeight

\* The default height is within the limits, and zero is a motion.
LEMMA Defaults ==
    /\ DefaultHeight \in Int /\ DefaultHeight \in HeightMin..HeightMax
    /\ Zero \in Motions
  BY Ranges DEF Zero, Motions

-----------------------------------------------------------------------------
USE TimeoutAssumption
    DEF TimeoutAssumption, NoStamp, Ages, States, ActiveStates

\* A constructed controller satisfies the invariant.
LEMMA InitEstablishes == Init => InductiveInvariant
  <1> SUFFICES ASSUME Init PROVE InductiveInvariant
    OBVIOUS
  <1>1. FlagsTypeOK
    BY DEF Init, FlagsTypeOK
  <1>2. ValuesTypeOK
    BY Defaults DEF Init, ValuesTypeOK
  <1>3. StoreFollowsOperator /\ LimitsInStore
    BY Defaults DEF Init, StoreFollowsOperator, LimitsInStore
  <1>4. HeightInUse /\ RestsInInit /\ WithinLimits
    BY DEF Init, HeightInUse, RestsInInit, WithinLimits
  <1>5. QED
    BY <1>1, <1>2, <1>3, <1>4 DEF InductiveInvariant, TypeOK

\* Forgetting every command establishes what the invariant says of the stores.
LEMMA ForgetPreserves ==
    ASSUME InductiveInvariant, ForgetCommands,
           \/ used' = [motion |-> Zero, height |-> DefaultHeight]
           \/ used' = [motion |-> Zero, height |-> 0] /\ lifecycle' # "active",
           state' = "INIT", useDt7' = useDt7, subscribed' \in BOOLEAN,
           lifecycle' \in {"unconfigured", "inactive", "active", "finalized"}
    PROVE  InductiveInvariant'
  <1> USE Defaults DEF ForgetCommands, InductiveInvariant
  <1>1. used' \in [motion : Motions, height : Int]
    OBVIOUS
  <1>2. TypeOK'
    <2>1. FlagsTypeOK'
      BY DEF TypeOK, FlagsTypeOK
    <2>2. ValuesTypeOK'
      BY <1>1 DEF ValuesTypeOK
    <2>3. QED
      BY <2>1, <2>2 DEF TypeOK
  <1>3. StoreFollowsOperator' /\ LimitsInStore'
    BY DEF StoreFollowsOperator, LimitsInStore
  <1>4. HeightInUse' /\ RestsInInit' /\ WithinLimits'
    BY DEF HeightInUse, RestsInInit, WithinLimits
  <1>5. QED
    BY <1>2, <1>3, <1>4

\* resetControllerRuntime establishes the invariant whatever handler ends in it.
LEMMA ResetPreserves ==
    ASSUME InductiveInvariant, ResetControllerRuntime, useDt7' = useDt7,
           subscribed' \in BOOLEAN,
           lifecycle' \in {"unconfigured", "inactive", "active", "finalized"}
    PROVE  InductiveInvariant'
  <1>1. /\ state' = "INIT" /\ ForgetCommands
        /\ used' = [motion |-> Zero, height |-> DefaultHeight]
    BY DEF ResetControllerRuntime
  <1>2. QED
    BY <1>1, ForgetPreserves

\* An accepted motion command enters the store and the history alike.
LEMMA MotionCommandPreserves ==
    ASSUME InductiveInvariant, NEW linear \in Linears, NEW yaw \in Yaws,
           MotionCommand(linear, yaw)
    PROVE  InductiveInvariant'
  <1> USE DEF MotionCommand, InductiveInvariant, nodeVars, heightVars
  <1>1. linear \in Int /\ yaw \in Int
    BY FiniteInputs
  <1>2. /\ motion' \in Motions
        /\ motion'.linear \in LinearMin..LinearMax
        /\ motion'.yaw \in YawMin..YawMax
    BY <1>1, MotionLimited
  <1>3. TypeOK'
    <2>1. FlagsTypeOK'
      BY <1>2 DEF TypeOK, FlagsTypeOK
    <2>2. ValuesTypeOK'
      BY <1>2 DEF TypeOK, ValuesTypeOK
    <2>3. QED
      BY <2>1, <2>2 DEF TypeOK
  <1>4. StoreFollowsOperator'
    BY <1>2 DEF StoreFollowsOperator, TypeOK, FlagsTypeOK, ValuesTypeOK
  <1>5. LimitsInStore'
    BY <1>2 DEF LimitsInStore
  <1>6. HeightInUse' /\ RestsInInit' /\ WithinLimits'
    BY DEF HeightInUse, RestsInInit, WithinLimits
  <1>7. QED
    BY <1>3, <1>4, <1>5, <1>6

\* An accepted height command enters the store and the history alike.
LEMMA HeightCommandPreserves ==
    ASSUME InductiveInvariant, NEW h \in Heights, HeightCommand(h)
    PROVE  InductiveInvariant'
  <1> USE DEF HeightCommand, InductiveInvariant, nodeVars, motionVars
  <1>1. h \in Int
    BY FiniteInputs
  <1>2. height' \in Int /\ height' \in HeightMin..HeightMax
    BY <1>1, HeightLimited
  <1>3. TypeOK'
    <2>1. FlagsTypeOK'
      BY <1>2 DEF TypeOK, FlagsTypeOK
    <2>2. ValuesTypeOK'
      BY <1>2 DEF TypeOK, ValuesTypeOK
    <2>3. QED
      BY <2>1, <2>2 DEF TypeOK
  <1>4. StoreFollowsOperator'
    BY <1>2 DEF StoreFollowsOperator, TypeOK, FlagsTypeOK, ValuesTypeOK
  <1>5. LimitsInStore'
    BY <1>2 DEF LimitsInStore
  <1>6. HeightInUse' /\ RestsInInit' /\ WithinLimits'
    BY DEF HeightInUse, RestsInInit, WithinLimits
  <1>7. QED
    BY <1>3, <1>4, <1>5, <1>6

\* What the DT7 receiver brings is limited like the topics' commands.
LEMMA UpdateFromDt7Preserves ==
    ASSUME InductiveInvariant, NEW linear \in Dt7Linears, NEW yaw \in Yaws,
           NEW h \in Dt7Heights, UpdateFromDt7(linear, yaw, h)
    PROVE  InductiveInvariant'
  <1> USE DEF UpdateFromDt7, InductiveInvariant, nodeVars
  <1>1. /\ ReadValue(linear, 0) \in Int /\ ReadValue(yaw, 0) \in Int
        /\ ReadValue(h, DefaultHeight) \in Int
    BY FiniteInputs, Defaults DEF ReadValue
  <1>2. /\ motion' \in Motions
        /\ motion'.linear \in LinearMin..LinearMax
        /\ motion'.yaw \in YawMin..YawMax
        /\ height' \in Int /\ height' \in HeightMin..HeightMax
    BY <1>1, MotionLimited, HeightLimited
  <1>3. used' \in [motion : Motions, height : Int]
    BY <1>2
  <1>4. TypeOK'
    <2>1. FlagsTypeOK'
      BY <1>2, <1>3 DEF TypeOK, FlagsTypeOK
    <2>2. ValuesTypeOK'
      BY <1>2, <1>3 DEF TypeOK, ValuesTypeOK
    <2>3. QED
      BY <2>1, <2>2 DEF TypeOK
  <1>5. StoreFollowsOperator'
    BY DEF StoreFollowsOperator
  <1>6. LimitsInStore'
    BY <1>2 DEF LimitsInStore
  <1>7. HeightInUse' /\ RestsInInit' /\ WithinLimits'
    BY <1>2 DEF HeightInUse, RestsInInit, WithinLimits
  <1>8. QED
    BY <1>4, <1>5, <1>6, <1>7

\* The two watchdogs, and what they make the policy observe.
LEMMA UpdateFromTopicsObserves ==
    ASSUME InductiveInvariant, UpdateFromTopics
    PROVE  /\ InductiveInvariant'
           /\ used'.motion = IF saidMotionAge \in 0..Timeout THEN saidMotion ELSE Zero
           /\ saidHeightAge \in 0..Timeout => used'.height = saidHeight
           /\ used'.height \in {saidHeight, DefaultHeight}
           /\ state \in ActiveStates => height' = height
  <1> USE Defaults DEF UpdateFromTopics, InductiveInvariant, nodeVars
  <1>1. /\ motion' \in Motions /\ motionAge' \in Ages
        /\ motion' = motion \/ motion' = Zero
        /\ motion' = IF saidMotionAge \in 0..Timeout THEN saidMotion ELSE Zero
        /\ motionReceived' =>
              motionAge' # NoStamp /\ motion' = saidMotion /\ motionAge' = saidMotionAge
        /\ ~motionReceived' => motion' = Zero /\ saidMotionAge \notin 0..Timeout
    <2>1. CASE TimedOut(motionReceived, motionAge)
      <3>1. motion' = Zero /\ ~motionReceived' /\ motionAge' = NoStamp
        BY <2>1 DEF MotionWatchdog
      <3>2. saidMotionAge \notin 0..Timeout
        BY <2>1 DEF TimedOut, TypeOK, ValuesTypeOK, StoreFollowsOperator
      <3>3. QED
        BY <3>1, <3>2
    <2>2. CASE ~TimedOut(motionReceived, motionAge)
      BY <2>2 DEF MotionWatchdog, TimedOut, TypeOK, FlagsTypeOK, ValuesTypeOK, StoreFollowsOperator, motionVars
    <2>3. QED
      BY <2>1, <2>2
  <1>2. /\ height' \in Int /\ heightAge' \in Ages
        /\ height' = height \/ height' = DefaultHeight
        /\ height' \in {saidHeight, DefaultHeight}
        /\ saidHeightAge \in 0..Timeout => height' = saidHeight
        /\ heightReceived' =>
              heightAge' # NoStamp /\ height' = saidHeight /\ heightAge' = saidHeightAge
        /\ ~heightReceived' => saidHeightAge \notin 0..Timeout
        /\ state \in ActiveStates => height' = height
    <2>1. CASE TimedOut(heightReceived, heightAge)
      <3>1. /\ height' = IF state \in {"INIT", "IDLE"} THEN DefaultHeight ELSE height
            /\ ~heightReceived' /\ heightAge' = NoStamp
        BY <2>1 DEF HeightWatchdog
      <3>2. saidHeightAge \notin 0..Timeout
        BY <2>1 DEF TimedOut, TypeOK, ValuesTypeOK, StoreFollowsOperator
      <3>3. height \in Int /\ height = saidHeight
        BY <2>1 DEF TimedOut, TypeOK, ValuesTypeOK, StoreFollowsOperator
      <3>4. QED
        BY <3>1, <3>2, <3>3
    <2>2. CASE ~TimedOut(heightReceived, heightAge)
      BY <2>2 DEF HeightWatchdog, TimedOut, TypeOK, FlagsTypeOK, ValuesTypeOK, StoreFollowsOperator, heightVars
    <2>3. QED
      BY <2>1, <2>2
  <1>3. used'.motion = motion' /\ used'.height = height'
    OBVIOUS
  <1>4. TypeOK'
    <2>1. FlagsTypeOK'
      BY DEF TypeOK, FlagsTypeOK, MotionWatchdog, HeightWatchdog, motionVars, heightVars
    <2>2. ValuesTypeOK'
      BY <1>1, <1>2 DEF TypeOK, ValuesTypeOK
    <2>3. QED
      BY <2>1, <2>2 DEF TypeOK
  <1>5. StoreFollowsOperator'
    BY <1>1, <1>2 DEF StoreFollowsOperator
  <1>6. LimitsInStore'
    BY <1>1, <1>2 DEF LimitsInStore
  <1>7. HeightInUse' /\ RestsInInit' /\ WithinLimits'
    BY <1>3, <1>6 DEF HeightInUse, RestsInInit, WithinLimits, LimitsInStore
  <1>8. QED
    BY <1>1, <1>2, <1>3, <1>4, <1>5, <1>6, <1>7

\* Resets, lifecycle transitions, state changes and the clock.
LEMMA EnvironmentPreserves ==
    ASSUME InductiveInvariant,
           \/ \E s \in States : SwitchState(s)
           \/ TimeWentBackwards
           \/ Configure \/ Activate \/ Deactivate \/ Cleanup \/ Shutdown
           \/ Tick
    PROVE  InductiveInvariant'
  <1> USE DEF InductiveInvariant, TypeOK
  <1>1. CASE \E s \in States : SwitchState(s)
    <2> PICK s \in States : SwitchState(s)
      BY <1>1
    <2> USE DEF SwitchState, motionVars, heightVars, saidVars
    <2>1. FlagsTypeOK'
      BY DEF FlagsTypeOK
    <2>2. ValuesTypeOK'
      BY DEF ValuesTypeOK
    <2>3. StoreFollowsOperator' /\ LimitsInStore'
      BY DEF StoreFollowsOperator, LimitsInStore
    <2>4. HeightInUse' /\ RestsInInit' /\ WithinLimits'
      BY DEF HeightInUse, RestsInInit, WithinLimits
    <2>5. QED
      BY <2>1, <2>2, <2>3, <2>4
  <1>2. CASE TimeWentBackwards \/ Configure \/ Activate \/ Deactivate \/ Shutdown
    <2>1. subscribed \in BOOLEAN
      BY DEF FlagsTypeOK
    <2>2. subscribed' \in BOOLEAN /\ useDt7' = useDt7
      BY <1>2, <2>1 DEF TimeWentBackwards, Configure, Activate, Deactivate, Shutdown
    <2>3. CASE Configure
      <3>1. state = "INIT"
        BY <2>3 DEF Configure, RestsInInit
      <3>2. QED
        BY <2>2, <2>3, <3>1, ForgetPreserves DEF Configure
    <2>4. CASE TimeWentBackwards \/ Activate \/ Deactivate \/ Shutdown
      <3>1. ResetControllerRuntime
        BY <2>4 DEF TimeWentBackwards, Activate, Deactivate, Shutdown
      <3>2. lifecycle' \in {"unconfigured", "inactive", "active", "finalized"}
        BY <2>4 DEF TimeWentBackwards, Activate, Deactivate, Shutdown, ValuesTypeOK
      <3>3. QED
        BY <2>2, <3>1, <3>2, ResetPreserves
    <2>5. QED
      BY <1>2, <2>3, <2>4
  <1>3. CASE Cleanup
    <2> USE <1>3 DEF Cleanup, motionVars, heightVars, saidVars
    <2>1. used' \in [motion : Motions, height : Int]
      BY Defaults
    <2>2. FlagsTypeOK'
      BY DEF FlagsTypeOK
    <2>3. ValuesTypeOK'
      BY <2>1 DEF ValuesTypeOK
    <2>4. StoreFollowsOperator' /\ LimitsInStore'
      BY DEF StoreFollowsOperator, LimitsInStore
    <2>5. HeightInUse' /\ RestsInInit' /\ WithinLimits'
      BY DEF HeightInUse, RestsInInit, WithinLimits
    <2>6. QED
      BY <2>2, <2>3, <2>4, <2>5
  <1>4. CASE Tick
    <2> USE <1>4 DEF Tick, nodeVars
    <2>1. FlagsTypeOK'
      BY DEF FlagsTypeOK
    <2>2. ValuesTypeOK'
      BY DEF Older, ValuesTypeOK
    <2>3. StoreFollowsOperator'
      BY DEF Older, ValuesTypeOK, StoreFollowsOperator
    <2>4. HeightInUse' /\ RestsInInit' /\ LimitsInStore' /\ WithinLimits'
      BY DEF HeightInUse, RestsInInit, LimitsInStore, WithinLimits
    <2>5. QED
      BY <2>1, <2>2, <2>3, <2>4
  <1>5. QED
    BY <1>1, <1>2, <1>3, <1>4

\* Every step, and stuttering, preserves the invariant.
LEMMA StepPreserves == InductiveInvariant /\ [Next]_vars => InductiveInvariant'
  <1> SUFFICES ASSUME InductiveInvariant, [Next]_vars PROVE InductiveInvariant'
    OBVIOUS
  <1>1. CASE Update
    BY <1>1, UpdateFromTopicsObserves, UpdateFromDt7Preserves DEF Update
  <1>2. CASE Callback
    BY <1>2, MotionCommandPreserves, HeightCommandPreserves DEF Callback
  <1>3. CASE \/ \E s \in States : SwitchState(s)
             \/ TimeWentBackwards
             \/ Configure \/ Activate \/ Deactivate \/ Cleanup \/ Shutdown
             \/ Tick
    BY <1>3, EnvironmentPreserves
  <1>4. CASE UNCHANGED vars
    <2> USE <1>4 DEF vars, nodeVars, motionVars, heightVars, saidVars, InductiveInvariant, TypeOK
    <2>1. FlagsTypeOK'
      BY DEF FlagsTypeOK
    <2>2. ValuesTypeOK'
      BY DEF ValuesTypeOK
    <2>3. StoreFollowsOperator' /\ LimitsInStore'
      BY DEF StoreFollowsOperator, LimitsInStore
    <2>4. HeightInUse' /\ RestsInInit' /\ WithinLimits'
      BY DEF HeightInUse, RestsInInit, WithinLimits
    <2>5. QED
      BY <2>1, <2>2, <2>3, <2>4
  <1>5. QED
    BY <1>1, <1>2, <1>3, <1>4 DEF Next

-----------------------------------------------------------------------------
\* The invariant holds in every reachable state, for every timeout, every set
\* of inputs and every pair of limits the parameter validation accepts.
THEOREM InvariantHolds == Spec => []InductiveInvariant
  BY InitEstablishes, StepPreserves, PTL DEF Spec

\* The policy never observes a command outside the configured limits.
THEOREM LimitsRespected == Spec => []WithinLimits
  <1>1. InductiveInvariant => WithinLimits
    BY DEF InductiveInvariant
  <1>2. QED
    BY <1>1, InvariantHolds, PTL

\* The velocity observed is the operator's last accepted one while fresh, and
\* zero otherwise.
THEOREM MotionFollows == Spec => MotionFollowsOperator
  <1>1. InductiveInvariant /\ [Next]_vars =>
          [UpdateFromTopics =>
             used'.motion = IF saidMotionAge \in 0..Timeout THEN saidMotion ELSE Zero]_vars
    BY UpdateFromTopicsObserves
  <1>2. QED
    BY <1>1, InvariantHolds, PTL DEF Spec, MotionFollowsOperator

\* The height observed is the operator's last accepted one while fresh.
THEOREM HeightFollows == Spec => HeightFollowsOperator
  <1>1. InductiveInvariant /\ [Next]_vars =>
          [UpdateFromTopics =>
             /\ saidHeightAge \in 0..Timeout => used'.height = saidHeight
             /\ used'.height \in {saidHeight, DefaultHeight}]_vars
    BY UpdateFromTopicsObserves
  <1>2. QED
    BY <1>1, InvariantHolds, PTL DEF Spec, HeightFollowsOperator

\* A robot in PREPARE or RL changes its commanded height only on a new command.
THEOREM HeightHeld == Spec => HeightHeldWhileActive
  <1>1. ASSUME InductiveInvariant, Next, ~useDt7, state \in ActiveStates,
               state' \in ActiveStates, used'.height # used.height
        PROVE  heightNews
    <2>1. CASE UpdateFromTopics
      <3>1. height' = height /\ used'.height = height' /\ lifecycle = "active"
        BY <1>1, <2>1, UpdateFromTopicsObserves DEF UpdateFromTopics
      <3>2. QED
        BY <1>1, <3>1 DEF InductiveInvariant, HeightInUse
    <2>2. CASE Callback \/ Tick \/ \E s \in States : SwitchState(s)
      BY <1>1, <2>2 DEF Callback, MotionCommand, HeightCommand, Tick, SwitchState
    <2>3. CASE TimeWentBackwards \/ Activate \/ Deactivate \/ Shutdown
      BY <1>1, <2>3 DEF TimeWentBackwards, Activate, Deactivate, Shutdown,
                        ResetControllerRuntime
    <2>4. CASE Configure \/ Cleanup
      BY <1>1, <2>4 DEF Configure, Cleanup, InductiveInvariant, RestsInInit
    <2>5. QED
      BY <1>1, <2>1, <2>2, <2>3, <2>4 DEF Next, Update, UpdateFromDt7
  <1>2. InductiveInvariant /\ [Next]_vars =>
          [~useDt7 /\ state \in ActiveStates /\ state' \in ActiveStates
             /\ used'.height # used.height
           => heightNews]_vars
    BY <1>1
  <1>3. QED
    BY <1>2, InvariantHolds, PTL DEF Spec, HeightHeldWhileActive

\* With the DT7 receiver selected, the policy never observes a velocity or a
\* height that only the topics can have brought.
THEOREM Dt7Excludes == Spec => []Dt7IsExclusive
  <1>1. Init => Dt7IsExclusive
    BY DEF Init, Dt7IsExclusive
  <1>2. Dt7IsExclusive /\ [Next]_vars => Dt7IsExclusive'
    <2> SUFFICES ASSUME Dt7IsExclusive, [Next]_vars, useDt7', lifecycle' = "active"
                 PROVE  Dt7IsExclusive'
      BY DEF Dt7IsExclusive
    <2>1. CASE \E linear \in Dt7Linears, yaw \in Yaws, h \in Dt7Heights :
                   UpdateFromDt7(linear, yaw, h)
      BY <2>1 DEF UpdateFromDt7, LimitMotion, Dt7IsExclusive
    <2>2. CASE ResetControllerRuntime
      BY <2>2 DEF ResetControllerRuntime, Zero, Dt7IsExclusive
    <2>3. CASE used' = used /\ useDt7 /\ lifecycle = "active"
      BY <2>3 DEF Dt7IsExclusive
    <2>4. \/ \E linear \in Dt7Linears, yaw \in Yaws, h \in Dt7Heights :
                 UpdateFromDt7(linear, yaw, h)
          \/ ResetControllerRuntime
          \/ used' = used /\ useDt7 /\ lifecycle = "active"
      BY DEF Next, Update, UpdateFromTopics, Callback, MotionCommand, HeightCommand, SwitchState,
             TimeWentBackwards, Configure, Activate, Deactivate, Cleanup, Shutdown, Tick,
             vars, nodeVars
    <2>5. QED
      BY <2>1, <2>2, <2>3, <2>4
  <1>3. QED
    BY <1>1, <1>2, PTL DEF Spec

-----------------------------------------------------------------------------
\* The node part of the command store is that of the control loop: commands,
\* watchdogs and time leave it alone, and the resets return it to INIT.
THEOREM ImplementsNode == Spec => NodeSpec
  <1>1. Init => Node!Init
    BY DEF Init, Node!Init
  <1>2. [Next]_vars => [Node!Next]_(Node!vars)
    <2> SUFFICES ASSUME [Next]_vars PROVE [Node!Next]_(Node!vars)
      OBVIOUS
    <2> USE DEF Node!Next, Node!vars, ResetControllerRuntime
    <2>1. CASE UNCHANGED nodeVars
      BY <2>1 DEF nodeVars
    <2>2. CASE TimeWentBackwards
      BY <2>2 DEF TimeWentBackwards, Node!SwitchState, Node!States
    <2>3. ASSUME NEW s \in States, SwitchState(s) PROVE Node!SwitchState
      BY <2>3 DEF SwitchState, States, ActiveStates, Node!SwitchState, Node!States
    <2>4. CASE Configure
      BY <2>4 DEF Configure, Node!Configure
    <2>5. CASE Activate
      BY <2>5 DEF Activate, Node!Activate
    <2>6. CASE Deactivate
      BY <2>6 DEF Deactivate, Node!Deactivate
    <2>7. CASE Cleanup
      BY <2>7 DEF Cleanup, Node!Cleanup
    <2>8. CASE Shutdown
      BY <2>8 DEF Shutdown, Node!Shutdown
    <2>9. CASE Update \/ Callback \/ Tick \/ UNCHANGED vars
      <3>1. UNCHANGED nodeVars
        BY <2>9 DEF Update, UpdateFromTopics, UpdateFromDt7, Callback, MotionCommand,
                    HeightCommand, Tick, vars
      <3>2. QED
        BY <2>1, <3>1
    <2>10. QED
      BY <2>2, <2>3, <2>4, <2>5, <2>6, <2>7, <2>8, <2>9 DEF Next
  <1>3. QED
    BY <1>1, <1>2, PTL DEF Spec, NodeSpec, Node!Spec
=============================================================================
