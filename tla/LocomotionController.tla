------------------------ MODULE LocomotionController ------------------------
(***************************************************************************)
(* The control loop of TemplateRos2Controller together with its state      *)
(* machine (INIT, IDLE, PREPARE, RL), the RL state's policy runtime and    *)
(* the ROS callback that requests states.                                  *)
(*                                                                         *)
(* Two threads run: the control thread executes update() and the           *)
(* lifecycle transitions, the executor thread executes                     *)
(* stateCommandCallback().  They share the atomic target_state_ and        *)
(* nothing else modelled here, so update() is split at every access to     *)
(* target_state_ and each step between two accesses is one action.         *)
(*                                                                         *)
(* Time is counted in control periods.  Only differences of ROS times are  *)
(* ever compared by the code, so the model keeps those differences,        *)
(* saturated just above the threshold they are compared with.              *)
(*                                                                         *)
(* The joints are three groups that the code treats differently: four legs *)
(* (0..3), two wheels (4, 5) and two springs (6, 7).  A value sent to one  *)
(* is known by its origin.                                                 *)
(***************************************************************************)
EXTENDS Integers

CONSTANTS
    Dwell,         \* the 0.01 s of handleStateTransition, in control periods
    PolicyPeriod,  \* 1 / inference_frequency_hz_, in control periods
    TimeSteps,     \* by how much ROS time may advance from one update to the next
    Ahead, Behind, \* how far the node clock read by on_activate may be ahead of
                   \* the time of the updates, or behind it (simulation time
                   \* reaches the node as messages)
    MaxFaults      \* bound: invalid IMU samples and backward time jumps in a behaviour

ASSUME DwellAssumption == Dwell \in Nat
ASSUME PolicyPeriodAssumption == PolicyPeriod \in Nat \ {0}
ASSUME TimeStepsAssumption == TimeSteps \subseteq Nat
ASSUME SkewAssumption == Ahead \in Nat /\ Behind \in Nat
ASSUME MaxFaultsAssumption == MaxFaults \in Nat

VARIABLES
    useDt7,          \* parameter use_dt7, read once by on_init
    autoEnterRL,     \* parameter auto_enter_rl, read once by on_init
    outputMode,      \* parameter lowlevel_output_mode, read once by on_init
    lifecycle,       \* lifecycle state the controller manager has put the node in
    subscribed,      \* the command subscriptions exist
    pc,              \* where update() is
    target,          \* StateMachine::target_state_
    loaded,          \* the local copy of target_state_ in handleStateTransition
    current,         \* StateMachine::current_state_
    firstUpdate,     \* StateMachine::first_update_
    sinceEntry,      \* time - state_entry_time_
    autoPending,     \* auto_enter_rl_pending_
    dt7Previous,     \* dt7_previous_state_
    stamped,         \* last_update_time_ is not zero
    running,         \* ONNXRuntimeInference::running_
    sinceInference,  \* time - last_inference_time_, or NoInference
    desired,         \* what StateRL::desired_pos_ holds
    output,          \* robot_state_.joints[].output_position, _velocity, _torque
    written,         \* the same three values on the joint command interfaces
    gains,           \* the kp and kd interfaces hold the gains of the parameters
    faults,          \* environment faults so far
    \* History variables: no action reads them in a guard.
    requested,       \* active states asked for since the last reset (RL: and stop)
    initAge,         \* control periods spent in INIT since it was entered
    actionAge,       \* age of the policy action desired_pos_ was computed from
    stop             \* whether this cycle's run() ended in failSafe()

parameterVars == <<useDt7, autoEnterRL, outputMode>>
controlVars == <<parameterVars, lifecycle, subscribed, stamped, faults>>
machineVars == <<current, firstUpdate, sinceEntry>>
policyVars  == <<running, sinceInference, desired>>
commandVars == <<written, gains>>
historyVars == <<requested, initAge, actionAge, stop>>
vars == <<controlVars, pc, target, loaded, machineVars, autoPending, dt7Previous,
          policyVars, output, commandVars, historyVars>>

States == {"INIT", "IDLE", "PREPARE", "RL"}
ActiveStates == {"PREPARE", "RL"}
ControlPoints == {"ready", "read", "auto", "load", "transition", "run", "write"}
NoInference == -1
NoAction == -1
NoDt7 == -1
Dt7Levels == 0..4          \* 4 stands for every level resolveStateCommand rejects
OutputModes == {"torque", "hardware_pd", "hardware_pd_vel"}
Joints == {"leg", "wheel", "spring"}

\* Where a value comes from: a measured joint position, PREPARE's ramp, the
\* policy's action, or a constant that is no set-point (0, or a bias torque).
Origins == {"measured", "ramp", "action", "zero"}
JointCommands == [position : Origins, velocity : Origins, effort : Origins]

\* The values that pull nowhere, for a joint and for all of them.
Rest == [position |-> "measured", velocity |-> "zero", effort |-> "zero"]
AtRest == [j \in Joints |-> Rest]
Blank == [j \in Joints |-> [position |-> "zero", velocity |-> "zero", effort |-> "zero"]]

\* The zero-gain command is on the command interfaces.
Safe == ~gains /\ written = AtRest

AtMost(bound, n) == IF n <= bound THEN n ELSE bound

FlagsTypeOK ==
    /\ useDt7 \in BOOLEAN
    /\ autoEnterRL \in BOOLEAN
    /\ subscribed \in BOOLEAN
    /\ gains \in BOOLEAN
    /\ firstUpdate \in BOOLEAN
    /\ autoPending \in BOOLEAN
    /\ stamped \in BOOLEAN
    /\ running \in BOOLEAN

ValuesTypeOK ==
    /\ lifecycle \in {"unconfigured", "inactive", "active", "finalized"}
    /\ pc \in ControlPoints
    /\ target \in States
    /\ loaded \in States
    /\ current \in States
    /\ sinceEntry \in -Ahead .. Dwell + 1
    /\ dt7Previous \in Dt7Levels \cup {NoDt7}
    /\ sinceInference \in NoInference .. PolicyPeriod
    /\ outputMode \in OutputModes
    /\ desired \in Origins
    /\ output \in [Joints -> JointCommands]
    /\ written \in [Joints -> JointCommands]
    /\ faults \in 0 .. MaxFaults
    /\ requested \in SUBSET ActiveStates
    /\ initAge \in 0 .. Dwell + 1
    /\ actionAge \in NoAction .. PolicyPeriod
    /\ stop \in {"none", "stopped", "overridden"}

TypeOK == FlagsTypeOK /\ ValuesTypeOK

\* A controller whose on_init succeeded: the policy session is initialised
\* (rl_inference_ready_), the state machine has just been constructed.
Init ==
    /\ useDt7 \in BOOLEAN
    /\ autoEnterRL \in BOOLEAN
    /\ outputMode \in OutputModes
    /\ lifecycle = "unconfigured"
    /\ subscribed = FALSE
    /\ pc = "ready"
    /\ target = "IDLE"
    /\ loaded = "INIT"
    /\ current = "INIT"
    /\ firstUpdate = TRUE
    /\ sinceEntry = 0
    /\ autoPending = FALSE
    /\ dt7Previous = NoDt7
    /\ stamped = FALSE
    /\ running = FALSE
    /\ sinceInference = NoInference
    /\ desired = "zero"
    /\ output = Blank
    /\ written = AtRest
    /\ gains = FALSE
    /\ faults = 0
    /\ requested = {}
    /\ initAge = 0
    /\ actionAge = NoAction
    /\ stop = "none"

-----------------------------------------------------------------------------
(* Operations the handlers share.                                          *)

\* resolveStateCommand for the raw values it accepts.
StateOf(raw) == CASE raw = 0 -> "INIT"
                  [] raw = 1 -> "IDLE"
                  [] raw = 2 -> "PREPARE"
                  [] raw = 3 -> "RL"

\* setTargetState called on behalf of whoever asks for state s.
RequestState(s) ==
    /\ target' = s
    /\ requested' = requested \cup ({s} \cap ActiveStates)

\* Mutant: the time of the last inference is cleared but the targets stay.
ResetPolicyTimeOnly ==
    /\ sinceInference' = NoInference
    /\ UNCHANGED desired

\* StateRL::resetPolicyRuntimeState.
ResetPolicyRuntimeState ==
    /\ sinceInference' = NoInference
    /\ desired' = "zero"

\* Mutant: the old state's exit() is not called.
ChangeStateWithoutExit(s) ==
    /\ current' = s
    /\ sinceEntry' = 0
    /\ running' = (running \/ s = "RL")
    /\ IF s = "RL" THEN ResetPolicyRuntimeState ELSE UNCHANGED <<sinceInference, desired>>
    /\ initAge' = 0
    /\ actionAge' = NoAction

\* StateMachine::changeState: exit of the old state, entry of the new one.
\* Only StateRL's exit and entry touch the state kept here: both reset the
\* policy runtime, exit stops the inference session and entry starts it.
ChangeState(s) ==
    /\ current' = s
    /\ sinceEntry' = 0
    /\ running' = (s = "RL")
    /\ IF "RL" \in {current, s}
         THEN ResetPolicyRuntimeState
         ELSE UNCHANGED <<sinceInference, desired>>
    /\ initAge' = 0
    /\ actionAge' = NoAction

\* Mutant: robot_state_ is made safe, the command interfaces are not written.
WriteSafeRobotState ==
    /\ output' = AtRest
    /\ UNCHANGED commandVars

\* writeSafeJointCommands: measured positions, everything else zero, on the
\* command interfaces and in robot_state_.
WriteSafeJointCommands ==
    /\ written' = AtRest
    /\ gains' = FALSE
    /\ output' = AtRest

\* resetControllerRuntime, with StateMachine::reset inside it, for an entry
\* stamp that is `age' control periods old already (or in the future: < 0).
ResetControllerRuntime(age) ==
    /\ IF current = "RL" /\ ~firstUpdate
         THEN ResetPolicyRuntimeState
         ELSE UNCHANGED <<sinceInference, desired>>
    /\ running' = FALSE
    /\ current' = "INIT"
    /\ target' = "IDLE"
    /\ sinceEntry' = AtMost(Dwell + 1, age)
    /\ firstUpdate' = TRUE
    /\ autoPending' = autoEnterRL
    /\ dt7Previous' = NoDt7
    /\ WriteSafeJointCommands
    /\ requested' = {}
    /\ initAge' = 0
    /\ actionAge' = NoAction
    /\ stop' = "none"

-----------------------------------------------------------------------------
(* update(), step by step.                                                 *)

\* ROS time went on by d: no reset.
TimeAdvances(d) ==
    /\ sinceEntry' = AtMost(Dwell + 1, sinceEntry + d)
    /\ sinceInference' = IF sinceInference = NoInference
                           THEN NoInference
                           ELSE AtMost(PolicyPeriod, sinceInference + d)
    /\ initAge' = IF current = "INIT" THEN AtMost(Dwell + 1, initAge + d) ELSE 0
    /\ actionAge' = IF actionAge = NoAction
                      THEN NoAction
                      ELSE AtMost(PolicyPeriod, actionAge + d)
    /\ stop' = "none"
    /\ UNCHANGED <<target, current, firstUpdate, autoPending, dt7Previous, running,
                   desired, output, commandVars, requested, faults>>

\* ROS time went backwards (a simulation reset): the runtime is reset.
TimeWentBackwards ==
    /\ stamped
    /\ faults < MaxFaults
    /\ faults' = faults + 1
    /\ ResetControllerRuntime(0)

BeginUpdate ==
    /\ lifecycle = "active"
    /\ pc = "ready"
    /\ pc' = "read"
    /\ stamped' = TRUE
    /\ \/ \E d \in TimeSteps : TimeAdvances(d)
       \/ TimeWentBackwards
    /\ UNCHANGED <<parameterVars, lifecycle, subscribed, loaded>>

\* updateRobotState finds the IMU data invalid: update() writes the safe
\* command and returns ERROR without running the state machine.
ReadInvalidImu ==
    /\ pc = "read"
    /\ faults < MaxFaults
    /\ faults' = faults + 1
    /\ pc' = "ready"
    /\ WriteSafeJointCommands
    /\ UNCHANGED <<parameterVars, lifecycle, subscribed, stamped, target, loaded,
                   machineVars, autoPending, dt7Previous, policyVars, historyVars>>

\* updateRobotState with valid data and ROS topics as the input source.
ReadRobotState ==
    /\ pc = "read"
    /\ ~useDt7
    /\ pc' = "auto"
    /\ UNCHANGED <<controlVars, target, loaded, machineVars, autoPending, dt7Previous,
                   policyVars, output, commandVars, historyVars>>

\* Mutant: the level itself requests its state, in every cycle.
Dt7EveryCycle(raw) == TRUE

\* dt7_previous_state_ makes a level that does not change act only once.
Dt7Edge(raw) == raw # dt7Previous

\* updateRobotState with the DT7 receiver as the input source: a changed
\* level requests the state it stands for, if it stands for one.
ReadDt7(raw) ==
    /\ pc = "read"
    /\ useDt7
    /\ pc' = "auto"
    /\ dt7Previous' = raw
    /\ target' = IF Dt7Edge(raw) /\ raw \in 0..3 THEN StateOf(raw) ELSE target
    /\ requested' = IF raw # dt7Previous /\ raw \in {2, 3}
                      THEN requested \cup {StateOf(raw)}
                      ELSE requested
    /\ UNCHANGED <<controlVars, loaded, machineVars, autoPending, policyVars, output,
                   commandVars, initAge, actionAge, stop>>

\* Mutant: auto-enter waits for IDLE, which the operator may have left.
AutoEnterFromIdle ==
    /\ pc = "auto"
    /\ pc' = "load"
    /\ IF autoPending /\ current = "IDLE"
         THEN RequestState("RL") /\ autoPending' = FALSE
         ELSE UNCHANGED <<target, requested, autoPending>>
    /\ UNCHANGED <<controlVars, loaded, machineVars, dt7Previous, policyVars, output,
                   commandVars, initAge, actionAge, stop>>

AutoEnter ==
    /\ pc = "auto"
    /\ pc' = "load"
    /\ IF autoPending /\ current # "INIT"
         THEN RequestState("RL") /\ autoPending' = FALSE
         ELSE UNCHANGED <<target, requested, autoPending>>
    /\ UNCHANGED <<controlVars, loaded, machineVars, dt7Previous, policyVars, output,
                   commandVars, initAge, actionAge, stop>>

\* The entry of the first update is INIT's, which does nothing; then
\* handleStateTransition loads target_state_.
LoadTarget ==
    /\ pc = "load"
    /\ pc' = "transition"
    /\ firstUpdate' = FALSE
    /\ loaded' = target
    /\ UNCHANGED <<controlVars, target, current, sinceEntry, autoPending, dt7Previous,
                   policyVars, output, commandVars, historyVars>>

\* Mutants: off by one, equality for order, and the test for every state.
DwellElapsedEarly == current = "INIT" => sinceEntry >= Dwell
DwellElapsedExactly == current = "INIT" => sinceEntry = Dwell
DwellOnlyInInit == current = "INIT" /\ sinceEntry > Dwell

DwellElapsed == current = "INIT" => sinceEntry > Dwell

\* Mutant: INIT keeps its own target.
NoDefaultToIdle == FALSE

\* INIT is not a state to stay in: asked for it, the machine goes on to IDLE.
DefaultToIdle == current = "INIT" /\ loaded = "INIT"

\* The rest of handleStateTransition, and changeState.
Transition ==
    /\ pc = "transition"
    /\ pc' = "run"
    /\ target' = IF DwellElapsed /\ DefaultToIdle THEN "IDLE" ELSE target
    /\ LET next == CASE ~DwellElapsed -> current
                     [] DwellElapsed /\ DefaultToIdle -> "IDLE"
                     [] OTHER -> loaded
       IN IF next # current
            THEN ChangeState(next)
            ELSE UNCHANGED <<current, sinceEntry, policyVars, initAge, actionAge>>
    /\ UNCHANGED <<controlVars, loaded, firstUpdate, autoPending, dt7Previous, output,
                   commandVars, requested, stop>>

\* Mutant: the torque of the joints PREPARE does not move is not taken away.
PreparedLegsOnly ==
    [output EXCEPT !["leg"].position = "ramp", !["leg"].effort = "ramp"]

\* StatePrepare::run: set-points for the legs.  The other joints lose their
\* torque but keep the position and velocity some earlier state left them.
Prepared ==
    [output EXCEPT !["leg"].position = "ramp", !["leg"].effort = "ramp",
                   !["wheel"].effort = "zero", !["spring"].effort = "zero"]

\* run() of INIT, IDLE and PREPARE: INIT takes the torques away only.
RunPassive ==
    /\ pc = "run"
    /\ current # "RL"
    /\ pc' = "write"
    /\ output' = CASE current = "INIT" -> [j \in Joints |-> [output[j] EXCEPT !.effort = "zero"]]
                   [] current = "IDLE" -> AtRest
                   [] current = "PREPARE" -> Prepared
    /\ UNCHANGED <<controlVars, target, loaded, machineVars, autoPending, dt7Previous,
                   policyVars, commandVars, historyVars>>

\* Mutant: the period is never looked at again.
ShouldInferOnce == sinceInference = NoInference

ShouldInfer == sinceInference \in {NoInference, PolicyPeriod}

\* StateRL::applyLowlevelControl: legs and wheels follow desired_pos_, the
\* springs rest.  A wheel's target is a velocity or a torque by the mode.
Tracking(target_pos) ==
    [leg    |-> [position |-> target_pos, velocity |-> "zero", effort |-> target_pos],
     wheel  |-> IF outputMode = "hardware_pd_vel"
                  THEN [position |-> target_pos, velocity |-> target_pos, effort |-> "zero"]
                  ELSE [position |-> target_pos, velocity |-> "zero", effort |-> target_pos],
     spring |-> Rest]

\* StateRL::run when a policy evaluation is due and succeeds.
RunPolicy ==
    /\ pc = "run"
    /\ current = "RL"
    /\ ShouldInfer
    /\ running
    /\ pc' = "write"
    /\ sinceInference' = 0
    /\ desired' = "action"
    /\ output' = Tracking("action")
    /\ actionAge' = 0
    /\ UNCHANGED <<controlVars, target, loaded, machineVars, autoPending, dt7Previous,
                   running, commandVars, requested, initAge, stop>>

\* StateRL::run between two policy evaluations: the last targets are tracked.
RunHold ==
    /\ pc = "run"
    /\ current = "RL"
    /\ ~ShouldInfer
    /\ pc' = "write"
    /\ output' = Tracking(desired)
    /\ UNCHANGED <<controlVars, target, loaded, machineVars, autoPending, dt7Previous,
                   policyVars, commandVars, historyVars>>

\* StateRL::failSafe, from any of its causes: an observation that is not
\* finite, a rejected input, an invalid output or an invalid torque.
FailSafe ==
    /\ pc = "run"
    /\ current = "RL"
    /\ pc' = "write"
    /\ sinceInference' = NoInference
    /\ desired' = "measured"
    /\ output' = AtRest
    /\ target' = "IDLE"
    /\ stop' = "stopped"
    /\ actionAge' = NoAction
    /\ requested' = requested \ {"RL"}
    /\ UNCHANGED <<controlVars, loaded, machineVars, autoPending, dt7Previous, running,
                   commandVars, initAge>>

\* What writeControllerCommands makes of a joint's outputs in an active state.
Commanded(j) ==
    CASE outputMode = "torque" -> [output[j] EXCEPT !.position = "measured"]
      [] outputMode = "hardware_pd_vel" /\ j = "wheel" ->
           [position |-> "zero",
            velocity |-> IF current = "RL" THEN output[j].velocity ELSE "zero",
            effort |-> "zero"]
      [] OTHER -> [position |-> output[j].position,
                   velocity |-> "zero",
                   effort |-> IF j = "leg" THEN "zero" ELSE output[j].effort]

\* writeControllerCommands(state): outputs and gains only in the active states.
WriteControllerCommands ==
    /\ written' = IF current \in ActiveStates THEN [j \in Joints |-> Commanded(j)]
                                              ELSE AtRest
    /\ gains' = (current \in ActiveStates /\ outputMode # "torque")

\* Mutant: a stop during run() is not looked for.
WriteCommandsUnchecked ==
    /\ pc = "write"
    /\ pc' = "ready"
    /\ WriteControllerCommands
    /\ UNCHANGED <<controlVars, target, loaded, machineVars, autoPending, dt7Previous,
                   policyVars, output, historyVars>>

\* The tail of update(): target_state_ is loaded a second time to decide.
WriteCommands ==
    /\ pc = "write"
    /\ pc' = "ready"
    /\ IF current = "RL" /\ target = "IDLE"
         THEN WriteSafeJointCommands
         ELSE WriteControllerCommands /\ UNCHANGED output
    /\ UNCHANGED <<controlVars, target, loaded, machineVars, autoPending, dt7Previous,
                   policyVars, historyVars>>

-----------------------------------------------------------------------------
(* The executor thread.                                                    *)

\* stateCommandCallback with a value resolveStateCommand accepts; it runs
\* whatever the lifecycle state, as long as the subscription exists.
StateCommand(raw) ==
    /\ subscribed
    /\ RequestState(StateOf(raw))
    /\ stop' = IF stop = "stopped" /\ raw # 1 THEN "overridden" ELSE stop
    /\ UNCHANGED <<controlVars, pc, loaded, machineVars, autoPending, dt7Previous,
                   policyVars, output, commandVars, initAge, actionAge>>

-----------------------------------------------------------------------------
(* Lifecycle transitions, made by the control thread between two updates.  *)

\* on_configure: subscriptions are created, robot_state_ is rebuilt.
Configure ==
    /\ lifecycle = "unconfigured"
    /\ lifecycle' = "inactive"
    /\ subscribed' = TRUE
    /\ output' = Blank
    /\ UNCHANGED <<parameterVars, pc, target, loaded, machineVars, autoPending,
                   dt7Previous, stamped, policyVars, commandVars, faults, historyVars>>

Activate ==
    /\ lifecycle = "inactive"
    /\ lifecycle' = "active"
    /\ \E age \in -Ahead .. Behind : ResetControllerRuntime(age)
    /\ UNCHANGED <<parameterVars, subscribed, pc, loaded, stamped, faults>>

\* Mutant: the command interfaces are made safe, the machine is not reset.
DeactivateWithoutReset ==
    /\ lifecycle = "active"
    /\ pc = "ready"
    /\ lifecycle' = "inactive"
    /\ WriteSafeJointCommands
    /\ UNCHANGED <<parameterVars, subscribed, pc, target, loaded, machineVars, autoPending,
                   dt7Previous, stamped, policyVars, faults, historyVars>>

Deactivate ==
    /\ lifecycle = "active"
    /\ pc = "ready"
    /\ lifecycle' = "inactive"
    /\ ResetControllerRuntime(0)
    /\ UNCHANGED <<parameterVars, subscribed, pc, loaded, stamped, faults>>

\* on_cleanup: the subscriptions go, robot_state_ is emptied.
Cleanup ==
    /\ lifecycle = "inactive"
    /\ lifecycle' = "unconfigured"
    /\ subscribed' = FALSE
    /\ output' = Blank
    /\ UNCHANGED <<parameterVars, pc, target, loaded, machineVars, autoPending,
                   dt7Previous, stamped, policyVars, commandVars, faults, historyVars>>

\* on_shutdown, from any primary state; the subscriptions stay.
Shutdown ==
    /\ lifecycle \in {"unconfigured", "inactive", "active"}
    /\ pc = "ready"
    /\ lifecycle' = "finalized"
    /\ ResetControllerRuntime(0)
    /\ UNCHANGED <<parameterVars, subscribed, pc, loaded, stamped, faults>>

-----------------------------------------------------------------------------
Run == RunPassive \/ RunPolicy \/ RunHold \/ FailSafe

Update ==
    \/ BeginUpdate
    \/ ReadInvalidImu
    \/ ReadRobotState
    \/ \E raw \in Dt7Levels : ReadDt7(raw)
    \/ AutoEnter
    \/ LoadTarget
    \/ Transition
    \/ Run
    \/ WriteCommands

LifecycleTransition == Configure \/ Activate \/ Deactivate \/ Cleanup \/ Shutdown

Next ==
    \/ Update
    \/ \E raw \in 0..3 : StateCommand(raw)
    \/ LifecycleTransition

Spec == Init /\ [][Next]_vars

\* The controller manager's loop keeps calling update() on an active
\* controller.  Nothing is assumed of the operator or of the lifecycle.
FairSpec == Spec /\ WF_vars(Update)

\* The controller seen as the node that OperatorCommands also describes, and
\* its RL state seen as the session whose data PolicyPipeline follows.
Node == INSTANCE ControllerNode WITH state <- current
NodeSpec == Node!Spec

Session == INSTANCE PolicySession WITH held <- desired = "action"
SessionSpec == Session!Spec
-----------------------------------------------------------------------------
(* Properties.                                                             *)

\* The inference session runs exactly while the machine is in RL: every way
\* into and out of RL (changeState, a reset by time, lifecycle or error)
\* goes through start() and stop().
InferenceRunsExactlyInRL == running <=> current = "RL"

\* In hardware_pd, PREPARE writes wheels a position it has not computed: the
\* one RL, IDLE or a reset left in robot_state_.
HeldOver(j) == outputMode = "hardware_pd" /\ current = "PREPARE" /\ j = "wheel"

\* The origins of all else that can move joint j: the torque, and with gains
\* the position and the velocity.
Pulls(j) ==
    {written[j].effort}
      \cup (IF gains THEN {written[j].velocity} ELSE {})
      \cup (IF gains /\ ~HeldOver(j) THEN {written[j].position} ELSE {})

\* When update() has returned, joints are pulled only in PREPARE and RL, and
\* only by what that very state has computed: in PREPARE the legs by the ramp,
\* in RL legs and wheels by the action, or by the positions of a fail-safe
\* that a request has overridden.  A spring is at most held where it was
\* measured.  The exception is the wheels' position in PREPARE in hardware_pd,
\* which is a left-over: a measured position or the policy's last target.
GainsMatchState ==
    pc = "ready" /\ ~Safe =>
        /\ Pulls("spring") \subseteq {"measured", "zero"}
        /\ \/ /\ current = "PREPARE"
              /\ Pulls("leg") \subseteq {"ramp", "zero"}
              /\ Pulls("wheel") \subseteq {"zero"}
              /\ HeldOver("wheel") => written["wheel"].position \in {"measured", "action"}
           \/ /\ current = "RL"
              /\ Pulls("leg") \cup Pulls("wheel") \subseteq
                   {"action", "zero"} \cup (IF stop = "overridden" THEN {"measured"} ELSE {})

\* A policy target that moves a joint comes from an evaluation of the present
\* stay in RL that is less than one policy period old, whatever invalid
\* samples, stops, resets, re-entries and transitions happened in between; all
\* but the wheels' left-over position (HeldOver).
PolicyCommandIsFresh ==
    pc = "ready" =>
        \A j \in Joints : "action" \in Pulls(j) => actionAge \in 0 .. PolicyPeriod - 1

\* A cycle in which StateRL stopped itself never ends with a policy target on
\* the interfaces, and ends with the zero-gain command unless a request that
\* arrived between failSafe() and the end of update() replaced its IDLE.
FailSafeStops ==
    pc = "ready" /\ stop # "none" =>
        /\ \A j \in Joints : "action" \notin {written[j].position, written[j].velocity,
                                            written[j].effort}
        /\ ~Safe => stop = "overridden"

\* A controller that is not active has left the zero-gain command behind and
\* has no inference session running.
ReleasedIsSafe == lifecycle # "active" => Safe /\ ~running

\* INIT is left only after more than Dwell periods have really passed in it,
\* less what the node clock was behind, however INIT was entered
\* (construction, activation, time jump, command).
DwellRespected ==
    [][current = "INIT" /\ current' # "INIT" => initAge > Dwell - Behind]_vars

\* PREPARE and RL run only if someone (topic, a change of the DT7 level,
\* auto-enter) asked for that state since the last reset, and RL only if it
\* was asked for since the policy last stopped itself: no request survives a
\* deactivation, an activation or a time jump, and a stop needs a new one.
RunsOnlyOnRequest == pc = "run" /\ current \in ActiveStates => current \in requested

\* An active controller does not stay in INIT.
InitIsLeft ==
    lifecycle = "active" /\ current = "INIT" ~>
        current # "INIT" \/ lifecycle # "active"

\* If the requested state stops changing, the machine ends up in it for good.
SettlesInTarget ==
    \A s \in States \ {"INIT"} :
        <>[](lifecycle = "active" /\ target = s) => <>[](current = s)

\* A stop by StateRL leads out of RL unless someone asks for another state.
StopLeavesRL == stop = "stopped" ~> current # "RL" \/ target # "IDLE"

\* auto_enter_rl does request RL once an activated controller has left INIT.
AutoEnterHappens ==
    lifecycle = "active" /\ autoPending ~>
        lifecycle # "active" \/ (~autoPending /\ "RL" \in requested)

\* A request for PREPARE, RL or IDLE that is stored in target_state_ is never
\* replaced by INIT's default: the default replaces a request for INIT only.
DefaultReplacesOnlyInit ==
    [][pc = "transition" /\ pc' = "run" /\ target' # target => target = "INIT"]_vars

-----------------------------------------------------------------------------
(* The inductive invariant behind the safety properties.                   *)

\* update() runs only on an active controller, and its first update has
\* passed the machine's first entry before the target is loaded.
ControlFlow ==
    /\ lifecycle # "active" => pc = "ready"
    /\ firstUpdate => current = "INIT" /\ pc \notin {"transition", "run", "write"}

\* There is a stored inference time exactly as long as desired_pos_ holds an
\* action, and it is that action's.
PolicyRuntime ==
    /\ desired = "action" <=> sinceInference # NoInference
    /\ sinceInference # NoInference => current = "RL" /\ actionAge = sinceInference

\* What run() leaves for the tail of update().
RunResult ==
    pc = "write" =>
        /\ current = "PREPARE" =>
              /\ output["leg"].position = "ramp" /\ output["leg"].effort = "ramp"
              /\ output["wheel"].effort = "zero" /\ output["spring"].effort = "zero"
        /\ current = "RL" =>
              \/ output = AtRest /\ stop # "none"
              \/ output = Tracking("action") /\ actionAge \in 0 .. PolicyPeriod - 1

\* What any state leaves the joints that PREPARE does not move.
LeftOver ==
    lifecycle = "active" =>
        /\ output["wheel"].position \in {"measured", "action"}
        /\ output["spring"].position = "measured"

\* A stop is remembered only until the next update.
StopResult ==
    /\ pc \notin {"ready", "write"} => stop = "none"
    /\ pc = "write" /\ stop # "none" =>
          /\ current = "RL"
          /\ output = AtRest
          /\ stop = "stopped" => target = "IDLE"

\* Every active state the machine is heading for has been asked for.
TargetWasRequested ==
    /\ target \in ActiveStates => target \in requested
    /\ pc = "transition" /\ loaded \in ActiveStates => loaded \in requested

DwellIsReal == current = "INIT" => sinceEntry <= initAge + Behind

\* How the parts of the state fit together.
Coherence ==
    /\ ControlFlow
    /\ InferenceRunsExactlyInRL
    /\ PolicyRuntime
    /\ RunResult
    /\ LeftOver
    /\ StopResult
    /\ TargetWasRequested
    /\ DwellIsReal
    /\ GainsMatchState
    /\ PolicyCommandIsFresh
    /\ FailSafeStops
    /\ ReleasedIsSafe
    /\ RunsOnlyOnRequest

\* Inductive: each safety property above follows from it.
InductiveInvariant == TypeOK /\ Coherence
=============================================================================
