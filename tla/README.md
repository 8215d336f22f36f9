# Verification of the wheel-biped locomotion stack

TLA+ models, TLC runs and TLAPS proofs for `wheelbipe_ros2_sim2sim`: the ROS 2
controller that runs the walking policy, the serial bridge to the real robot,
and the operator's input nodes. Paths below are relative to the repository.

## 1. The system

| Part | Source | State | Operations |
| --- | --- | --- | --- |
| Controller | `src/controllers/template_ros2_controller/src/template_ros2_controller.cpp` | lifecycle, `last_update_time_`, `auto_enter_rl_pending_`, `dt7_previous_state_`, command store, command interfaces | `update`, lifecycle callbacks, three topic callbacks, `resetControllerRuntime` |
| State machine | `.../src/fsm/` | `current_state_`, atomic `target_state_`, `state_entry_time_`, `first_update_` | `update`, `changeState`, `setTargetState`, `reset`, start/stop of inference |
| RL state | `.../fsm/states/state_rl.cpp` | `last_inference_time_`, `desired_pos_`, last action, filter and delay buffers | `enter`, `run`, `exit`, `failSafe` |
| Inference session | `.../src/onnxruntime/` | `initialized_`, `running_`, `output_ready_` | `start`, `stop`, `setInput`, `getOutput` |
| Serial bridge | `src/interfaces/real_bridge/` | port, `has_valid_state_`, `last_valid_packet_us_`, `last_connect_attempt_us_`, receive buffer, `active_` | `read`, `write`, lifecycle callbacks |
| Simulation host | `src/interfaces/mujoco_bridge/src/mujoco_ros2_control{_node,}.cpp` | simulated time, `last_update_sim_time_ros_`, `reset_requested` | main loop, `update`, `reset_sim_time` |
| Hardware plug-in | `.../mujoco_system.cpp` | `last_sim_time_`, command interfaces, per joint the delay line and lag of an actuator model | `read`, `write`, `reset_runtime_state` |
| Window | `.../mujoco_rendering.cpp` | `paused_`, `reset_requested_`, `close_flag_` | event callbacks, `update` |
| Gamepad node | `src/tools/xbox_teleop/` | device, sticks, triggers, height | input thread, publishing timer |
| Keyboard node | `src/tools/keyboard_teleop/` | velocities, height, times of key presses | key thread, update timer, publishing timer |

How they interact: the controller manager's thread calls, in turn, `read()` of the
bridge, `update()` of the controller and `write()` of the bridge, and makes the
lifecycle transitions between such calls. An executor thread runs the topic callbacks of the
controller; it shares the atomic `target_state_` and the fields under
`motion_cmd_mutex_` with `update()`. The input nodes are processes of their own that publish
`motion_command`, `height_command` and `state_command`, best effort. On the real robot the
DT7 receiver is an alternative source, read through state interfaces. In simulation one thread steps the physics,
calls the controller manager when a control period of simulated time has passed, and takes reset
requests from a topic and from the window; plug-in and controller learn of a reset only from a time that decreases.

What is hard: two threads around `target_state_`; a fail-safe inside an update racing
operator requests; resets by backward simulation time, lifecycle transitions and errors that must
forget everything earlier; two watchdogs with different rules; a serial line that
loses bytes, packets, and the device itself; a gamepad that vanishes while a callback is
between its critical section and its publication; a simulation whose time restarts while commands of the last
run wait in delay lines and interfaces; filters per joint in a loop that may be left half-way. PROJECT.json lists each hazard at its line.

What makes each part correct:

* controller: joints are moved only by what the present state computed for them; policy targets never
  stale; activity only on request; an inactive controller leaves the zero-gain command; requests are
  carried out in the end;
* command store: the policy sees what the operator last said on the selected source,
  no longer than the timeout, within the limits;
* bridge: no packet reaches the robot unless the component is active and the state fresh on this very
  connection; lost links come back, at a bounded rate of attempts;
* parser: exactly the intact packets of the stream, however it is cut;
* input nodes: losing the device or letting go of the keys stops the robot;
* simulation: no force from a command of an earlier run, control cycles on time, resets noticed and never lost;
* policy data: the observation is exactly as old as configured, and the joints' actions belong together.

## 2. Modules

| Module | Models | How |
| --- | --- | --- |
| `ControllerNode` | lifecycle and state of the controller (abstract) | what the two views of `TemplateRos2Controller` below share |
| `PolicySession` | what RL state and inference session promise (abstract) | an action is held only while the session runs, and forgotten when it starts, stops or fails |
| `LocomotionController` | control loop, state machine, RL runtime, state requests | `update()` is split at each access to `target_state_` (`pc`); each piece is one action, `StateCommand` may come between any two |
| `LocomotionControllerProofs` | | theorems about it |
| `OperatorCommands` | motion and height store, watchdogs, DT7 values, resets | each critical section of `motion_cmd_mutex_` is one action; ages instead of time stamps |
| `OperatorCommandsProofs` | | theorems about it |
| `TransmitGate` | what the bridge promises (abstract) | a gate that opens and shuts, packets only through it |
| `RealBridge` | serial bridge | one action per callback and outcome; driver, cable and board as environment |
| `RealBridgeProofs` | | theorems about it, the refinement of `TransmitGate` among them |
| `PacketParser` | `receive_packets` on bytes | `::read` and each iteration of the parsing loop is an action, the driver may receive between any two |
| `PacketParserProofs` | | theorems about it |
| `XboxTeleop` | gamepad node | two threads; publications are actions apart from the critical sections, as the code publishes outside the mutex |
| `KeyboardTeleop` | keyboard node | every callback holds the mutex throughout and is one action |
| `XboxTeleopProofs`, `KeyboardTeleopProofs` | | theorems about the input nodes |
| `SimLoop` | simulation host, plug-in, window flags, and the controller's check for backward time | one action per branch of the main loop's pass, per physics step and per frame; a value is the set of runs ("this", "old") it was computed from; a stamp is the nominal time or one tick less, as truncation makes it |
| `SimLoopProofs` | | theorems about it |
| `PolicyPipeline` | `StateRL::run` from sample to action: delay buffer, session's one-shot output, filters | one action per call `run` makes, each may fail; a sample is the number of its cycle, a filtered action the raw actions in it |
| `PolicyPipelineProofs` | | theorems about it |
| `MC...` | | values for TLC that a .cfg cannot write |

`LocomotionController` and `OperatorCommands` model the same C++ class from two sides:
state requests meet at an atomic variable, values at a mutex, and neither reads the other's
fields except that the height watchdog looks at the current state, which `OperatorCommands` therefore lets
change freely (`SwitchState`). A command's contents never influence a transition; so each property of either module
is a property of the class. That the two views agree on lifecycle, subscriptions and state is checked: both implement
`ControllerNode` (`NodeSpec`), where the state moves in an active controller only and is INIT in every other.
`PolicyPipeline` looks into what `LocomotionController` calls the evaluation of the policy: the
latter decides when RL is entered, left and failed, the former lets that happen at any time and follows the data. Both
implement `PolicySession` (`SessionSpec`): where the control loop says that joint targets stem from the policy, the pipeline says that
some joint holds a filtered action.
`SimLoop` composes host, plug-in and controller, the last reduced to `last_update_time_` and whether it notices.

Operators and the network between nodes are composed by over-approximation: `OperatorCommands` and
`LocomotionController` accept any command at any time, or none ever again, which includes whatever
the input nodes publish over topics that lose, delay or reorder messages, and several nodes at once.

Abstractions of data: the joints are three groups, legs, wheels and springs, because `StatePrepare::run`, `applyLowlevelControl` and
`writeControllerCommands` treat them differently. Position, velocity and effort of a group, in `robot_state_` (`output`) and on the command interfaces
(`written`), are reduced to what they were computed from (`"measured"`, `"ramp"`, `"action"`, or `"zero"` for a constant that is no set-point);
`gains` says whether kp and kd carry the parameters' gains, and `Pulls(j)` collects what can move group j: its effort, and with gains its velocity and
position. The change that the torque limits make to an effort is left out. A state packet is reduced to validity and age; an observation or an
output that is not finite, and a rejected input, to the choice of `FailSafe`; a low-pass filter to the set of all actions since
its reset; a force in the simulation to the runs its commands belong to (PD law, gas spring and limits change
the number, not where it comes from). Parameters read once by
`on_init` (`use_dt7`, `auto_enter_rl`, `lowlevel_output_mode`) are variables that `Init` chooses and no action changes, so one run
covers all their values. History variables, marked as such, are read by properties only.

Mutants are defined next to the operation they change, with a comment that starts with "Mutant";
PROJECT.json says which property each of them violates. They belong to no specification.

## 3. Runs

| Run | Shows |
| --- | --- |
| `MCSafety` | the safety properties of the control loop and that it implements `ControllerNode` and `PolicySession`, for both inputs, the three output modes, with and without auto-enter, two faults (invalid IMU data, backward time), and a node clock that is ahead or behind when it stamps an activation |
| `MCLiveness` | INIT is left, requests are carried out, a stop leads out of RL, auto-enter happens |
| `MCLostCommand` | *violation*: a command stored between load and store of `handleStateTransition` is lost |
| `MCOperatorCommands` | limits, exclusive source, motion and height follow the operator, stale motion stops; the same `ControllerNode` |
| `MCRealBridge` | trust, refinement of `TransmitGate`, pacing of attempts, recovery of the link |
| `MCBridgeHangup` | *violation*: a hung-up port is not reopened while the state is not trusted |
| `MCBridgeBacklog` | *violation*: old packets that waited in the driver count as fresh |
| `MCPacketParser` | every packet accepted is intact, none shares a byte with another, none is missed but for an earlier one it overlaps, for every stream and every interleaving of driver and parser |
| `MCXboxTeleop` | loss of the gamepad: stop, at most one overtaking command, no jump of the height |
| `MCKeyboardTeleop` | space bar and release of keys stop the robot, whatever the order of the timers |
| `MCSimLoop` | resets at any point of the main loop, from both sources and while paused: no force outlives its run, cycles come on time, the controller misses at most the end of a run in which it was updated once, no pass begins after a request without a reset |
| `MCPolicyPipeline` | exact observation delay; joints in step, through every failure and re-entry; the same `PolicySession` |

Bounds. Thresholds are compared with `<` or `<=` only, so a timeout of two ticks has a value below, at
and above it; ages are saturated one above. `Dwell = 2`, `PolicyPeriod = 3` and time steps of 0, 1, 2
reach duplicate stamps, steps over a threshold and several cycles per evaluation. The only
bounds that cut behaviours are `MaxFaults` (two faults, so a second one can hit the recovery from the first),
`DriverPackets` (one more than a read takes, so a backlog arises) and `StreamLength` (eight bytes, for packets of five and a
buffer of seven: the smallest sizes at which two intact packets can overlap, one starting in the payload of the other, with a false header in front). Values sent by operators lie inside, at and beyond the limits,
and not finite. `MCSimLoop` has a control period of two physics steps that truncation stretches to three, frames of two steps,
runs of at most five periods and a bit, and delays up to two steps; `MCPolicyPipeline` ten cycles, so that a delay of three and a window of three
fill up, wrap and are reset, with delays below zero and a window of zero, which the configuration clamps and refuses.
The inductive invariants hold of the same instances; as they are proved, no run lists them. The proofs need none of these bounds except the saturation, which is part of the models.

Deadlock is checked except where the program really stops: a controller that was shut down before it was ever
configured, an input node that has ended, a simulation host that has ended, and a policy at its bound of cycles.

Fairness. The controller manager's loop runs at a fixed rate: weak fairness of `Update`, `Read`, `Write`.
Timers of the nodes fire again and again and steady clocks go on: weak fairness of the timer callbacks and of
`Tick`. `SF_vars(H7Sends(TRUE))`: a connected board keeps sending intact packets, without which no
link could recover. In `KeyboardTeleop`, `SF_vars(UpdateCommands /\ sinceUpdate > 0)`: time really passes
between some two callbacks. In `XboxTeleop` `read()` of a dead device fails eventually. `SimLoop` has none: that a request is served is an invariant over the
history variable `asked` (no pass of the main loop begins after a request without a reset), so that the time limit which bounds the run, and
ends the node, cannot stand in for a reset; the theorem covers `run_duration` 0, the default, too. Nothing is assumed
of operators, of lifecycle requests, of plugging in, or of faults.

## 4. Proofs

For every value of the constants that meets the named assumptions (naturals where the code has durations and
counts, ranges that are not empty as `validateControllerParameters` demands, inputs that are integers or not finite):

* `LocomotionControllerProofs`: `InvariantHolds`, `TypeCorrect`, `InferenceLifetime`, `GainsAreOwn`, `PolicyIsFresh`,
  `FailSafeIsFinal`, `ReleaseIsSafe`,
  `DwellIsRespected`, `ActivityIsRequested`, and the refinements `ImplementsNode` and `ImplementsSession`. The safety properties speak of the end of an update; what makes
  them inductive is what holds inside it: where `update()` can be in which lifecycle state (`ControlFlow`), that a
  inference time is stored exactly while `desired_pos_` holds an action, and is its age (`PolicyRuntime`), what `run()` leaves for
  the write (`RunResult`, `StopResult`), which positions the joints hold that PREPARE does not move (`LeftOver`), that the requested state and the loaded copy of it were asked for
  (`TargetWasRequested`), and that the entry time makes INIT look older than it is by no more than the
  lag of the node clock (`DwellIsReal`).
* `OperatorCommandsProofs`: `InvariantHolds`, `LimitsRespected`, `MotionFollows`, `HeightFollows`,
  `HeightHeld`, `Dt7Excludes`, `ImplementsNode`. The strengthening relates the stores and their stamps to what the operator really said
  (`StoreFollowsOperator`), and the height in use to the store (`HeightInUse`).
* `RealBridgeProofs`: `InvariantHolds`, `TrustIsEarned`, `ImplementsGate` (every step of the bridge
  is a step of the gate or leaves it alone, under `open <- trusted`), `DriveIsOwnHolds`, `ReadEndsFreshHolds`, `ReconnectIsPacedHolds`.
* `SimLoopProofs`: `InvariantHolds`, `NoEffortOutlivesReset`, `ControlIsOnTime`, `ControllerNoticesResets`, `NoRequestIsLost`. That no force is old is inductive
  with `LeftoversAreDetectable`: while anything old is left in the plug-in, the present time is below its `last_sim_time_`, so the next
  `read` or `write` drops it; and after at most one step nothing is there to be left. The
  controller's side needs `HistoryMatchesClock`: two updates in a run put `last_update_time_` at two periods, while the
  first update of the next run is stamped before that. The assumption `StepTime < ControlPeriod` is where this comes from
  (`scene.xml:5` 1 ms, `wheelbipe_V14.yaml:6` 500 Hz). A request is not lost because it stays in one of the three flags until a pass takes
  it (`RequestIsHeld`).
* `PolicyPipelineProofs`: `InvariantHolds`, `DelayIsExact`, `ActionIsCoherent`, `ImplementsSession`, for every number of joints, delay, window and period: the
  delay buffer is the end of the history of samples (`BufferMatchesSamples`), and inside the loop over the joints those that were fed
  are one inference ahead (`FiltersMatchInferences`).
* `PacketParserProofs`: `InvariantHolds`, `BufferHoldsRemainder`, `AcceptsIntactPackets`, for every packet, buffer and stream length. Buffer and
  driver always hold the end of the stream (`BufferAndDriver`). That no packet is missed is a statement about bytes that are gone, so
  the invariant says of each of them why it went, by a reason no later byte can change (`DroppedForGood`): it belongs to an accepted packet,
  or no header starts there, or the packet that starts there has been read to its end and is not intact. A search that stops at the
  last byte keeps that byte, since it may be half of a header; and what is dropped in front of a packet that has not arrived yet is never
  that packet's header. As less than a packet stays in the buffer between calls, the code's emptying of a full buffer never
  loses anything.
* `KeyboardTeleopProofs`: `InvariantHolds` (limits of velocities and height), `SpaceStopsForGood`.
* `XboxTeleopProofs`: `InvariantHolds`, `AtMostOneStaleCommand`, `HeightIsContinuous`. Between its two publications a callback's sample is the
  shared height (`HeightIsShared`), though the other thread may publish meanwhile; and sticks no one has moved are at rest, so
  a driving sample without an owner dates from before the loss and can be published once (`DriveHasOwner`).

Each proof has a lemma per action or group of actions, a lemma that joins them for `Next`, and theorems that
finish with temporal reasoning.

Model-checked only: the liveness properties (fairness and ENABLED are beyond the prover): the `MCLiveness` properties, `MotionStops`,
`LinkRecoversUnlessHungUp`, `UnplugStops`, `ReleaseStops`. Every invariant, action property and refinement that a
passing run checks is also proved.

## 5. What was found

* `state_machine.cpp:72`: load and store of `target_state_` instead of one compare-and-exchange; a request
  made between the two is overwritten with IDLE (`MCLostCommand`).
* `real_bridge.cpp:292`: `::read` returning 0 on a hung-up tty is taken for "nothing yet"; only a failing `write()` would notice, and
  `write()` sends nothing while the state is not trusted (`MCBridgeHangup`). `LinkRecoversUnlessHungUp` holds.
* `real_bridge.cpp:326`: freshness is counted from parsing (`MCBridgeBacklog`). `ReadEndsFresh`, which counts
  from there as the code does, is proved.

Not findings, as no doc or comment says otherwise, but worth knowing:

* `state_prepare.cpp:51` computes positions for the four legs only. In `hardware_pd`, `writeControllerCommands` sends the wheels, with
  `joint_stiffness[4..5]`, the position that the state before PREPARE left in `robot_state_`: the one measured last, or, when PREPARE follows RL (at
  once, or through a commanded INIT), the policy's last wheel target, which is a torque by meaning (`state_rl.cpp:270`) and is now a position, for as long as PREPARE lasts. It
  moves nothing while those stiffnesses are 0, as they are by default; validation allows any value that is not negative. `GainsMatchState` and
  `PolicyCommandIsFresh` name this exception (`HeldOver`) and hold for all else; without it TLC violates both. The springs are held, with
  `joint_stiffness[6..7]`, where they were measured before PREPARE began.
* With a time step of 0.001 s, accumulated as a double and truncated to nanoseconds, `mujoco_ros2_control.cpp:331` takes three steps
  instead of two about 20 times in a million steps: 499.989 Hz where `PARAMETERS.md:20` says 500. `CyclesOnTime` bounds the lateness by one step. (The accumulated
  error shifts all stamps of a long run further, but two in a row by a nanosecond or two at most; only their difference is compared.)
* A reset requested by the topic leaves the window's request standing, so a second reset follows in the next pass (`mujoco_ros2_control_node.cpp:147`).
* A reset of the simulation during the very first update of a run may go unnoticed by the controller (`MissesShortRunsOnly` allows
  one update, and TLC reaches it). The plug-in's side has no such gap (`EffortsOfThisRun`).
* The observation delay counts valid samples, not control periods, and starts anew after a failure (`ObservationIsDelayed` says so).

## 6. Plan and what is not modelled

Done in this order, most important first: control loop and state machine; command store; bridge and its gate; parser; input
nodes; simulation host; data of the policy; proofs about all of them; the
abstract node and session that tie the two views of the controller, and the two of the policy, together.

What could follow: MuJoCo's automatic reset of a diverged state as an external action of `SimLoop`, with what the code would need to
keep `CyclesOnTime` (hazard at `mujoco_ros2_control.cpp:329`); the publishers of sensor topics; device discovery of the gamepad node.

Not modelled in what is there: `on_error` (it does what `on_shutdown` does, and no transition callback returns ERROR for parameters
that `on_init` has accepted, as `params_` is read only there) and activations that fail (they change no modelled variable; what is
written later through handles they leave behind is undefined, hazard at `template_ros2_controller.cpp:488`). The numbers of observation, PD law,
gas spring and actuator limits are real arithmetic and part of no model.

Left out for good: parameter validation (pure checks whose results are the named assumptions), drawing and cameras, noise generation
and rotations (real arithmetic), launch files, scripts and robot descriptions (no state of their own).
