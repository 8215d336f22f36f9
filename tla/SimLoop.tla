------------------------------ MODULE SimLoop ------------------------------
(***************************************************************************)
(* The simulation host, mujoco_ros2_control_node: one thread that runs the *)
(* MuJoCo simulation step by step, calls the controller manager whenever a *)
(* control period of simulated time has passed, takes reset requests from  *)
(* a topic and from the window, and sets the simulated time back to zero.  *)
(* Nothing tells the hardware plug-in (MujocoSystem) or the controller of  *)
(* a reset: each has to notice that the time it is given has decreased.    *)
(* The module follows what is left of one run of the simulation, in the    *)
(* actuator's delay line, in the command interfaces and in the controller, *)
(* once the next run has begun.                                            *)
(*                                                                         *)
(* Time is counted in ticks that stand for the nanosecond of a ROS stamp.  *)
(* The stamp of a step is the accumulated double, truncated: it is the     *)
(* nominal time or one tick less.                                          *)
(***************************************************************************)
EXTENDS Integers, Sequences

CONSTANTS
  StepTime,       \* opt.timestep: simulated time of one physics step
  ControlPeriod,  \* 1 / update_rate of the controller manager
  FrameSteps,     \* physics steps in 1/60 s, between two frames of the window
  RunDuration,    \* parameter run_duration; 0 is no limit
  MaxDelay        \* the largest transport delay of an actuator, in steps

ASSUME StepAssumption == StepTime \in Nat /\ StepTime >= 2

\* scene.xml steps by 1 ms and wheelbipe_V14.yaml asks for 500 Hz: the model of
\* the robot is stepped faster than it is controlled.
ASSUME PeriodAssumption == ControlPeriod \in Nat /\ StepTime < ControlPeriod

ASSUME LimitAssumption ==
  FrameSteps \in Nat \ {0} /\ RunDuration \in Nat /\ MaxDelay \in Nat

VARIABLES
  render, actuator, delay,       \* how the node was started; never change
  pc,              \* where the main loop stands
  stepsLeft,       \* physics steps left before the loop looks up again
  ok,              \* rclcpp::ok()
  closeFlag,       \* the window was closed
  paused,          \* MujocoRendering::paused_
  windowReset,     \* MujocoRendering::reset_requested_
  topicPending,    \* a message waits in the KeepLast(1) queue of reload_robot
  resetRequested,  \* the atomic flag its callback sets
  time,            \* mj_data_->time
  lastUpdate,      \* last_update_sim_time_ros_
  hw,              \* MujocoSystem: what it remembers of one joint
  effort,          \* mj_data_->qfrc_applied: the runs it was computed from
  active,          \* the controller is active
  ctrlLast,        \* its last_update_time_; 0 before the first update
  heard,           \* history: its updates (at most 2) in the run of ctrlLast
  behind,          \* history: it has seen no update since the last reset
  missed,          \* history: heard of the run whose end it did not notice
  asked            \* history: a reset was asked for and has not happened since:
                   \* "waiting", or "passed" once a pass has begun without it

settings == <<render, actuator, delay>>
requests == <<windowReset, topicPending, resetRequested, asked>>
window   == <<closeFlag, paused>>
clock    == <<time, lastUpdate>>
plant    == <<hw, effort>>
control  == <<active, ctrlLast, heard, behind, missed>>
vars == <<settings, pc, stepsLeft, ok, window, requests, clock, plant, control>>

\* A value is known by the runs of the simulation it was computed from.
Runs == {"this", "old"}

Aged(runs) == IF runs = {} THEN {} ELSE {"old"}

Stamps(t) == IF t = 0 THEN {0} ELSE {t - 1, t}

Cleared == [lastSim |-> -1, command |-> {}, line |-> << >>, applied |-> {},
            initialized |-> FALSE]

\* The joint's parameters in the robot description: no actuator model, one
\* with a transport delay only, or one with a lag behind the delay.
ConfigureActuator ==
  /\ actuator \in {"off", "direct", "filtered"}
  /\ delay \in 0..MaxDelay

Init ==
  /\ render \in BOOLEAN
  /\ ConfigureActuator
  /\ pc = "loop" /\ stepsLeft = 0 /\ ok = TRUE
  /\ closeFlag = FALSE /\ paused = FALSE
  /\ windowReset = FALSE /\ topicPending = FALSE /\ resetRequested = FALSE
  /\ time = 0 /\ lastUpdate = 0
  /\ hw = Cleared /\ effort = {}
  /\ active = FALSE /\ ctrlLast = 0
  /\ heard = 0 /\ behind = FALSE /\ missed = 0 /\ asked = "no"

-----------------------------------------------------------------------------
(* MujocoSystem: the hardware plug-in                                      *)

\* Mutant: a tolerance of one control period.
DetectLargeReset(h) ==
  IF h.lastSim >= 0 /\ time + ControlPeriod < h.lastSim
    THEN [Cleared EXCEPT !.lastSim = time]
    ELSE [h EXCEPT !.lastSim = time]

\* Both read() and write() begin with this: simulated time that has decreased
\* since the last call is a reset, and whatever was cached is dropped.
DetectReset(h) ==
  IF h.lastSim >= 0 /\ time < h.lastSim
    THEN [Cleared EXCEPT !.lastSim = time]
    ELSE [h EXCEPT !.lastSim = time]

\* The joint's actuator model: a delay line that starts full of the first
\* request, and a first- or second-order lag behind it.
Actuate(h) ==
  IF actuator = "off" THEN h
  ELSE LET line    == IF h.initialized THEN h.line
                      ELSE [i \in 1..delay |-> h.command]
           past    == IF h.initialized THEN h.applied ELSE h.command
           delayed == IF delay > 0 THEN Head(line) ELSE h.command
       IN [h EXCEPT
            !.line = IF delay > 0 THEN Append(Tail(line), h.command) ELSE line,
            !.applied = IF actuator = "filtered" THEN past \cup delayed
                                                 ELSE delayed,
            !.initialized = TRUE]

EffortOf(h) == IF actuator = "off" THEN h.command ELSE h.applied

Write(h) == LET w == Actuate(DetectReset(h))
            IN hw' = w /\ effort' = EffortOf(w)

-----------------------------------------------------------------------------
(* The controller, as the controller manager calls it                      *)

\* Mutant: a tolerance of one period against jitter of the stamps.
WentBackAPeriod(stamp) == ctrlLast > 0 /\ stamp + ControlPeriod < ctrlLast

TimeWentBackwards(stamp) == ctrlLast > 0 /\ stamp < ctrlLast

\* An inactive controller is not called. One that notices the reset starts
\* afresh and sends its safe command; otherwise it sends what it likes.
ControllerUpdate(stamp, held, command) ==
  IF ~active
    THEN /\ command = held
         /\ UNCHANGED <<ctrlLast, missed>>
    ELSE /\ command = {} \/ (~TimeWentBackwards(stamp) /\ command = {"this"})
         /\ ctrlLast' = stamp
         /\ missed' = IF behind /\ ~TimeWentBackwards(stamp) THEN heard ELSE 0

\* At the end of a cycle the manager may switch the controller: activation and
\* deactivation both leave safe commands, and neither touches ctrlLast.
Switch(stamp) ==
  \/ /\ UNCHANGED active
     /\ heard' = CASE ~active -> heard
                   [] active /\ (behind \/ TimeWentBackwards(stamp)) -> 1
                   [] OTHER -> IF heard = 0 THEN 1 ELSE 2
  \/ active' = ~active /\ heard' = 0

-----------------------------------------------------------------------------
(* MujocoRos2Control::update: one physics step                             *)

Due(stamp) == stamp - lastUpdate >= ControlPeriod

Cycle(stamp) ==
  /\ Due(stamp)
  /\ lastUpdate' = stamp
  /\ behind' = FALSE
  /\ Switch(stamp)
  /\ \E command \in SUBSET Runs :
       LET read == DetectReset(hw)
       IN /\ ControllerUpdate(stamp, read.command, command)
          /\ Write([read EXCEPT !.command = IF active' = active THEN command
                                                                ELSE {}])

StepOnly(stamp) ==
  /\ ~Due(stamp)
  /\ Write(hw)
  /\ UNCHANGED <<lastUpdate, control>>

Update ==
  /\ pc = "update"
  /\ \E stamp \in Stamps(time) : Cycle(stamp) \/ StepOnly(stamp)
  /\ time' = time + StepTime
  /\ stepsLeft' = stepsLeft - 1
  /\ pc' = CASE stepsLeft > 1 -> "update"
             [] render /\ stepsLeft = 1 -> "render"
             [] OTHER -> "loop"
  /\ UNCHANGED <<settings, ok, window, requests>>

-----------------------------------------------------------------------------
(* The main loop                                                           *)

KeepsRunning ==
  /\ ok
  /\ ~(render /\ closeFlag)
  /\ RunDuration = 0 \/ time < RunDuration

\* Mutant: the time of the last update is left as it was.
KeepSimTime == UNCHANGED lastUpdate

ResetSimTime == lastUpdate' = 0

\* mj_resetData clears the forces and the time; what the plug-in and the
\* controller hold now stems from an earlier run.
ResetSimulation ==
  /\ time' = 0
  /\ ResetSimTime
  /\ effort' = {}
  /\ hw' = [hw EXCEPT !.command = Aged(hw.command),
                      !.line = [i \in DOMAIN hw.line |-> Aged(hw.line[i])],
                      !.applied = Aged(hw.applied)]
  /\ behind' = (behind \/ (active /\ heard > 0))
  /\ asked' = "no"
  /\ UNCHANGED <<active, ctrlLast, heard, missed>>

\* The pass goes on with the simulation as it is.
NoReset ==
  /\ asked' = IF asked = "waiting" THEN "passed" ELSE asked
  /\ UNCHANGED <<clock, plant, control>>

ConsumeResetRequest == windowReset' = FALSE

\* Mutant: both flags are taken, and only the topic's is acted upon.
TakeRequestsTopicOnly ==
  LET byTopic == topicPending \/ resetRequested
  IN /\ topicPending' = FALSE
     /\ resetRequested' = FALSE
     /\ windowReset' = FALSE
     /\ IF byTopic THEN ResetSimulation ELSE NoReset

\* A pending message is delivered (spin_some); then the topic's request is
\* looked at first, and only without one the window's.
TakeRequests ==
  LET byTopic  == topicPending \/ resetRequested
      byWindow == ~byTopic /\ render /\ windowReset
  IN /\ topicPending' = FALSE
     /\ resetRequested' = FALSE
     /\ IF byWindow THEN ConsumeResetRequest ELSE UNCHANGED windowReset
     /\ IF byTopic \/ byWindow THEN ResetSimulation ELSE NoReset

BeginPass ==
  /\ pc = "loop" /\ KeepsRunning
  /\ TakeRequests
  /\ \/ ~render /\ pc' = "update" /\ stepsLeft' = 1
     \/ render /\ paused /\ pc' = "render" /\ stepsLeft' = 0
     \/ render /\ ~paused /\ pc' = "update" /\ stepsLeft' = FrameSteps
  /\ UNCHANGED <<settings, ok, window>>

EndLoop ==
  /\ pc = "loop" /\ ~KeepsRunning
  /\ pc' = "ended"
  /\ UNCHANGED <<settings, stepsLeft, ok, window, requests, clock, plant,
                 control>>

\* The window's events between two frames: space bar or button for pause (any
\* number of times), backspace or button for a reset, and the close box.
WindowEvents(reset) ==
  /\ paused' \in BOOLEAN
  /\ windowReset' = (windowReset \/ reset)
  /\ asked' = IF reset THEN "waiting" ELSE asked
  /\ closeFlag' \in {closeFlag, TRUE}

\* The end of a frame and of a paused pass: messages are delivered, the window
\* is drawn and its events are polled.
RenderFrame ==
  /\ pc = "render"
  /\ topicPending' = FALSE
  /\ resetRequested' = (resetRequested \/ topicPending)
  /\ \E reset \in BOOLEAN : WindowEvents(reset)
  /\ pc' = "loop"
  /\ UNCHANGED <<settings, stepsLeft, ok, clock, plant, control>>

-----------------------------------------------------------------------------
(* What happens outside the main thread                                    *)

TopicMessage ==
  /\ pc # "ended" /\ ~topicPending
  /\ topicPending' = TRUE
  /\ asked' = "waiting"
  /\ UNCHANGED <<settings, pc, stepsLeft, ok, window, windowReset,
                 resetRequested, clock, plant, control>>

Interrupt ==
  /\ pc # "ended" /\ ok
  /\ ok' = FALSE
  /\ UNCHANGED <<settings, pc, stepsLeft, window, requests, clock, plant,
                 control>>

Loop == BeginPass \/ Update \/ RenderFrame \/ EndLoop
Next == Loop \/ TopicMessage \/ Interrupt

Spec == Init /\ [][Next]_vars

-----------------------------------------------------------------------------
(* Properties                                                              *)

JointStates ==
  [lastSim : Int, command : SUBSET Runs, line : Seq(SUBSET Runs),
   applied : SUBSET Runs, initialized : BOOLEAN]

\* What the plug-in remembers; the delay line of a running model is full.
Joint(h) ==
  /\ h \in JointStates
  /\ h.initialized /\ actuator # "off" => Len(h.line) = delay

LoopTypeOK ==
  /\ pc \in {"loop", "update", "render", "ended"}
  /\ stepsLeft \in 0..FrameSteps
  /\ pc = "update" => stepsLeft > 0
  /\ pc = "render" => render
  /\ ok \in BOOLEAN /\ closeFlag \in BOOLEAN /\ paused \in BOOLEAN
  /\ windowReset \in BOOLEAN /\ topicPending \in BOOLEAN
  /\ resetRequested \in BOOLEAN
  /\ asked \in {"no", "waiting", "passed"}

TypeOK ==
  /\ render \in BOOLEAN /\ delay \in 0..MaxDelay
  /\ actuator \in {"off", "direct", "filtered"}
  /\ LoopTypeOK
  /\ time \in Nat /\ lastUpdate \in Nat /\ ctrlLast \in Nat
  /\ active \in BOOLEAN /\ behind \in BOOLEAN
  /\ heard \in 0..2 /\ missed \in 0..2
  /\ Joint(hw)
  /\ effort \in SUBSET Runs

HoldsOnly(h, runs) ==
  /\ h.command \subseteq runs /\ h.applied \subseteq runs
  /\ \A i \in DOMAIN h.line : h.line[i] \subseteq runs

\* What is left of an earlier run is always something the next call of read()
\* or write() recognises by its time, and before the second step of the first
\* run, whose end no call would recognise, there is nothing to be left.
LeftoversAreDetectable ==
  /\ time < hw.lastSim \/ HoldsOnly(hw, {"this"})
  /\ hw.lastSim <= 0 => HoldsOnly(hw, {})

\* No force in the simulation was computed from a command of an earlier run:
\* neither the command interfaces, nor the delay line, nor the lag of the
\* actuator model carries a command over a reset (mujoco_system.cpp:94, :144).
EffortsOfThisRun == "old" \notin effort

\* Whatever the truncation of the stamps and whenever the simulation is reset,
\* the controller manager is never more than one physics step late, and the
\* last update it remembers is never in the future, from where it would not
\* be called until the new run has passed it (mujoco_ros2_control.cpp:329).
CyclesOnTime ==
  /\ lastUpdate <= time
  /\ time - lastUpdate <= ControlPeriod + StepTime

\* What the controller remembers of its run, against the manager's clock.
HistoryMatchesClock ==
  /\ time = 0 => lastUpdate = 0
  /\ heard > 0 => active /\ ctrlLast >= ControlPeriod
  /\ heard = 2 => ctrlLast >= 2 * ControlPeriod
  /\ behind => heard > 0 /\ lastUpdate = 0
  /\ heard > 0 /\ ~behind => ctrlLast <= lastUpdate

\* The controller sees a reset only as a stamp smaller than its last one, at
\* its first update of the new run.  It can miss the end of a run that gave it
\* a single update, whose stamp may be the same, but never of a longer one
\* (template_ros2_controller.cpp:528).
MissesShortRunsOnly == missed <= 1

\* A request to reset, from the topic or the window, at any moment and also
\* while the window is paused, is followed by a reset before the main loop
\* begins another pass, if it does: none is lost in the short-circuit of the
\* two flags, whether the simulation has a time limit or not
\* (mujoco_ros2_control_node.cpp:147).
RequestsAreServed == asked # "passed"

\* What keeps a request from being lost: it is still in one of the flags, and
\* the window's counts only with a window.
RequestIsHeld ==
  asked = "waiting" => topicPending \/ resetRequested \/ (render /\ windowReset)

InductiveInvariant ==
  /\ TypeOK
  /\ LeftoversAreDetectable
  /\ EffortsOfThisRun
  /\ CyclesOnTime
  /\ HistoryMatchesClock
  /\ MissesShortRunsOnly
  /\ RequestsAreServed
  /\ RequestIsHeld

=============================================================================
