--------------------- MODULE LocomotionControllerProofs ---------------------
(***************************************************************************)
(* Proofs about LocomotionController: its inductive invariant, the safety  *)
(* properties that follow from it and its two action properties.           *)
(***************************************************************************)
EXTENDS LocomotionController, TLAPS

USE DwellAssumption, PolicyPeriodAssumption, TimeStepsAssumption, SkewAssumption,
    MaxFaultsAssumption
    DEF DwellAssumption, PolicyPeriodAssumption, TimeStepsAssumption, SkewAssumption,
        MaxFaultsAssumption, States, ActiveStates, ControlPoints, NoInference, NoAction,
        NoDt7, Dt7Levels, OutputModes, Origins, parameterVars, commandVars

\* The parts of the inductive invariant, by one name each.
USE DEF InductiveInvariant, Coherence, TypeOK, FlagsTypeOK, ValuesTypeOK, ControlFlow,
        InferenceRunsExactlyInRL, PolicyRuntime, RunResult, LeftOver, StopResult,
        TargetWasRequested, DwellIsReal, GainsMatchState, PolicyCommandIsFresh,
        FailSafeStops, ReleasedIsSafe, RunsOnlyOnRequest

-----------------------------------------------------------------------------
(* Commands.                                                               *)

\* The constant commands are commands, and the one at rest pulls nowhere.
LEMMA RestIsCommand ==
    /\ AtRest \in [Joints -> JointCommands]
    /\ Blank \in [Joints -> JointCommands]
    /\ \A j \in Joints : AtRest[j] = Rest
    /\ Rest.position = "measured" /\ Rest.velocity = "zero" /\ Rest.effort = "zero"
  BY DEF AtRest, Blank, Rest, JointCommands, Joints

\* What the zero-gain command on the interfaces means for the properties.
LEMMA SafeHasNoAction ==
    ASSUME written' = AtRest, gains' = FALSE, stop' \in {"none", "stopped", "overridden"}
    PROVE  /\ Safe'
           /\ GainsMatchState' /\ PolicyCommandIsFresh' /\ FailSafeStops'
  <1>1. Safe'
    BY DEF Safe
  <1>2. \A j \in Joints : written'[j] = Rest
    BY RestIsCommand
  <1>3. \A j \in Joints : Pulls(j)' = {"zero"}
    BY <1>2, RestIsCommand DEF Pulls
  <1>4. \A j \in Joints : "action" \notin {written[j].position, written[j].velocity,
                                          written[j].effort}'
    BY <1>2, RestIsCommand
  <1>5. QED
    BY <1>1, <1>3, <1>4

\* A step that leaves the interfaces alone leaves what they pull to.
LEMMA CommandsKept ==
    ASSUME UNCHANGED <<written, gains, outputMode, current>>
    PROVE  /\ Safe' <=> Safe
           /\ \A j : Pulls(j)' = Pulls(j) /\ (HeldOver(j)' <=> HeldOver(j))
  BY DEF Safe, Pulls, HeldOver

-----------------------------------------------------------------------------
(* The inductive invariant.                                                *)

\* A freshly constructed controller satisfies the invariant.
LEMMA InitEstablishes == Init => InductiveInvariant
  <1> SUFFICES ASSUME Init PROVE InductiveInvariant
    OBVIOUS
  <1>1. FlagsTypeOK
    BY DEF Init
  <1>2. ValuesTypeOK
    BY RestIsCommand DEF Init
  <1>3. Safe /\ stop = "none"
    BY DEF Init, Safe
  <1>4. \A j \in Joints : Pulls(j) = {"zero"}
    BY RestIsCommand DEF Init, Pulls
  <1>5. Coherence
    BY <1>3, <1>4 DEF Init
  <1>6. QED
    BY <1>1, <1>2, <1>5

\* resetControllerRuntime establishes the invariant from every state that
\* satisfies it, so every handler that ends in it preserves the invariant.
LEMMA ResetPreserves ==
    ASSUME InductiveInvariant, NEW age \in -Ahead .. Behind, ResetControllerRuntime(age),
           pc' \in {"ready", "read"}, pc' = "read" => lifecycle' = "active",
           lifecycle' \in {"unconfigured", "inactive", "active", "finalized"},
           parameterVars' = parameterVars, subscribed' \in BOOLEAN, stamped' \in BOOLEAN, faults' \in 0..MaxFaults,
           loaded' = loaded
    PROVE  InductiveInvariant'
  <1> USE DEF ResetControllerRuntime, WriteSafeJointCommands, ResetPolicyRuntimeState, AtMost
  <1>1. FlagsTypeOK'
    OBVIOUS
  <1>2. ValuesTypeOK'
    BY RestIsCommand
  <1>3. Safe' /\ GainsMatchState' /\ PolicyCommandIsFresh' /\ FailSafeStops'
    BY SafeHasNoAction
  <1>4. LeftOver'
    BY RestIsCommand DEF Joints
  <1>5. Coherence'
    BY <1>3, <1>4
  <1>6. QED
    BY <1>1, <1>2, <1>5

LEMMA BeginUpdatePreserves == InductiveInvariant /\ BeginUpdate => InductiveInvariant'
  <1> SUFFICES ASSUME InductiveInvariant, BeginUpdate PROVE InductiveInvariant'
    OBVIOUS
  <1>1. CASE TimeWentBackwards
    <2>1. ResetControllerRuntime(0) /\ faults' \in 0..MaxFaults
      BY <1>1 DEF TimeWentBackwards
    <2>2. pc' = "read" /\ lifecycle' = "active" /\ subscribed' \in BOOLEAN
          /\ stamped' \in BOOLEAN /\ loaded' = loaded /\ parameterVars' = parameterVars
      BY DEF BeginUpdate
    <2>3. QED
      BY <2>1, <2>2, ResetPreserves
  <1>2. ASSUME NEW d \in TimeSteps, TimeAdvances(d) PROVE InductiveInvariant'
    <2>1. FlagsTypeOK'
      BY <1>2 DEF BeginUpdate, TimeAdvances
    <2>2. ValuesTypeOK'
      BY <1>2 DEF BeginUpdate, TimeAdvances, AtMost
    <2>3. Coherence'
      BY <1>2 DEF BeginUpdate, TimeAdvances, AtMost
    <2>4. QED
      BY <2>1, <2>2, <2>3
  <1>3. QED
    BY <1>1, <1>2 DEF BeginUpdate

LEMMA ReadPreserves ==
    InductiveInvariant /\ (ReadInvalidImu \/ ReadRobotState \/ \E raw \in Dt7Levels : ReadDt7(raw))
      => InductiveInvariant'
  <1> USE DEF controlVars, machineVars, policyVars, historyVars
  <1>1. ASSUME InductiveInvariant, ReadInvalidImu PROVE InductiveInvariant'
    <2> USE <1>1 DEF ReadInvalidImu, WriteSafeJointCommands
    <2>1. FlagsTypeOK'
      OBVIOUS
    <2>2. ValuesTypeOK'
      BY RestIsCommand
    <2>3. Safe' /\ GainsMatchState' /\ PolicyCommandIsFresh' /\ FailSafeStops'
      BY SafeHasNoAction
    <2>4. LeftOver'
      BY RestIsCommand DEF Joints
    <2>5. Coherence'
      BY <2>3, <2>4
    <2>6. QED
      BY <2>1, <2>2, <2>5
  <1>2. InductiveInvariant /\ ReadRobotState => InductiveInvariant'
    BY DEF ReadRobotState
  <1>3. ASSUME NEW raw \in Dt7Levels, InductiveInvariant, ReadDt7(raw) PROVE InductiveInvariant'
    <2>1. /\ target' \in States /\ requested' \in SUBSET ActiveStates
          /\ requested \subseteq requested'
          /\ target' \in ActiveStates => target' \in requested'
      BY <1>3 DEF ReadDt7, Dt7Edge, StateOf
    <2>2. FlagsTypeOK'
      BY <1>3 DEF ReadDt7
    <2>3. ValuesTypeOK'
      BY <1>3, <2>1 DEF ReadDt7
    <2>4. Coherence'
      BY <1>3, <2>1 DEF ReadDt7
    <2>5. QED
      BY <2>2, <2>3, <2>4
  <1>4. QED
    BY <1>1, <1>2, <1>3

LEMMA AutoEnterPreserves == InductiveInvariant /\ AutoEnter => InductiveInvariant'
  <1> SUFFICES ASSUME InductiveInvariant, AutoEnter PROVE InductiveInvariant'
    OBVIOUS
  <1> USE DEF controlVars, machineVars, policyVars, historyVars
  <1>1. /\ target' \in States /\ requested' \in SUBSET ActiveStates
        /\ target' \in ActiveStates => target' \in requested'
    <2>1. requested \in SUBSET ActiveStates /\ "RL" \in States
      OBVIOUS
    <2>2. CASE autoPending /\ current # "INIT"
      <3>1. RequestState("RL")
        BY <2>2 DEF AutoEnter
      <3>2. QED
        BY <3>1 DEF RequestState
    <2>3. CASE ~(autoPending /\ current # "INIT")
      <3>1. target' = target /\ requested' = requested
        BY <2>3 DEF AutoEnter
      <3>2. QED
        BY <3>1
    <2>4. QED
      BY <2>2, <2>3
  <1>2. FlagsTypeOK'
    BY DEF AutoEnter
  <1>3. ValuesTypeOK'
    BY <1>1 DEF AutoEnter
  <1>4. Coherence'
    BY <1>1 DEF AutoEnter
  <1>5. QED
    BY <1>2, <1>3, <1>4

LEMMA LoadTargetPreserves == InductiveInvariant /\ LoadTarget => InductiveInvariant'
  <1> SUFFICES ASSUME InductiveInvariant, LoadTarget PROVE InductiveInvariant'
    OBVIOUS
  <1> USE DEF LoadTarget, controlVars, policyVars, historyVars
  <1>1. FlagsTypeOK'
    OBVIOUS
  <1>2. ValuesTypeOK'
    OBVIOUS
  <1>3. Coherence'
    OBVIOUS
  <1>4. QED
    BY <1>1, <1>2, <1>3

LEMMA TransitionPreserves == InductiveInvariant /\ Transition => InductiveInvariant'
  <1> SUFFICES ASSUME InductiveInvariant, Transition PROVE InductiveInvariant'
    OBVIOUS
  <1> DEFINE next == CASE ~DwellElapsed -> current
                       [] DwellElapsed /\ DefaultToIdle -> "IDLE"
                       [] OTHER -> loaded
  <1>1. /\ next \in States
        /\ next \in ActiveStates => next \in requested
    BY DEF Transition, DwellElapsed
  <1>2. target' \in States /\ (target' \in ActiveStates => target' \in requested')
    BY DEF Transition
  <1>3. CASE next # current
    <2> USE <1>1, <1>2, <1>3 DEF ResetPolicyRuntimeState, controlVars
    <2>1. ChangeState(next)
      BY DEF Transition
    <2> HIDE DEF next
    <2>2. FlagsTypeOK'
      BY <2>1 DEF Transition, ChangeState
    <2>3. ValuesTypeOK'
      BY <2>1 DEF Transition, ChangeState
    <2>4. /\ sinceInference' = NoInference /\ desired' # "action"
          /\ sinceEntry' = 0 /\ initAge' = 0
          /\ current' = next
      BY <2>1 DEF ChangeState
    <2>5. InferenceRunsExactlyInRL'
      BY <2>1 DEF ChangeState
    <2>6. ControlFlow' /\ ReleasedIsSafe'
      BY <2>4 DEF Transition
    <2>7. PolicyRuntime' /\ DwellIsReal' /\ TargetWasRequested'
      BY <2>4 DEF Transition
    <2>8. /\ RunResult' /\ LeftOver' /\ StopResult' /\ GainsMatchState' /\ PolicyCommandIsFresh'
          /\ FailSafeStops'
      BY DEF Transition
    <2>9. RunsOnlyOnRequest'
      BY <2>4 DEF Transition
    <2>10. QED
      BY <2>2, <2>3, <2>5, <2>6, <2>7, <2>8, <2>9
  <1>4. CASE next = current
    <2>1. UNCHANGED <<current, sinceEntry, policyVars, initAge, actionAge>>
      BY <1>4 DEF Transition
    <2> HIDE DEF next
    <2>2. QED
      BY <1>1, <1>2, <1>4, <2>1 DEF Transition, controlVars, policyVars
  <1>5. QED
    BY <1>3, <1>4

\* What run() leaves in robot_state_, state by state.
LEMMA PassiveOutput ==
    ASSUME InductiveInvariant, RunPassive
    PROVE  /\ output' \in [Joints -> JointCommands]
           /\ RunResult' /\ LeftOver'
  <1> USE DEF controlVars, machineVars
  <1>1. output \in [Joints -> JointCommands]
    OBVIOUS
  <1>2. CASE current = "INIT"
    <2>1. output' = [j \in Joints |-> [output[j] EXCEPT !.effort = "zero"]]
      BY <1>2 DEF RunPassive
    <2>2. output' \in [Joints -> JointCommands]
      BY <1>1, <2>1 DEF JointCommands
    <2>3. \A j \in Joints : output'[j].position = output[j].position
      BY <1>1, <2>1 DEF JointCommands
    <2>4. LeftOver'
      BY <2>3 DEF RunPassive, Joints
    <2>5. RunResult'
      BY <1>2 DEF RunPassive
    <2>6. QED
      BY <2>2, <2>4, <2>5
  <1>3. CASE current = "IDLE"
    <2>1. output' = AtRest /\ current' = "IDLE"
      BY <1>3 DEF RunPassive
    <2>2. QED
      BY <2>1, RestIsCommand DEF Joints
  <1>4. CASE current = "PREPARE"
    <2>1. output' = Prepared /\ current' = "PREPARE"
      BY <1>4 DEF RunPassive
    <2>2. /\ Prepared \in [Joints -> JointCommands]
          /\ Prepared["leg"].position = "ramp" /\ Prepared["leg"].effort = "ramp"
          /\ Prepared["wheel"].effort = "zero" /\ Prepared["spring"].effort = "zero"
          /\ Prepared["wheel"].position = output["wheel"].position
          /\ Prepared["spring"].position = output["spring"].position
      <3> DEFINE legs == [[output["leg"] EXCEPT !.position = "ramp"] EXCEPT !.effort = "ramp"]
                 wheels == [output["wheel"] EXCEPT !.effort = "zero"]
                 springs == [output["spring"] EXCEPT !.effort = "zero"]
      <3>1. /\ output["leg"] \in JointCommands /\ output["wheel"] \in JointCommands
            /\ output["spring"] \in JointCommands
        BY <1>1 DEF Joints
      <3>2. legs \in JointCommands /\ legs.position = "ramp" /\ legs.effort = "ramp"
        BY <3>1 DEF JointCommands
      <3>3. wheels \in JointCommands /\ wheels.effort = "zero"
            /\ wheels.position = output["wheel"].position
        BY <3>1 DEF JointCommands
      <3>4. springs \in JointCommands /\ springs.effort = "zero"
            /\ springs.position = output["spring"].position
        BY <3>1 DEF JointCommands
      <3>5. Prepared["leg"] = legs /\ Prepared["wheel"] = wheels /\ Prepared["spring"] = springs
            /\ Prepared \in [Joints -> {legs, wheels, springs}]
        BY <1>1, <3>1 DEF Prepared, Joints, JointCommands
      <3>6. QED
        BY <3>2, <3>3, <3>4, <3>5
    <2>3. LeftOver'
      BY <2>1, <2>2 DEF RunPassive
    <2>4. QED
      BY <2>1, <2>2, <2>3
  <1>5. QED
    BY <1>2, <1>3, <1>4 DEF RunPassive

LEMMA TrackingIsCommand ==
    /\ Tracking("action") \in [Joints -> JointCommands]
    /\ Tracking("action")["wheel"].position = "action"
    /\ Tracking("action")["spring"] = Rest
  BY RestIsCommand DEF Tracking, JointCommands, Joints

LEMMA RunPreserves == InductiveInvariant /\ Run => InductiveInvariant'
  <1> USE DEF controlVars, machineVars, policyVars, historyVars
  <1>1. ASSUME InductiveInvariant, RunPassive PROVE InductiveInvariant'
    <2>1. output' \in [Joints -> JointCommands] /\ RunResult' /\ LeftOver'
      BY <1>1, PassiveOutput
    <2>2. TypeOK'
      BY <1>1, <2>1 DEF RunPassive
    <2>3. Coherence'
      BY <1>1, <2>1 DEF RunPassive
    <2>4. QED
      BY <2>2, <2>3
  <1>2. ASSUME InductiveInvariant, RunPolicy PROVE InductiveInvariant'
    <2> USE <1>2 DEF RunPolicy
    <2>1. RunResult' /\ LeftOver'
      BY TrackingIsCommand, RestIsCommand DEF Tracking
    <2>2. TypeOK'
      BY TrackingIsCommand
    <2>3. Coherence'
      BY <2>1
    <2>4. QED
      BY <2>2, <2>3
  <1>3. ASSUME InductiveInvariant, RunHold PROVE InductiveInvariant'
    <2> USE <1>3 DEF RunHold
    <2>1. desired = "action" /\ actionAge \in 0 .. PolicyPeriod - 1
      BY DEF ShouldInfer
    <2>2. output' = Tracking("action")
      BY <2>1
    <2>3. RunResult' /\ LeftOver'
      BY <2>1, <2>2, TrackingIsCommand, RestIsCommand DEF Tracking
    <2>4. TypeOK'
      BY <2>2, TrackingIsCommand
    <2>5. Coherence'
      BY <2>3
    <2>6. QED
      BY <2>4, <2>5
  <1>4. ASSUME InductiveInvariant, FailSafe PROVE InductiveInvariant'
    <2> USE <1>4 DEF FailSafe
    <2>1. RunResult' /\ LeftOver'
      BY RestIsCommand DEF Joints
    <2>2. TypeOK'
      BY RestIsCommand
    <2>3. Coherence'
      BY <2>1
    <2>4. QED
      BY <2>2, <2>3
  <1>5. QED
    BY <1>1, <1>2, <1>3, <1>4 DEF Run

\* writeControllerCommands sends commands, whatever the outputs are.
LEMMA CommandedIsCommand ==
    ASSUME output \in [Joints -> JointCommands], NEW j \in Joints
    PROVE  Commanded(j) \in JointCommands
  BY DEF Commanded, JointCommands

\* In PREPARE the wheels and springs get no torque, and only hardware_pd gives
\* the wheels a position.
LEMMA PrepareWrites ==
    ASSUME InductiveInvariant, pc = "write", current = "PREPARE", current' = current,
           outputMode' = outputMode, WriteControllerCommands
    PROVE  /\ Pulls("leg")' \subseteq {"ramp", "zero"}
           /\ Pulls("wheel")' \subseteq {"zero"}
           /\ Pulls("spring")' \subseteq {"measured", "zero"}
           /\ HeldOver("wheel")' => written'["wheel"].position \in {"measured", "action"}
  <1>1. /\ \A j \in Joints : written'[j] = Commanded(j)
        /\ gains' = (outputMode # "torque")
    BY DEF WriteControllerCommands
  <1>2. /\ output["leg"].position = "ramp" /\ output["leg"].effort = "ramp"
        /\ output["wheel"].effort = "zero" /\ output["spring"].effort = "zero"
        /\ output["wheel"].position \in {"measured", "action"}
        /\ output["spring"].position = "measured"
        /\ output \in [Joints -> JointCommands]
    OBVIOUS
  <1>3. written'["leg"] = Commanded("leg") /\ written'["wheel"] = Commanded("wheel")
          /\ written'["spring"] = Commanded("spring")
    BY <1>1 DEF Joints
  <1>4. CASE outputMode = "torque"
    <2>1. ~gains'
      BY <1>1, <1>4
    <2>2. /\ written'["leg"].effort = "ramp" /\ written'["wheel"].effort = "zero"
          /\ written'["spring"].effort = "zero"
      BY <1>2, <1>3, <1>4 DEF Commanded, JointCommands, Joints
    <2>3. QED
      BY <1>4, <2>1, <2>2 DEF Pulls, HeldOver
  <1>5. CASE outputMode = "hardware_pd"
    <2>1. /\ written'["leg"] = [position |-> "ramp", velocity |-> "zero", effort |-> "zero"]
          /\ written'["wheel"] = [position |-> output["wheel"].position, velocity |-> "zero",
                                  effort |-> "zero"]
          /\ written'["spring"] = [position |-> "measured", velocity |-> "zero",
                                   effort |-> "zero"]
      BY <1>2, <1>3, <1>5 DEF Commanded
    <2>2. HeldOver("wheel")'
      BY <1>5 DEF HeldOver
    <2>3. QED
      BY <1>2, <2>1, <2>2 DEF Pulls
  <1>6. CASE outputMode = "hardware_pd_vel"
    <2>1. /\ written'["leg"] = [position |-> "ramp", velocity |-> "zero", effort |-> "zero"]
          /\ written'["wheel"] = [position |-> "zero", velocity |-> "zero", effort |-> "zero"]
          /\ written'["spring"] = [position |-> "measured", velocity |-> "zero",
                                   effort |-> "zero"]
      BY <1>2, <1>3, <1>6 DEF Commanded
    <2>2. QED
      BY <1>6, <2>1 DEF Pulls, HeldOver
  <1>7. QED
    BY <1>4, <1>5, <1>6

\* In RL the origins on the interfaces are those of the outputs.
LEMMA PolicyWrites ==
    ASSUME InductiveInvariant, pc = "write", current = "RL", WriteControllerCommands
    PROVE  /\ Pulls("spring")' \subseteq {"measured", "zero"}
           /\ stop # "none" =>
                \A j \in Joints : {written'[j].position, written'[j].velocity,
                                   written'[j].effort} \subseteq {"measured", "zero"}
           /\ stop = "none" =>
                /\ Pulls("leg")' \cup Pulls("wheel")' \subseteq {"action", "zero"}
                /\ actionAge \in 0 .. PolicyPeriod - 1
  <1>1. \A j \in Joints : written'[j] = Commanded(j)
    BY DEF WriteControllerCommands
  <1>2. CASE output = AtRest /\ stop # "none"
    <2>1. \A j \in Joints : Commanded(j).position \in {"measured", "zero"}
                            /\ Commanded(j).velocity = "zero" /\ Commanded(j).effort = "zero"
      BY <1>2 DEF Commanded, AtRest, Rest
    <2>2. QED
      BY <1>1, <1>2, <2>1 DEF Pulls, Joints
  <1>3. CASE output = Tracking("action") /\ actionAge \in 0 .. PolicyPeriod - 1
    <2>1. stop = "none"
      <3>1. output # AtRest
        BY <1>3, TrackingIsCommand, RestIsCommand DEF Joints
      <3>2. QED
        BY <3>1
    <2>2. /\ Commanded("leg").velocity = "zero"
          /\ Commanded("leg").effort \in {"action", "zero"}
          /\ outputMode # "torque" => Commanded("leg").position = "action"
      BY <1>3 DEF Commanded, Tracking
    <2>3. /\ Commanded("wheel").velocity \in {"action", "zero"}
          /\ Commanded("wheel").effort \in {"action", "zero"}
          /\ outputMode # "torque" => Commanded("wheel").position \in {"action", "zero"}
      BY <1>3 DEF Commanded, Tracking
    <2>4. /\ Commanded("spring").position = "measured"
          /\ Commanded("spring").velocity = "zero" /\ Commanded("spring").effort = "zero"
      BY <1>3 DEF Commanded, Tracking, Rest
    <2>5. gains' => outputMode # "torque"
      BY DEF WriteControllerCommands
    <2>6. QED
      BY <1>1, <1>3, <2>1, <2>2, <2>3, <2>4, <2>5 DEF Pulls, Joints
  <1>4. QED
    BY <1>2, <1>3

LEMMA WritePreserves == InductiveInvariant /\ WriteCommands => InductiveInvariant'
  <1> SUFFICES ASSUME InductiveInvariant, WriteCommands PROVE InductiveInvariant'
    OBVIOUS
  <1> USE DEF WriteCommands, controlVars, machineVars, policyVars, historyVars
  <1>1. FlagsTypeOK'
    BY DEF WriteSafeJointCommands, WriteControllerCommands
  <1>2. output' \in [Joints -> JointCommands] /\ written' \in [Joints -> JointCommands]
    BY RestIsCommand, CommandedIsCommand DEF WriteSafeJointCommands, WriteControllerCommands
  <1>3. ValuesTypeOK'
    BY <1>2
  <1>4. LeftOver'
    BY RestIsCommand DEF WriteSafeJointCommands, Joints
  <1>5. GainsMatchState' /\ PolicyCommandIsFresh' /\ FailSafeStops'
    <2>1. CASE written' = AtRest /\ gains' = FALSE
      BY <2>1, SafeHasNoAction
    <2>2. CASE current = "PREPARE" /\ WriteControllerCommands
      <3>1. /\ Pulls("leg")' \subseteq {"ramp", "zero"}
            /\ Pulls("wheel")' \subseteq {"zero"}
            /\ Pulls("spring")' \subseteq {"measured", "zero"}
            /\ HeldOver("wheel")' => written'["wheel"].position \in {"measured", "action"}
        BY <2>2, PrepareWrites
      <3>2. stop' = "none" /\ current' = "PREPARE"
        BY <2>2
      <3>3. GainsMatchState'
        BY <3>1, <3>2
      <3>4. PolicyCommandIsFresh'
        BY <3>1 DEF Joints
      <3>5. QED
        BY <3>2, <3>3, <3>4
    <2>3. CASE current = "RL" /\ target # "IDLE" /\ WriteControllerCommands
      <3>1. /\ Pulls("spring")' \subseteq {"measured", "zero"}
            /\ stop # "none" =>
                 \A j \in Joints : {written'[j].position, written'[j].velocity,
                                    written'[j].effort} \subseteq {"measured", "zero"}
            /\ stop = "none" =>
                 /\ Pulls("leg")' \cup Pulls("wheel")' \subseteq {"action", "zero"}
                 /\ actionAge \in 0 .. PolicyPeriod - 1
        BY <2>3, PolicyWrites
      <3>2. current' = "RL" /\ stop' = stop /\ stop \in {"none", "overridden"}
            /\ actionAge' = actionAge
        BY <2>3
      <3>3. CASE stop = "none"
        BY <3>1, <3>2, <3>3 DEF Joints
      <3>4. CASE stop = "overridden"
        <4>1. \A j \in Joints : Pulls(j)' \subseteq {"measured", "zero"}
          BY <3>1, <3>4 DEF Pulls
        <4>2. "leg" \in Joints /\ "wheel" \in Joints
          BY DEF Joints
        <4>3. GainsMatchState'
          BY <3>1, <3>2, <3>4, <4>1, <4>2
        <4>4. PolicyCommandIsFresh'
          BY <4>1
        <4>5. FailSafeStops'
          BY <3>1, <3>2, <3>4
        <4>6. QED
          BY <4>3, <4>4, <4>5
      <3>5. QED
        BY <3>2, <3>3, <3>4
    <2>4. QED
      BY <2>1, <2>2, <2>3 DEF WriteSafeJointCommands, WriteControllerCommands
  <1>6. Coherence'
    BY <1>4, <1>5
  <1>7. QED
    BY <1>1, <1>3, <1>6

LEMMA StateCommandPreserves ==
    ASSUME NEW raw \in 0..3, InductiveInvariant, StateCommand(raw)
    PROVE  InductiveInvariant'
  <1> USE DEF StateCommand, controlVars, machineVars, policyVars
  <1>1. StateOf(raw) \in States /\ (StateOf(raw) = "IDLE" <=> raw = 1)
    BY DEF StateOf
  <1>2. /\ target' \in States /\ requested' \in SUBSET ActiveStates
        /\ target' = StateOf(raw)
        /\ requested \subseteq requested'
        /\ target' \in ActiveStates => target' \in requested'
    BY <1>1 DEF RequestState
  <1>3. FlagsTypeOK'
    OBVIOUS
  <1>4. ValuesTypeOK'
    BY <1>2
  <1>5. /\ GainsMatchState' /\ PolicyCommandIsFresh' /\ FailSafeStops' /\ ReleasedIsSafe'
    <2>1. /\ Safe' <=> Safe
          /\ \A j : Pulls(j)' = Pulls(j) /\ (HeldOver(j)' <=> HeldOver(j))
      BY CommandsKept
    <2>2. /\ pc' = pc /\ current' = current /\ lifecycle' = lifecycle
          /\ running' = running /\ written' = written /\ actionAge' = actionAge
          /\ stop' # "none" => stop # "none"
          /\ stop = "overridden" => stop' = "overridden"
          /\ stop # "overridden" /\ stop' = "overridden" => stop = "stopped"
          /\ stop' \in {"none", "stopped", "overridden"}
      OBVIOUS
    <2>3. GainsMatchState'
      BY <2>1, <2>2
    <2>4. PolicyCommandIsFresh'
      BY <2>1, <2>2
    <2>5. FailSafeStops' /\ ReleasedIsSafe'
      BY <2>1, <2>2
    <2>6. QED
      BY <2>3, <2>4, <2>5
  <1>6. ControlFlow' /\ InferenceRunsExactlyInRL' /\ PolicyRuntime' /\ LeftOver' /\ DwellIsReal'
    BY DEF Joints
  <1>7. RunResult'
    <2>1. Tracking("action")' = Tracking("action")
      BY DEF Tracking
    <2>2. stop # "none" => stop' # "none"
      OBVIOUS
    <2>3. QED
      BY <2>1, <2>2
  <1>8. StopResult' /\ TargetWasRequested' /\ RunsOnlyOnRequest'
    BY <1>1, <1>2
  <1>9. Coherence'
    BY <1>5, <1>6, <1>7, <1>8
  <1>10. QED
    BY <1>3, <1>4, <1>9

LEMMA LifecyclePreserves == InductiveInvariant /\ LifecycleTransition => InductiveInvariant'
  <1>1. ASSUME InductiveInvariant, Configure \/ Cleanup PROVE InductiveInvariant'
    <2> USE <1>1 DEF Configure, Cleanup, machineVars, policyVars, historyVars
    <2>1. FlagsTypeOK'
      OBVIOUS
    <2>2. ValuesTypeOK'
      BY RestIsCommand
    <2>3. /\ Safe' <=> Safe
          /\ \A j : Pulls(j)' = Pulls(j) /\ (HeldOver(j)' <=> HeldOver(j))
      BY CommandsKept
    <2>4. GainsMatchState' /\ PolicyCommandIsFresh' /\ FailSafeStops' /\ ReleasedIsSafe'
      BY <2>3
    <2>5. Coherence'
      BY <2>4
    <2>6. QED
      BY <2>1, <2>2, <2>5
  <1>2. ASSUME InductiveInvariant, Activate \/ Deactivate \/ Shutdown PROVE InductiveInvariant'
    <2>1. PICK age \in -Ahead .. Behind : ResetControllerRuntime(age)
      BY <1>2 DEF Activate, Deactivate, Shutdown
    <2>2. /\ pc' = "ready" /\ lifecycle' \in {"inactive", "active", "finalized"}
          /\ UNCHANGED <<parameterVars, subscribed, loaded, stamped, faults>>
      BY <1>2 DEF Activate, Deactivate, Shutdown
    <2>3. /\ subscribed' \in BOOLEAN /\ stamped' \in BOOLEAN /\ faults' \in 0 .. MaxFaults
      BY <1>2, <2>2
    <2>4. InductiveInvariant /\ parameterVars' = parameterVars /\ loaded' = loaded
      BY <1>2, <2>2
    <2> HIDE DEF InductiveInvariant, parameterVars
    <2>5. QED
      BY <2>1, <2>2, <2>3, <2>4, ResetPreserves
  <1>3. QED
    BY <1>1, <1>2 DEF LifecycleTransition

\* Every step of either thread preserves the invariant.
LEMMA StepPreserves == InductiveInvariant /\ [Next]_vars => InductiveInvariant'
  <1> SUFFICES ASSUME InductiveInvariant, [Next]_vars PROVE InductiveInvariant'
    OBVIOUS
  <1>1. CASE Update
    BY <1>1, BeginUpdatePreserves, ReadPreserves, AutoEnterPreserves, LoadTargetPreserves,
       TransitionPreserves, RunPreserves, WritePreserves DEF Update
  <1>2. CASE \E raw \in 0..3 : StateCommand(raw)
    BY <1>2, StateCommandPreserves
  <1>3. CASE LifecycleTransition
    BY <1>3, LifecyclePreserves
  <1>4. CASE UNCHANGED vars
    <2> USE <1>4 DEF vars, controlVars, machineVars, policyVars, historyVars
    <2>1. TypeOK'
      OBVIOUS
    <2>2. /\ Safe' <=> Safe
          /\ \A j : Pulls(j)' = Pulls(j) /\ (HeldOver(j)' <=> HeldOver(j))
      BY CommandsKept
    <2>3. GainsMatchState' /\ PolicyCommandIsFresh' /\ FailSafeStops' /\ ReleasedIsSafe'
      BY <2>2
    <2>4. Tracking("action")' = Tracking("action")
      BY DEF Tracking
    <2>5. RunResult' /\ LeftOver' /\ StopResult'
      BY <2>4
    <2>6. Coherence'
      BY <2>3, <2>5
    <2>7. QED
      BY <2>1, <2>6
  <1>5. QED
    BY <1>1, <1>2, <1>3, <1>4 DEF Next

\* INIT is entered and left by changeState in Transition; resets only enter it.
LEMMA OnlyTransitionActivates ==
    ASSUME InductiveInvariant, [Next]_vars, current' # current
    PROVE  current' = "INIT" \/ Transition
  <1> USE DEF controlVars, machineVars, policyVars, historyVars
  <1>1. CASE Update
    BY <1>1 DEF Update, BeginUpdate, TimeAdvances, TimeWentBackwards, ResetControllerRuntime,
       ReadInvalidImu, ReadRobotState, ReadDt7, AutoEnter, LoadTarget, Run, RunPassive,
       RunPolicy, RunHold, FailSafe, WriteCommands
  <1>2. CASE \E raw \in 0..3 : StateCommand(raw)
    BY <1>2 DEF StateCommand
  <1>3. CASE LifecycleTransition
    BY <1>3 DEF LifecycleTransition, Configure, Activate, Deactivate, Cleanup, Shutdown,
       ResetControllerRuntime
  <1>4. CASE UNCHANGED vars
    BY <1>4 DEF vars
  <1>5. QED
    BY <1>1, <1>2, <1>3, <1>4 DEF Next

\* From here on the invariant is cited by the names of its parts.
HIDE DEF InductiveInvariant, Coherence, TypeOK, FlagsTypeOK, ValuesTypeOK, ControlFlow,
         InferenceRunsExactlyInRL, PolicyRuntime, RunResult, LeftOver, StopResult, TargetWasRequested,
         DwellIsReal, GainsMatchState, PolicyCommandIsFresh, FailSafeStops, ReleasedIsSafe,
         RunsOnlyOnRequest

-----------------------------------------------------------------------------
\* Every reachable state, whatever the thresholds, the time steps, the
\* configuration and the order of the two threads' steps, satisfies the
\* inductive invariant.
THEOREM InvariantHolds == Spec => []InductiveInvariant
  <1>1. Init => InductiveInvariant
    BY InitEstablishes
  <1>2. InductiveInvariant /\ [Next]_vars => InductiveInvariant'
    BY StepPreserves
  <1>3. QED
    BY <1>1, <1>2, PTL DEF Spec

\* Every variable keeps its type.
THEOREM TypeCorrect == Spec => []TypeOK
  <1>1. InductiveInvariant => TypeOK
    BY DEF InductiveInvariant
  <1>2. QED
    BY <1>1, InvariantHolds, PTL

\* The inference session runs exactly while the machine is in RL.
THEOREM InferenceLifetime == Spec => []InferenceRunsExactlyInRL
  <1>1. InductiveInvariant => InferenceRunsExactlyInRL
    BY DEF InductiveInvariant, Coherence
  <1>2. QED
    BY <1>1, InvariantHolds, PTL

\* When update() returns, joints are pulled only in PREPARE and RL and by what
\* that state has computed, in every output mode; in hardware_pd the wheels'
\* position in PREPARE is what an earlier state left, and nothing else is.
THEOREM GainsAreOwn == Spec => []GainsMatchState
  <1>1. InductiveInvariant => GainsMatchState
    BY DEF InductiveInvariant, Coherence
  <1>2. QED
    BY <1>1, InvariantHolds, PTL

\* A policy target that moves a joint, the wheels' left-over position aside,
\* comes from this stay in RL and is less than one policy period old.
THEOREM PolicyIsFresh == Spec => []PolicyCommandIsFresh
  <1>1. InductiveInvariant => PolicyCommandIsFresh
    BY DEF InductiveInvariant, Coherence
  <1>2. QED
    BY <1>1, InvariantHolds, PTL

\* A cycle in which StateRL stopped itself leaves no policy target, and leaves
\* gains only when a later request replaced its own.
THEOREM FailSafeIsFinal == Spec => []FailSafeStops
  <1>1. InductiveInvariant => FailSafeStops
    BY DEF InductiveInvariant, Coherence
  <1>2. QED
    BY <1>1, InvariantHolds, PTL

\* A controller that is not active has left nothing but the zero-gain command.
THEOREM ReleaseIsSafe == Spec => []ReleasedIsSafe
  <1>1. InductiveInvariant => ReleasedIsSafe
    BY DEF InductiveInvariant, Coherence
  <1>2. QED
    BY <1>1, InvariantHolds, PTL

\* INIT is never left before the dwell time has really passed, less what the
\* node clock was behind when it stamped the activation.
THEOREM DwellIsRespected == Spec => DwellRespected
  <1>1. InductiveInvariant /\ [Next]_vars
          => [current = "INIT" /\ current' # "INIT" => initAge > Dwell - Behind]_vars
    <2> SUFFICES ASSUME InductiveInvariant, [Next]_vars, current = "INIT", current' # "INIT"
                 PROVE  initAge > Dwell - Behind
      OBVIOUS
    <2>1. Transition
      BY OnlyTransitionActivates
    <2>2. DwellElapsed
      BY <2>1 DEF Transition
    <2>3. QED
      BY <2>2 DEF DwellElapsed, InductiveInvariant, Coherence, DwellIsReal, TypeOK, ValuesTypeOK
  <1>2. QED
    BY <1>1, InvariantHolds, PTL DEF Spec, DwellRespected

\* No active state runs that nobody asked for since the last reset or stop.
THEOREM ActivityIsRequested == Spec => []RunsOnlyOnRequest
  <1>1. InductiveInvariant => RunsOnlyOnRequest
    BY DEF InductiveInvariant, Coherence
  <1>2. QED
    BY <1>1, InvariantHolds, PTL

-----------------------------------------------------------------------------
(* The abstract specifications.                                            *)

\* The steps of update() but Transition and a reset leave the state machine
\* where it is; so does a state command.
LEMMA StateMovesInTransition ==
    ASSUME InductiveInvariant, Next
    PROVE  \/ UNCHANGED <<useDt7, lifecycle, subscribed, current>>
           \/ BeginUpdate /\ TimeWentBackwards
           \/ Transition
           \/ LifecycleTransition
  <1> USE DEF controlVars, parameterVars, machineVars, policyVars, historyVars
  <1>1. CASE Update
    BY <1>1 DEF Update, BeginUpdate, TimeAdvances, ReadInvalidImu, ReadRobotState, ReadDt7,
       AutoEnter, LoadTarget, Run, RunPassive, RunPolicy, RunHold, FailSafe, WriteCommands
  <1>2. CASE \E raw \in 0..3 : StateCommand(raw)
    BY <1>2 DEF StateCommand
  <1>3. QED
    BY <1>1, <1>2 DEF Next

\* The state machine and the lifecycle callbacks: the current state moves only
\* in an active controller, every way into and out of "active" finds or puts it
\* back in INIT, and the subscriptions come and go with the configuration.
THEOREM ImplementsNode == Spec => NodeSpec
  <1>1. Init => Node!Init
    BY DEF Init, Node!Init
  <1>2. InductiveInvariant /\ [Next]_vars => [Node!Next]_(Node!vars)
    <2> SUFFICES ASSUME InductiveInvariant, [Next]_vars PROVE [Node!Next]_(Node!vars)
      OBVIOUS
    <2> USE DEF Node!vars, Node!Next
    <2>1. CASE UNCHANGED vars
      BY <2>1 DEF vars, controlVars, parameterVars, machineVars
    <2>2. CASE UNCHANGED <<useDt7, lifecycle, subscribed, current>>
      BY <2>2
    <2>3. CASE BeginUpdate /\ TimeWentBackwards
      <3>1. /\ lifecycle = "active" /\ current' = "INIT"
            /\ UNCHANGED <<useDt7, lifecycle, subscribed>>
        BY <2>3 DEF BeginUpdate, TimeWentBackwards, ResetControllerRuntime, parameterVars
      <3>2. QED
        BY <3>1 DEF Node!SwitchState, Node!States
    <2>4. CASE Transition
      <3>1. lifecycle = "active" /\ UNCHANGED <<useDt7, lifecycle, subscribed>>
        BY <2>4 DEF Transition, controlVars, parameterVars, InductiveInvariant, Coherence,
                    ControlFlow
      <3>2. current' \in States
        BY <2>4, StepPreserves DEF InductiveInvariant, TypeOK, ValuesTypeOK, Next, Update
      <3>3. QED
        BY <3>1, <3>2 DEF Node!SwitchState, Node!States
    <2>5. CASE LifecycleTransition
      <3> USE DEF parameterVars, machineVars
      <3>1. CASE Configure
        BY <3>1 DEF Configure, Node!Configure
      <3>2. CASE Activate
        BY <3>2 DEF Activate, ResetControllerRuntime, Node!Activate
      <3>3. CASE Deactivate
        BY <3>3 DEF Deactivate, ResetControllerRuntime, Node!Deactivate
      <3>4. CASE Cleanup
        BY <3>4 DEF Cleanup, Node!Cleanup
      <3>5. CASE Shutdown
        BY <3>5 DEF Shutdown, ResetControllerRuntime, Node!Shutdown
      <3>6. QED
        BY <2>5, <3>1, <3>2, <3>3, <3>4, <3>5 DEF LifecycleTransition
    <2>6. QED
      BY <2>1, <2>2, <2>3, <2>4, <2>5, StateMovesInTransition
  <1>3. QED
    BY <1>1, <1>2, InvariantHolds, PTL DEF Spec, NodeSpec, Node!Spec

\* A reset of the runtime stops the session if it runs, and changes nothing
\* of it otherwise.
LEMMA ResetStopsSession ==
    ASSUME InductiveInvariant, NEW age, ResetControllerRuntime(age)
    PROVE  [Session!Next]_(Session!vars)
  <1>1. /\ running <=> current = "RL"
        /\ desired = "action" => current = "RL"
        /\ current = "RL" => ~firstUpdate
        /\ running \in BOOLEAN
    BY DEF InductiveInvariant, TypeOK, FlagsTypeOK, Coherence, InferenceRunsExactlyInRL,
           PolicyRuntime, ControlFlow
  <1>2. running' = FALSE
    BY DEF ResetControllerRuntime
  <1>3. CASE current = "RL"
    <2>1. desired' = "zero"
      BY <1>1, <1>3 DEF ResetControllerRuntime, ResetPolicyRuntimeState
    <2>2. QED
      BY <1>1, <1>2, <1>3, <2>1 DEF Session!Next, Session!Stop
  <1>4. CASE current # "RL"
    <2>1. UNCHANGED desired
      BY <1>4 DEF ResetControllerRuntime
    <2>2. QED
      BY <1>1, <1>2, <1>4, <2>1 DEF Session!vars
  <1>5. QED
    BY <1>3, <1>4

\* StateRL and the inference session: an action of the policy is held only
\* while the session runs; entering starts without one, and leaving by any
\* way, failSafe() and every reset forget it.
THEOREM ImplementsSession == Spec => SessionSpec
  <1>1. Init => Session!Init
    BY DEF Init, Session!Init
  <1>2. InductiveInvariant /\ [Next]_vars => [Session!Next]_(Session!vars)
    <2> SUFFICES ASSUME InductiveInvariant, [Next]_vars PROVE [Session!Next]_(Session!vars)
      OBVIOUS
    <2>1. /\ running <=> current = "RL"
          /\ desired = "action" => current = "RL"
          /\ running \in BOOLEAN
      BY DEF InductiveInvariant, TypeOK, FlagsTypeOK, Coherence, InferenceRunsExactlyInRL,
             PolicyRuntime
    <2>2. CASE UNCHANGED <<running, desired>>
      BY <2>2 DEF Session!vars
    <2>3. CASE Transition
      <3>1. CASE UNCHANGED policyVars
        BY <2>2, <3>1 DEF policyVars
      <3>2. ASSUME NEW s, s # current, ChangeState(s) PROVE [Session!Next]_(Session!vars)
        <4>1. CASE current = "RL"
          <5>1. running' = FALSE /\ desired' = "zero"
            BY <3>2, <4>1 DEF ChangeState, ResetPolicyRuntimeState
          <5>2. QED
            BY <2>1, <4>1, <5>1 DEF Session!Next, Session!Stop
        <4>2. CASE current # "RL" /\ s = "RL"
          <5>1. running' = TRUE /\ desired' = "zero"
            BY <3>2, <4>2 DEF ChangeState, ResetPolicyRuntimeState
          <5>2. QED
            BY <2>1, <4>2, <5>1 DEF Session!Next, Session!Start
        <4>3. CASE current # "RL" /\ s # "RL"
          <5>1. running' = FALSE /\ UNCHANGED desired
            BY <3>2, <4>3 DEF ChangeState
          <5>2. QED
            BY <2>1, <4>3, <5>1 DEF Session!vars
        <4>4. QED
          BY <4>1, <4>2, <4>3
      <3>3. QED
        BY <2>3, <3>1, <3>2 DEF Transition
    <2>4. CASE RunPolicy
      <3>1. running /\ desired' = "action" /\ UNCHANGED running
        BY <2>4 DEF RunPolicy
      <3>2. QED
        BY <3>1 DEF Session!Next, Session!Evaluate
    <2>5. CASE FailSafe
      <3>1. running /\ desired' = "measured" /\ UNCHANGED running
        BY <2>1, <2>5 DEF FailSafe
      <3>2. QED
        BY <3>1 DEF Session!Next, Session!Fail
    <2>6. CASE \E age \in -Ahead .. Behind : ResetControllerRuntime(age)
      BY <2>6, ResetStopsSession
    <2>7. UNCHANGED <<running, desired>> \/ Transition \/ RunPolicy \/ FailSafe
            \/ \E age \in -Ahead .. Behind : ResetControllerRuntime(age)
      <3> USE DEF policyVars
      <3>1. CASE Update
        <4>1. CASE BeginUpdate
          BY <4>1 DEF BeginUpdate, TimeAdvances, TimeWentBackwards
        <4>2. CASE ReadInvalidImu \/ ReadRobotState \/ \E raw \in Dt7Levels : ReadDt7(raw)
          BY <4>2 DEF ReadInvalidImu, ReadRobotState, ReadDt7
        <4>3. CASE AutoEnter \/ LoadTarget \/ RunPassive \/ RunHold \/ WriteCommands
          BY <4>3 DEF AutoEnter, LoadTarget, RunPassive, RunHold, WriteCommands
        <4>4. QED
          BY <3>1, <4>1, <4>2, <4>3 DEF Update, Run
      <3>2. CASE \E raw \in 0..3 : StateCommand(raw)
        BY <3>2 DEF StateCommand
      <3>3. CASE LifecycleTransition
        BY <3>3 DEF LifecycleTransition, Configure, Activate, Deactivate, Cleanup, Shutdown
      <3>4. CASE UNCHANGED vars
        BY <3>4 DEF vars
      <3>5. QED
        BY <3>1, <3>2, <3>3, <3>4 DEF Next
    <2>8. QED
      BY <2>2, <2>3, <2>4, <2>5, <2>6, <2>7
  <1>3. QED
    BY <1>1, <1>2, InvariantHolds, PTL DEF Spec, SessionSpec, Session!Spec
=============================================================================
